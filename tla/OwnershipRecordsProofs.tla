----------------------- MODULE OwnershipRecordsProofs -----------------------
(***************************************************************************)
(* One owner at a time: the proofs of DaemonIsOwner and of RetiredForGood, *)
(* for any values of the constants of Ownership.  What was written stays   *)
(* and was meant: the proof of RecordsAreSound, for any values of the        *)
(* constants of Records.                                                   *)
(***************************************************************************)
EXTENDS Ownership, Records, SequenceTheorems, TLAPS

-----------------------------------------------------------------------------
(* DaemonLifecycle.  The lock is held from before a process listens until  *)
(* it is over, so a registration is that of the process that holds it.     *)

DaemonProcess ==
  [at : {"off", "unbound", "listening", "building", "serving", "draining", "stopping", "waiting",
         "closing", "unregistering", "unlocking", "exited", "killed"},
   requests : {0, 1}, streams : {0, 1}, runs : {0, 1}, expired : BOOLEAN]

DaemonClient ==
  [at : {"idle", "asking", "done"}, seen : DaemonManaged \cup {None},
   status : {"none", "missing", "stale", "starting", "incompatible", "ready"}]

(* The values of the state.                                                *)
DaemonTyped ==
  /\ dmnProcess \in [DaemonProcesses -> DaemonProcess]
  /\ dmnRegistration \in DaemonManaged \cup {None}
  /\ dmnClient \in [DaemonClients -> DaemonClient]

(* A process that is registered holds the lock from before it listens until *)
(* it is over.                                                              *)
LockIsHeld == \A p \in DaemonManaged : ~Daemon!Over(p) => dmnLock = p

(* So the registration of one that has published its own is nobody else's.  *)
PublishedIsRegistered == \A p \in DaemonProcesses : Daemon!Published(p) => dmnRegistration = p

(* A client asks a process that was registered.                             *)
AskedWasRegistered == \A c \in DaemonClients :
  /\ dmnClient[c].at = "asking" => dmnClient[c].seen \in DaemonManaged
  /\ dmnClient[c].status = "ready" => dmnClient[c].seen \in DaemonManaged
       /\ DaemonVersion[dmnClient[c].seen] = DaemonWanted

(* A handler goes on after the drain only if the deadline passed, and no    *)
(* run or stream begins once the server has stopped.                        *)
WorkEnds == \A p \in DaemonProcesses :
  /\ Daemon!At(p, {"stopping", "waiting", "closing"}) /\ dmnProcess[p].requests = 1
       => dmnProcess[p].expired
  /\ Daemon!At(p, {"closing"}) => dmnProcess[p].runs = 0 /\ dmnProcess[p].streams = 0

(* The inductive invariant of the processes, with the parts of             *)
(* DaemonIsOwner that are inductive.                                       *)
DaemonIInv ==
  /\ DaemonTyped /\ LockIsHeld /\ PublishedIsRegistered /\ Daemon!StaleOnlyAfterCrash
  /\ AskedWasRegistered /\ WorkEnds

(* What the others know of a process does not depend on where in the middle *)
(* of its life it is.                                                       *)
LEMMA StagesKeepDaemon ==
  ASSUME DaemonIInv, UNCHANGED <<dmnLock, dmnRegistration, dmnClient, dmnLeft>>,
         \A p \in DaemonProcesses : (Daemon!Over(p)' <=> Daemon!Over(p))
           /\ (Daemon!Published(p)' <=> Daemon!Published(p))
  PROVE  LockIsHeld' /\ PublishedIsRegistered' /\ Daemon!StaleOnlyAfterCrash'
         /\ AskedWasRegistered'
<1>1. LockIsHeld' /\ PublishedIsRegistered'
  BY DaemonAssumption DEF DaemonIInv, LockIsHeld, PublishedIsRegistered
<1>2. Daemon!StaleOnlyAfterCrash'
  BY DaemonAssumption DEF DaemonIInv, DaemonTyped, Daemon!StaleOnlyAfterCrash
<1>3. AskedWasRegistered'
  BY DEF DaemonIInv, AskedWasRegistered
<1> QED
  BY <1>1, <1>2, <1>3

(* A client reads: it changes nothing of a process.                        *)
LEMMA ClientsKeepDaemon ==
  ASSUME DaemonIInv, UNCHANGED <<dmnProcess, dmnLock, dmnRegistration, dmnLeft>>,
         dmnClient' \in [DaemonClients -> DaemonClient], AskedWasRegistered'
  PROVE  DaemonIInv'
<1>1. DaemonTyped' /\ WorkEnds'
  BY DEF DaemonIInv, DaemonTyped, WorkEnds, Daemon!At
<1>2. LockIsHeld' /\ PublishedIsRegistered' /\ Daemon!StaleOnlyAfterCrash'
  BY DEF DaemonIInv, LockIsHeld, PublishedIsRegistered, Daemon!StaleOnlyAfterCrash,
     Daemon!Over, Daemon!Published, Daemon!At
<1> QED
  BY <1>1, <1>2 DEF DaemonIInv

(* A managed process has the lock before it listens: runServe.             *)
LEMMA AcquireLockDaemon ==
  ASSUME DaemonIInv, NEW p \in DaemonProcesses, Daemon!AcquireLock(p)
  PROVE  DaemonIInv'
<1>1. /\ dmnProcess' \in [DaemonProcesses -> DaemonProcess]
      /\ \A q \in DaemonProcesses : q # p => dmnProcess'[q] = dmnProcess[q]
      /\ dmnProcess[p].at = "off"
      /\ dmnProcess'[p].at \in {"unbound", "exited"}
      /\ dmnProcess'[p].requests = dmnProcess[p].requests
      /\ dmnProcess'[p].streams = dmnProcess[p].streams
      /\ dmnProcess'[p].runs = dmnProcess[p].runs
      /\ dmnProcess'[p].expired <=> dmnProcess[p].expired
  BY DEF DaemonIInv, DaemonTyped, DaemonProcess, Daemon!At, Daemon!move, Daemon!AcquireLock
<1>2. /\ UNCHANGED <<dmnRegistration, dmnClient, dmnLeft>>
  BY DaemonAssumption DEF DaemonIInv, DaemonTyped, Daemon!AcquireLock
<1>3. /\ p \in DaemonManaged => dmnLock = None \/ dmnProcess'[p].at = "exited"
      /\ dmnLock' = dmnLock \/ (p \in DaemonManaged /\ dmnLock = None)
      /\ p \in DaemonManaged /\ dmnProcess'[p].at = "unbound" => dmnLock' = p
  BY <1>1, DaemonAssumption DEF DaemonIInv, DaemonTyped, DaemonProcess, Daemon!At, Daemon!move,
     Daemon!AcquireLock
<1>4. DaemonTyped'
  BY <1>1, <1>2 DEF DaemonIInv, DaemonTyped
<1>5. LockIsHeld'
  BY <1>1, <1>2, <1>3, DaemonAssumption DEF DaemonIInv, LockIsHeld, Daemon!Over, Daemon!At
<1>6. PublishedIsRegistered'
  BY <1>1, <1>2, <1>3, DaemonAssumption DEF DaemonIInv, DaemonTyped, LockIsHeld,
     PublishedIsRegistered, Daemon!Over, Daemon!Published, Daemon!At
<1>7. Daemon!StaleOnlyAfterCrash'
  BY <1>1, <1>2, <1>3, DaemonAssumption DEF DaemonIInv, DaemonTyped,
     Daemon!StaleOnlyAfterCrash, Daemon!Published, Daemon!At
<1>8. AskedWasRegistered'
  BY <1>2 DEF DaemonIInv, AskedWasRegistered
<1>9. WorkEnds'
  BY <1>1 DEF DaemonIInv, WorkEnds, Daemon!At
<1> QED
  BY <1>4, <1>5, <1>6, <1>7, <1>8, <1>9 DEF DaemonIInv

(* A process listens, or ends: runServe.                                   *)
LEMMA ListenDaemon ==
  ASSUME DaemonIInv, NEW p \in DaemonProcesses, Daemon!Listen(p)
  PROVE  DaemonIInv'
<1>1. /\ dmnProcess' \in [DaemonProcesses -> DaemonProcess]
      /\ \A q \in DaemonProcesses : q # p => dmnProcess'[q] = dmnProcess[q]
      /\ dmnProcess[p].at = "unbound"
      /\ dmnProcess'[p].at \in {"listening", "unlocking"}
      /\ dmnProcess'[p].requests = dmnProcess[p].requests
      /\ dmnProcess'[p].streams = dmnProcess[p].streams
      /\ dmnProcess'[p].runs = dmnProcess[p].runs
      /\ dmnProcess'[p].expired <=> dmnProcess[p].expired
  BY DEF DaemonIInv, DaemonTyped, DaemonProcess, Daemon!At, Daemon!move, Daemon!Listen
<1>2. UNCHANGED <<dmnLock, dmnRegistration, dmnClient, dmnLeft>>
  BY DEF Daemon!Listen
<1>3. \A q \in DaemonProcesses : (Daemon!Over(q)' <=> Daemon!Over(q)) /\ (Daemon!Published(q)'
        <=> Daemon!Published(q))
  BY <1>1 DEF Daemon!Over, Daemon!Published, Daemon!At
<1>4. DaemonTyped'
  BY <1>1, <1>2 DEF DaemonIInv, DaemonTyped
<1>5. WorkEnds'
  BY <1>1 DEF DaemonIInv, DaemonTyped, WorkEnds, Daemon!At
<1> QED
  BY <1>2, <1>3, <1>4, <1>5, StagesKeepDaemon DEF DaemonIInv

(* The process with the lock publishes its registration over one that a    *)
(* crash has left: runServe.                                               *)
LEMMA WriteRegistrationDaemon ==
  ASSUME DaemonIInv, NEW p \in DaemonProcesses, Daemon!WriteRegistration(p)
  PROVE  DaemonIInv'
<1>1. /\ dmnProcess' \in [DaemonProcesses -> DaemonProcess]
      /\ \A q \in DaemonProcesses : q # p => dmnProcess'[q] = dmnProcess[q]
      /\ dmnProcess[p].at = "listening"
      /\ dmnProcess'[p].at \in {"building", "unlocking"}
      /\ dmnProcess'[p].requests = dmnProcess[p].requests
      /\ dmnProcess'[p].streams = dmnProcess[p].streams
      /\ dmnProcess'[p].runs = dmnProcess[p].runs
      /\ dmnProcess'[p].expired <=> dmnProcess[p].expired
  BY DEF DaemonIInv, DaemonTyped, DaemonProcess, Daemon!At, Daemon!move,
     Daemon!WriteRegistration
<1>2. /\ UNCHANGED <<dmnLock, dmnClient, dmnLeft>>
      /\ dmnRegistration' \in DaemonManaged \cup {None}
  BY DaemonAssumption DEF DaemonIInv, DaemonTyped, Daemon!WriteRegistration
<1>3. /\ dmnRegistration' = dmnRegistration \/ (p \in DaemonManaged /\ dmnRegistration' = p
           /\ dmnProcess'[p].at = "building")
      /\ p \in DaemonManaged /\ dmnProcess'[p].at = "building" => dmnRegistration' = p
  BY <1>1, DaemonAssumption DEF DaemonIInv, DaemonTyped, DaemonProcess, Daemon!At, Daemon!move,
     Daemon!WriteRegistration
<1>4. DaemonTyped'
  BY <1>1, <1>2 DEF DaemonIInv, DaemonTyped
<1>5. LockIsHeld'
  BY <1>1, <1>2, <1>3, DaemonAssumption DEF DaemonIInv, LockIsHeld, Daemon!Over, Daemon!At
<1>6. PublishedIsRegistered'
  BY <1>1, <1>2, <1>3, DaemonAssumption DEF DaemonIInv, DaemonTyped, LockIsHeld,
     PublishedIsRegistered, Daemon!Over, Daemon!Published, Daemon!At
<1>7. Daemon!StaleOnlyAfterCrash'
  BY <1>1, <1>2, <1>3, DaemonAssumption DEF DaemonIInv, DaemonTyped,
     Daemon!StaleOnlyAfterCrash, Daemon!Published, Daemon!At
<1>8. AskedWasRegistered'
  BY <1>2 DEF DaemonIInv, AskedWasRegistered
<1>9. WorkEnds'
  BY <1>1 DEF DaemonIInv, WorkEnds, Daemon!At
<1> QED
  BY <1>4, <1>5, <1>6, <1>7, <1>8, <1>9 DEF DaemonIInv

(* A process serves: runServe.                                             *)
LEMMA BuildDaemon ==
  ASSUME DaemonIInv, NEW p \in DaemonProcesses, Daemon!Build(p)
  PROVE  DaemonIInv'
<1>1. /\ dmnProcess' \in [DaemonProcesses -> DaemonProcess]
      /\ \A q \in DaemonProcesses : q # p => dmnProcess'[q] = dmnProcess[q]
      /\ dmnProcess[p].at = "building"
      /\ dmnProcess'[p].at \in {"serving", "unregistering"}
  BY DEF DaemonIInv, DaemonTyped, DaemonProcess, Daemon!At, Daemon!move, Daemon!Build
<1>2. UNCHANGED <<dmnLock, dmnRegistration, dmnClient, dmnLeft>>
  BY DEF Daemon!Build
<1>3. \A q \in DaemonProcesses : (Daemon!Over(q)' <=> Daemon!Over(q)) /\ (Daemon!Published(q)'
        <=> Daemon!Published(q))
  BY <1>1 DEF Daemon!Over, Daemon!Published, Daemon!At
<1>4. DaemonTyped'
  BY <1>1, <1>2 DEF DaemonIInv, DaemonTyped
<1>5. WorkEnds'
  BY <1>1 DEF DaemonIInv, DaemonTyped, WorkEnds, Daemon!At
<1> QED
  BY <1>2, <1>3, <1>4, <1>5, StagesKeepDaemon DEF DaemonIInv

(* A process that listens takes a request.                                 *)
LEMMA RequestDaemon ==
  ASSUME DaemonIInv, NEW p \in DaemonProcesses, Daemon!Request(p)
  PROVE  DaemonIInv'
<1>1. /\ dmnProcess' \in [DaemonProcesses -> DaemonProcess]
      /\ \A q \in DaemonProcesses : q # p => dmnProcess'[q] = dmnProcess[q]
      /\ dmnProcess[p].at = "serving"
      /\ dmnProcess'[p].at = "serving"
  BY DEF DaemonIInv, DaemonTyped, DaemonProcess, Daemon!At, Daemon!move, Daemon!Request
<1>2. UNCHANGED <<dmnLock, dmnRegistration, dmnClient, dmnLeft>>
  BY DEF Daemon!Request
<1>3. \A q \in DaemonProcesses : (Daemon!Over(q)' <=> Daemon!Over(q)) /\ (Daemon!Published(q)'
        <=> Daemon!Published(q))
  BY <1>1 DEF Daemon!Over, Daemon!Published, Daemon!At
<1>4. DaemonTyped'
  BY <1>1, <1>2 DEF DaemonIInv, DaemonTyped
<1>5. WorkEnds'
  BY <1>1 DEF DaemonIInv, DaemonTyped, WorkEnds, Daemon!At
<1> QED
  BY <1>2, <1>3, <1>4, <1>5, StagesKeepDaemon DEF DaemonIInv

(* A handler ends.                                                         *)
LEMMA RequestEndsDaemon ==
  ASSUME DaemonIInv, NEW p \in DaemonProcesses, Daemon!RequestEnds(p)
  PROVE  DaemonIInv'
<1>1. /\ dmnProcess' \in [DaemonProcesses -> DaemonProcess]
      /\ \A q \in DaemonProcesses : q # p => dmnProcess'[q] = dmnProcess[q]
      /\ dmnProcess'[p].at = dmnProcess[p].at
      /\ dmnProcess'[p].requests = 0
      /\ dmnProcess'[p].streams = dmnProcess[p].streams
      /\ dmnProcess'[p].runs = dmnProcess[p].runs
      /\ dmnProcess'[p].expired <=> dmnProcess[p].expired
  BY DEF DaemonIInv, DaemonTyped, DaemonProcess, Daemon!At, Daemon!move, Daemon!RequestEnds
<1>2. UNCHANGED <<dmnLock, dmnRegistration, dmnClient, dmnLeft>>
  BY DEF Daemon!RequestEnds
<1>3. \A q \in DaemonProcesses : (Daemon!Over(q)' <=> Daemon!Over(q)) /\ (Daemon!Published(q)'
        <=> Daemon!Published(q))
  BY <1>1 DEF Daemon!Over, Daemon!Published, Daemon!At
<1>4. DaemonTyped'
  BY <1>1, <1>2 DEF DaemonIInv, DaemonTyped
<1>5. WorkEnds'
  BY <1>1 DEF DaemonIInv, DaemonTyped, WorkEnds, Daemon!At
<1> QED
  BY <1>2, <1>3, <1>4, <1>5, StagesKeepDaemon DEF DaemonIInv

(* A stream begins before the server has stopped: trackInflight.           *)
LEMMA trackInflightDaemon ==
  ASSUME DaemonIInv, NEW p \in DaemonProcesses, Daemon!trackInflight(p)
  PROVE  DaemonIInv'
<1>1. /\ dmnProcess' \in [DaemonProcesses -> DaemonProcess]
      /\ \A q \in DaemonProcesses : q # p => dmnProcess'[q] = dmnProcess[q]
      /\ dmnProcess[p].at \in {"serving", "draining", "stopping"}
      /\ dmnProcess'[p].at = dmnProcess[p].at
      /\ dmnProcess'[p].requests = 0
      /\ dmnProcess'[p].streams = 1
      /\ dmnProcess'[p].runs = dmnProcess[p].runs
      /\ dmnProcess'[p].expired <=> dmnProcess[p].expired
  BY DEF DaemonIInv, DaemonTyped, DaemonProcess, Daemon!At, Daemon!move, Daemon!trackInflight,
     Daemon!BeforeStop
<1>2. UNCHANGED <<dmnLock, dmnRegistration, dmnClient, dmnLeft>>
  BY DEF Daemon!trackInflight
<1>3. \A q \in DaemonProcesses : (Daemon!Over(q)' <=> Daemon!Over(q)) /\ (Daemon!Published(q)'
        <=> Daemon!Published(q))
  BY <1>1 DEF Daemon!Over, Daemon!Published, Daemon!At
<1>4. DaemonTyped'
  BY <1>1, <1>2 DEF DaemonIInv, DaemonTyped
<1>5. WorkEnds'
  BY <1>1 DEF DaemonIInv, DaemonTyped, WorkEnds, Daemon!At
<1> QED
  BY <1>2, <1>3, <1>4, <1>5, StagesKeepDaemon DEF DaemonIInv

(* A stream ends.                                                          *)
LEMMA StreamEndsDaemon ==
  ASSUME DaemonIInv, NEW p \in DaemonProcesses, Daemon!StreamEnds(p)
  PROVE  DaemonIInv'
<1>1. /\ dmnProcess' \in [DaemonProcesses -> DaemonProcess]
      /\ \A q \in DaemonProcesses : q # p => dmnProcess'[q] = dmnProcess[q]
      /\ dmnProcess'[p].at = dmnProcess[p].at
      /\ dmnProcess'[p].requests = dmnProcess[p].requests
      /\ dmnProcess'[p].streams = 0
      /\ dmnProcess'[p].runs = dmnProcess[p].runs
      /\ dmnProcess'[p].expired <=> dmnProcess[p].expired
  BY DEF DaemonIInv, DaemonTyped, DaemonProcess, Daemon!At, Daemon!move, Daemon!StreamEnds
<1>2. UNCHANGED <<dmnLock, dmnRegistration, dmnClient, dmnLeft>>
  BY DEF Daemon!StreamEnds
<1>3. \A q \in DaemonProcesses : (Daemon!Over(q)' <=> Daemon!Over(q)) /\ (Daemon!Published(q)'
        <=> Daemon!Published(q))
  BY <1>1 DEF Daemon!Over, Daemon!Published, Daemon!At
<1>4. DaemonTyped'
  BY <1>1, <1>2 DEF DaemonIInv, DaemonTyped
<1>5. WorkEnds'
  BY <1>1 DEF DaemonIInv, DaemonTyped, WorkEnds, Daemon!At
<1> QED
  BY <1>2, <1>3, <1>4, <1>5, StagesKeepDaemon DEF DaemonIInv

(* A run begins before the server has stopped.                             *)
LEMMA RunStartsDaemon ==
  ASSUME DaemonIInv, NEW p \in DaemonProcesses, Daemon!RunStarts(p)
  PROVE  DaemonIInv'
<1>1. /\ dmnProcess' \in [DaemonProcesses -> DaemonProcess]
      /\ \A q \in DaemonProcesses : q # p => dmnProcess'[q] = dmnProcess[q]
      /\ dmnProcess[p].at \in {"serving", "draining", "stopping"}
      /\ dmnProcess'[p].at = dmnProcess[p].at
      /\ dmnProcess'[p].requests = dmnProcess[p].requests
      /\ dmnProcess'[p].streams = dmnProcess[p].streams
      /\ dmnProcess'[p].runs = 1
      /\ dmnProcess'[p].expired <=> dmnProcess[p].expired
  BY DEF DaemonIInv, DaemonTyped, DaemonProcess, Daemon!At, Daemon!move, Daemon!RunStarts,
     Daemon!BeforeStop
<1>2. UNCHANGED <<dmnLock, dmnRegistration, dmnClient, dmnLeft>>
  BY DEF Daemon!RunStarts
<1>3. \A q \in DaemonProcesses : (Daemon!Over(q)' <=> Daemon!Over(q)) /\ (Daemon!Published(q)'
        <=> Daemon!Published(q))
  BY <1>1 DEF Daemon!Over, Daemon!Published, Daemon!At
<1>4. DaemonTyped'
  BY <1>1, <1>2 DEF DaemonIInv, DaemonTyped
<1>5. WorkEnds'
  BY <1>1 DEF DaemonIInv, DaemonTyped, WorkEnds, Daemon!At
<1> QED
  BY <1>2, <1>3, <1>4, <1>5, StagesKeepDaemon DEF DaemonIInv

(* A run ends.                                                             *)
LEMMA RunEndsDaemon ==
  ASSUME DaemonIInv, NEW p \in DaemonProcesses, Daemon!RunEnds(p)
  PROVE  DaemonIInv'
<1>1. /\ dmnProcess' \in [DaemonProcesses -> DaemonProcess]
      /\ \A q \in DaemonProcesses : q # p => dmnProcess'[q] = dmnProcess[q]
      /\ dmnProcess'[p].at = dmnProcess[p].at
      /\ dmnProcess'[p].requests = dmnProcess[p].requests
      /\ dmnProcess'[p].streams = dmnProcess[p].streams
      /\ dmnProcess'[p].runs = 0
      /\ dmnProcess'[p].expired <=> dmnProcess[p].expired
  BY DEF DaemonIInv, DaemonTyped, DaemonProcess, Daemon!At, Daemon!move, Daemon!RunEnds
<1>2. UNCHANGED <<dmnLock, dmnRegistration, dmnClient, dmnLeft>>
  BY DEF Daemon!RunEnds
<1>3. \A q \in DaemonProcesses : (Daemon!Over(q)' <=> Daemon!Over(q)) /\ (Daemon!Published(q)'
        <=> Daemon!Published(q))
  BY <1>1 DEF Daemon!Over, Daemon!Published, Daemon!At
<1>4. DaemonTyped'
  BY <1>1, <1>2 DEF DaemonIInv, DaemonTyped
<1>5. WorkEnds'
  BY <1>1 DEF DaemonIInv, DaemonTyped, WorkEnds, Daemon!At
<1> QED
  BY <1>2, <1>3, <1>4, <1>5, StagesKeepDaemon DEF DaemonIInv

(* The drain begins: runServe.                                             *)
LEMMA ShutdownDaemon ==
  ASSUME DaemonIInv, NEW p \in DaemonProcesses, Daemon!Shutdown(p)
  PROVE  DaemonIInv'
<1>1. /\ dmnProcess' \in [DaemonProcesses -> DaemonProcess]
      /\ \A q \in DaemonProcesses : q # p => dmnProcess'[q] = dmnProcess[q]
      /\ dmnProcess[p].at = "serving"
      /\ dmnProcess'[p].at = "draining"
      /\ dmnProcess'[p].requests = dmnProcess[p].requests
      /\ dmnProcess'[p].streams = dmnProcess[p].streams
      /\ dmnProcess'[p].runs = dmnProcess[p].runs
      /\ dmnProcess'[p].expired <=> dmnProcess[p].expired
  BY DEF DaemonIInv, DaemonTyped, DaemonProcess, Daemon!At, Daemon!move, Daemon!Shutdown
<1>2. UNCHANGED <<dmnLock, dmnRegistration, dmnClient, dmnLeft>>
  BY DEF Daemon!Shutdown
<1>3. \A q \in DaemonProcesses : (Daemon!Over(q)' <=> Daemon!Over(q)) /\ (Daemon!Published(q)'
        <=> Daemon!Published(q))
  BY <1>1 DEF Daemon!Over, Daemon!Published, Daemon!At
<1>4. DaemonTyped'
  BY <1>1, <1>2 DEF DaemonIInv, DaemonTyped
<1>5. WorkEnds'
  BY <1>1 DEF DaemonIInv, DaemonTyped, WorkEnds, Daemon!At
<1> QED
  BY <1>2, <1>3, <1>4, <1>5, StagesKeepDaemon DEF DaemonIInv

(* The drain ends with the last handler or at the deadline: Shutdown.      *)
LEMMA DrainedDaemon ==
  ASSUME DaemonIInv, NEW p \in DaemonProcesses, Daemon!Drained(p)
  PROVE  DaemonIInv'
<1>1. /\ dmnProcess' \in [DaemonProcesses -> DaemonProcess]
      /\ \A q \in DaemonProcesses : q # p => dmnProcess'[q] = dmnProcess[q]
      /\ dmnProcess[p].at = "draining"
      /\ dmnProcess'[p].at = "stopping"
      /\ dmnProcess'[p].requests = 1 => dmnProcess'[p].expired
  BY DEF DaemonIInv, DaemonTyped, DaemonProcess, Daemon!At, Daemon!move, Daemon!Drained
<1>2. UNCHANGED <<dmnLock, dmnRegistration, dmnClient, dmnLeft>>
  BY DEF Daemon!Drained
<1>3. \A q \in DaemonProcesses : (Daemon!Over(q)' <=> Daemon!Over(q)) /\ (Daemon!Published(q)'
        <=> Daemon!Published(q))
  BY <1>1 DEF Daemon!Over, Daemon!Published, Daemon!At
<1>4. DaemonTyped'
  BY <1>1, <1>2 DEF DaemonIInv, DaemonTyped
<1>5. WorkEnds'
  BY <1>1 DEF DaemonIInv, DaemonTyped, WorkEnds, Daemon!At
<1> QED
  BY <1>2, <1>3, <1>4, <1>5, StagesKeepDaemon DEF DaemonIInv

(* No run and no stream begins after Stop.                                 *)
LEMMA StopServerDaemon ==
  ASSUME DaemonIInv, NEW p \in DaemonProcesses, Daemon!StopServer(p)
  PROVE  DaemonIInv'
<1>1. /\ dmnProcess' \in [DaemonProcesses -> DaemonProcess]
      /\ \A q \in DaemonProcesses : q # p => dmnProcess'[q] = dmnProcess[q]
      /\ dmnProcess[p].at = "stopping"
      /\ dmnProcess'[p].at = "waiting"
      /\ dmnProcess'[p].requests = dmnProcess[p].requests
      /\ dmnProcess'[p].streams = dmnProcess[p].streams
      /\ dmnProcess'[p].runs = dmnProcess[p].runs
      /\ dmnProcess'[p].expired <=> dmnProcess[p].expired
  BY DEF DaemonIInv, DaemonTyped, DaemonProcess, Daemon!At, Daemon!move, Daemon!StopServer
<1>2. UNCHANGED <<dmnLock, dmnRegistration, dmnClient, dmnLeft>>
  BY DEF Daemon!StopServer
<1>3. \A q \in DaemonProcesses : (Daemon!Over(q)' <=> Daemon!Over(q)) /\ (Daemon!Published(q)'
        <=> Daemon!Published(q))
  BY <1>1 DEF Daemon!Over, Daemon!Published, Daemon!At
<1>4. DaemonTyped'
  BY <1>1, <1>2 DEF DaemonIInv, DaemonTyped
<1>5. WorkEnds'
  BY <1>1 DEF DaemonIInv, DaemonTyped, WorkEnds, Daemon!At
<1> QED
  BY <1>2, <1>3, <1>4, <1>5, StagesKeepDaemon DEF DaemonIInv

(* Wait returns when the last run and the last stream have ended.          *)
LEMMA WaitServerDaemon ==
  ASSUME DaemonIInv, NEW p \in DaemonProcesses, Daemon!WaitServer(p)
  PROVE  DaemonIInv'
<1>1. /\ dmnProcess' \in [DaemonProcesses -> DaemonProcess]
      /\ \A q \in DaemonProcesses : q # p => dmnProcess'[q] = dmnProcess[q]
      /\ dmnProcess[p].at = "waiting"
      /\ dmnProcess'[p].at \in {"closing", "unregistering"}
      /\ dmnProcess'[p].requests = dmnProcess[p].requests
      /\ dmnProcess'[p].streams = dmnProcess[p].streams
      /\ dmnProcess'[p].runs = dmnProcess[p].runs
      /\ dmnProcess'[p].expired <=> dmnProcess[p].expired
      /\ dmnProcess'[p].at = "closing" => dmnProcess[p].runs = 0 /\ dmnProcess[p].streams = 0
  BY DEF DaemonIInv, DaemonTyped, DaemonProcess, Daemon!At, Daemon!move, Daemon!WaitServer
<1>2. UNCHANGED <<dmnLock, dmnRegistration, dmnClient, dmnLeft>>
  BY DEF Daemon!WaitServer
<1>3. \A q \in DaemonProcesses : (Daemon!Over(q)' <=> Daemon!Over(q)) /\ (Daemon!Published(q)'
        <=> Daemon!Published(q))
  BY <1>1 DEF Daemon!Over, Daemon!Published, Daemon!At
<1>4. DaemonTyped'
  BY <1>1, <1>2 DEF DaemonIInv, DaemonTyped
<1>5. WorkEnds'
  BY <1>1 DEF DaemonIInv, DaemonTyped, WorkEnds, Daemon!At
<1> QED
  BY <1>2, <1>3, <1>4, <1>5, StagesKeepDaemon DEF DaemonIInv

(* The store closes after them: Close.                                     *)
LEMMA CloseDependenciesDaemon ==
  ASSUME DaemonIInv, NEW p \in DaemonProcesses, Daemon!CloseDependencies(p)
  PROVE  DaemonIInv'
<1>1. /\ dmnProcess' \in [DaemonProcesses -> DaemonProcess]
      /\ \A q \in DaemonProcesses : q # p => dmnProcess'[q] = dmnProcess[q]
      /\ dmnProcess[p].at = "closing"
      /\ dmnProcess'[p].at = "unregistering"
      /\ dmnProcess'[p].requests = dmnProcess[p].requests
      /\ dmnProcess'[p].streams = dmnProcess[p].streams
      /\ dmnProcess'[p].runs = dmnProcess[p].runs
      /\ dmnProcess'[p].expired <=> dmnProcess[p].expired
  BY DEF DaemonIInv, DaemonTyped, DaemonProcess, Daemon!At, Daemon!move,
     Daemon!CloseDependencies
<1>2. UNCHANGED <<dmnLock, dmnRegistration, dmnClient, dmnLeft>>
  BY DEF Daemon!CloseDependencies
<1>3. \A q \in DaemonProcesses : (Daemon!Over(q)' <=> Daemon!Over(q)) /\ (Daemon!Published(q)'
        <=> Daemon!Published(q))
  BY <1>1 DEF Daemon!Over, Daemon!Published, Daemon!At
<1>4. DaemonTyped'
  BY <1>1, <1>2 DEF DaemonIInv, DaemonTyped
<1>5. WorkEnds'
  BY <1>1 DEF DaemonIInv, DaemonTyped, WorkEnds, Daemon!At
<1> QED
  BY <1>2, <1>3, <1>4, <1>5, StagesKeepDaemon DEF DaemonIInv

(* A process removes the registration that it has published: runServe.     *)
LEMMA RemoveRegistrationDaemon ==
  ASSUME DaemonIInv, NEW p \in DaemonProcesses, Daemon!RemoveRegistration(p)
  PROVE  DaemonIInv'
<1>1. /\ dmnProcess' \in [DaemonProcesses -> DaemonProcess]
      /\ \A q \in DaemonProcesses : q # p => dmnProcess'[q] = dmnProcess[q]
      /\ dmnProcess[p].at = "unregistering"
      /\ dmnProcess'[p].at = "unlocking"
      /\ dmnProcess'[p].requests = dmnProcess[p].requests
      /\ dmnProcess'[p].streams = dmnProcess[p].streams
      /\ dmnProcess'[p].runs = dmnProcess[p].runs
      /\ dmnProcess'[p].expired <=> dmnProcess[p].expired
  BY DEF DaemonIInv, DaemonTyped, DaemonProcess, Daemon!At, Daemon!move,
     Daemon!RemoveRegistration
<1>2. /\ UNCHANGED <<dmnLock, dmnClient>>
      /\ dmnRegistration' \in DaemonManaged \cup {None}
  BY DaemonAssumption DEF DaemonIInv, DaemonTyped, Daemon!RemoveRegistration
<1>3. /\ dmnLeft \subseteq dmnLeft'
      /\ dmnRegistration' = dmnRegistration \/ (dmnRegistration = p /\ dmnRegistration' = None)
      /\ dmnRegistration' = p => p \in dmnLeft'
  BY <1>1, DaemonAssumption DEF DaemonIInv, DaemonTyped, DaemonProcess, Daemon!At, Daemon!move,
     Daemon!RemoveRegistration
<1>4. DaemonTyped'
  BY <1>1, <1>2 DEF DaemonIInv, DaemonTyped
<1>5. LockIsHeld'
  BY <1>1, <1>2, <1>3, DaemonAssumption DEF DaemonIInv, LockIsHeld, Daemon!Over, Daemon!At
<1>6. PublishedIsRegistered'
  BY <1>1, <1>2, <1>3, DaemonAssumption DEF DaemonIInv, DaemonTyped, LockIsHeld,
     PublishedIsRegistered, Daemon!Over, Daemon!Published, Daemon!At
<1>7. Daemon!StaleOnlyAfterCrash'
  BY <1>1, <1>2, <1>3, DaemonAssumption DEF DaemonIInv, DaemonTyped,
     Daemon!StaleOnlyAfterCrash, Daemon!Published, Daemon!At
<1>8. AskedWasRegistered'
  BY <1>2 DEF DaemonIInv, AskedWasRegistered
<1>9. WorkEnds'
  BY <1>1 DEF DaemonIInv, WorkEnds, Daemon!At
<1> QED
  BY <1>4, <1>5, <1>6, <1>7, <1>8, <1>9 DEF DaemonIInv

(* The lock goes last: runServe.                                           *)
LEMMA ReleaseDaemon ==
  ASSUME DaemonIInv, NEW p \in DaemonProcesses, Daemon!Release(p)
  PROVE  DaemonIInv'
<1>1. /\ dmnProcess' \in [DaemonProcesses -> DaemonProcess]
      /\ \A q \in DaemonProcesses : q # p => dmnProcess'[q] = dmnProcess[q]
      /\ dmnProcess[p].at = "unlocking"
      /\ dmnProcess'[p].at = "exited"
  BY DEF DaemonIInv, DaemonTyped, DaemonProcess, Daemon!At, Daemon!move, Daemon!Release,
     Daemon!Ended, Daemon!Idle
<1>2. /\ UNCHANGED <<dmnRegistration, dmnClient, dmnLeft>>
  BY DaemonAssumption DEF DaemonIInv, DaemonTyped, Daemon!Release
<1>3. /\ dmnLock # p => dmnLock' = dmnLock
  BY <1>1, DaemonAssumption DEF DaemonIInv, DaemonTyped, DaemonProcess, Daemon!At, Daemon!move,
     Daemon!Release
<1>4. DaemonTyped'
  BY <1>1, <1>2 DEF DaemonIInv, DaemonTyped
<1>5. LockIsHeld'
  BY <1>1, <1>2, <1>3, DaemonAssumption DEF DaemonIInv, LockIsHeld, Daemon!Over, Daemon!At
<1>6. PublishedIsRegistered'
  BY <1>1, <1>2, <1>3, DaemonAssumption DEF DaemonIInv, DaemonTyped, LockIsHeld,
     PublishedIsRegistered, Daemon!Over, Daemon!Published, Daemon!At
<1>7. Daemon!StaleOnlyAfterCrash'
  BY <1>1, <1>2, <1>3, DaemonAssumption DEF DaemonIInv, DaemonTyped,
     Daemon!StaleOnlyAfterCrash, Daemon!Published, Daemon!At
<1>8. AskedWasRegistered'
  BY <1>2 DEF DaemonIInv, AskedWasRegistered
<1>9. WorkEnds'
  BY <1>1 DEF DaemonIInv, WorkEnds, Daemon!At
<1> QED
  BY <1>4, <1>5, <1>6, <1>7, <1>8, <1>9 DEF DaemonIInv

(* A process that is killed leaves its registration and loses its lock.    *)
LEMMA KillDaemon ==
  ASSUME DaemonIInv, NEW p \in DaemonProcesses, Daemon!Kill(p)
  PROVE  DaemonIInv'
<1>1. /\ dmnProcess' \in [DaemonProcesses -> DaemonProcess]
      /\ \A q \in DaemonProcesses : q # p => dmnProcess'[q] = dmnProcess[q]
      /\ ~Daemon!Over(p)
      /\ dmnProcess'[p].at = "killed"
  BY DEF DaemonIInv, DaemonTyped, DaemonProcess, Daemon!At, Daemon!move, Daemon!Kill,
     Daemon!Ended, Daemon!Idle
<1>2. /\ UNCHANGED <<dmnRegistration, dmnClient>>
  BY DaemonAssumption DEF DaemonIInv, DaemonTyped, Daemon!Kill
<1>3. /\ dmnLock # p => dmnLock' = dmnLock
      /\ dmnLeft' = dmnLeft \cup {p}
  BY <1>1, DaemonAssumption DEF DaemonIInv, DaemonTyped, DaemonProcess, Daemon!At, Daemon!move,
     Daemon!Kill
<1>4. DaemonTyped'
  BY <1>1, <1>2 DEF DaemonIInv, DaemonTyped
<1>5. LockIsHeld'
  BY <1>1, <1>2, <1>3, DaemonAssumption DEF DaemonIInv, LockIsHeld, Daemon!Over, Daemon!At
<1>6. PublishedIsRegistered'
  BY <1>1, <1>2, <1>3, DaemonAssumption DEF DaemonIInv, DaemonTyped, LockIsHeld,
     PublishedIsRegistered, Daemon!Over, Daemon!Published, Daemon!At
<1>7. Daemon!StaleOnlyAfterCrash'
  BY <1>1, <1>2, <1>3, DaemonAssumption DEF DaemonIInv, DaemonTyped,
     Daemon!StaleOnlyAfterCrash, Daemon!Published, Daemon!At
<1>8. AskedWasRegistered'
  BY <1>2 DEF DaemonIInv, AskedWasRegistered
<1>9. WorkEnds'
  BY <1>1 DEF DaemonIInv, WorkEnds, Daemon!At
<1> QED
  BY <1>4, <1>5, <1>6, <1>7, <1>8, <1>9 DEF DaemonIInv

(* A client settles on what it knows.                                      *)
LEMMA SettleDaemon ==
  ASSUME DaemonTyped, NEW c \in DaemonClients,
         NEW status \in {"missing", "stale", "starting", "incompatible", "ready"},
         Daemon!settle(c, status)
  PROVE  dmnClient' \in [DaemonClients -> DaemonClient]
<1> DEFINE w == [dmnClient[c] EXCEPT !.at =
                                    IF status \in {"ready", "incompatible"} THEN "done"
                                    ELSE "idle",
                                  !.status = status]
<1>1. w \in DaemonClient
  BY DEF DaemonTyped, DaemonClient
<1>2. dmnClient' = [dmnClient EXCEPT ![c] = w]
  BY DEF Daemon!settle
<1> HIDE DEF w
<1> QED
  BY <1>1, <1>2 DEF DaemonTyped

(* A client reads the registration and asks the process that it names.     *)
LEMMA ReadRegistrationDaemon ==
  ASSUME DaemonIInv, NEW c \in DaemonClients, Daemon!ReadRegistration(c)
  PROVE  DaemonIInv'
<1>1. UNCHANGED <<dmnProcess, dmnLock, dmnRegistration, dmnLeft>>
  BY DEF Daemon!ReadRegistration
<1>2. dmnClient' \in [DaemonClients -> DaemonClient]
  BY DEF DaemonIInv, DaemonTyped, DaemonClient, Daemon!settle, Daemon!ReadRegistration
<1>3. AskedWasRegistered'
  BY DEF DaemonIInv, DaemonTyped, DaemonClient, AskedWasRegistered, Daemon!settle,
     Daemon!ReadRegistration
<1> QED
  BY <1>1, <1>2, <1>3, ClientsKeepDaemon

(* A client has no answer.                                                 *)
LEMMA UnansweredDaemon ==
  ASSUME DaemonIInv, NEW c \in DaemonClients, Daemon!Unanswered(c)
  PROVE  DaemonIInv'
<1>1. UNCHANGED <<dmnProcess, dmnLock, dmnRegistration, dmnLeft>>
  BY DEF Daemon!Unanswered
<1>2. dmnClient' \in [DaemonClients -> DaemonClient]
  BY SettleDaemon DEF DaemonIInv, Daemon!Unanswered
<1>3. AskedWasRegistered'
  BY DEF DaemonIInv, DaemonTyped, DaemonClient, AskedWasRegistered, Daemon!settle,
     Daemon!Unanswered
<1> QED
  BY <1>1, <1>2, <1>3, ClientsKeepDaemon

(* A client that is answered by the process it asked knows its version:    *)
(* Inspect.                                                                *)
LEMMA InspectDaemon ==
  ASSUME DaemonIInv, NEW c \in DaemonClients, Daemon!Inspect(c)
  PROVE  DaemonIInv'
<1>1. UNCHANGED <<dmnProcess, dmnLock, dmnRegistration, dmnLeft>>
  BY DEF Daemon!Inspect
<1>2. dmnClient' \in [DaemonClients -> DaemonClient]
  BY SettleDaemon DEF DaemonIInv, Daemon!Inspect
<1>3. AskedWasRegistered'
  BY DEF DaemonIInv, DaemonTyped, DaemonClient, AskedWasRegistered, Daemon!settle,
     Daemon!Inspect
<1> QED
  BY <1>1, <1>2, <1>3, ClientsKeepDaemon

(* A client that is done asks again.                                       *)
LEMMA AgainDaemon ==
  ASSUME DaemonIInv, NEW c \in DaemonClients, Daemon!Again(c)
  PROVE  DaemonIInv'
<1>1. UNCHANGED <<dmnProcess, dmnLock, dmnRegistration, dmnLeft>>
  BY DEF Daemon!Again
<1>2. dmnClient' \in [DaemonClients -> DaemonClient]
  BY DEF DaemonIInv, DaemonTyped, DaemonClient, Daemon!settle, Daemon!Again
<1>3. AskedWasRegistered'
  BY DEF DaemonIInv, DaemonTyped, DaemonClient, AskedWasRegistered, Daemon!settle, Daemon!Again
<1> QED
  BY <1>1, <1>2, <1>3, ClientsKeepDaemon

(* No process runs.                                                        *)
LEMMA DaemonInit ==
  ASSUME Daemon!Init
  PROVE  DaemonIInv
<1>1. DaemonTyped
  BY DEF Daemon!Init, DaemonTyped, DaemonProcess, DaemonClient, Daemon!Idle
<1>2. /\ \A p \in DaemonProcesses : dmnProcess[p].at = "off"
      /\ \A c \in DaemonClients : dmnClient[c].at = "idle" /\ dmnClient[c].status = "none"
      /\ dmnRegistration = None
  BY DEF Daemon!Init, Daemon!Idle
<1> QED
  BY <1>1, <1>2, DaemonAssumption
  DEF DaemonIInv, LockIsHeld, PublishedIsRegistered, Daemon!StaleOnlyAfterCrash,
    AskedWasRegistered, WorkEnds,
      Daemon!Over, Daemon!Published, Daemon!At

(* Every step of a process and of a client keeps the invariant.            *)
LEMMA DaemonStep ==
  ASSUME DaemonIInv, [Daemon!Next]_dmnVars
  PROVE  DaemonIInv'
<1>1. CASE Daemon!Next
  BY <1>1, AcquireLockDaemon, ListenDaemon, WriteRegistrationDaemon, BuildDaemon, RequestDaemon,
     RequestEndsDaemon, trackInflightDaemon, StreamEndsDaemon, RunStartsDaemon,
     RunEndsDaemon, ShutdownDaemon, DrainedDaemon, StopServerDaemon, WaitServerDaemon,
     CloseDependenciesDaemon, RemoveRegistrationDaemon, ReleaseDaemon, KillDaemon,
     ReadRegistrationDaemon, UnansweredDaemon, InspectDaemon, AgainDaemon DEF Daemon!Next
<1>2. CASE UNCHANGED dmnVars
  <2>1. DaemonTyped' /\ AskedWasRegistered'
    BY <1>2 DEF dmnVars, DaemonIInv, DaemonTyped, AskedWasRegistered
  <2> QED
    BY <1>2, <2>1, ClientsKeepDaemon DEF dmnVars, DaemonTyped
<1> QED
  BY <1>1, <1>2

(* The invariant gives the parts of DaemonIsOwner.                         *)
LEMMA DaemonSafe ==
  ASSUME DaemonIInv
  PROVE  Daemon!DaemonIsOwner
BY DaemonAssumption
DEF DaemonIInv, Daemon!DaemonIsOwner, Daemon!RegistrationIsOwn, PublishedIsRegistered,
    AskedWasRegistered, Daemon!ReadyWasWanted,
    WorkEnds, Daemon!DependenciesOutliveWork, Daemon!At

-----------------------------------------------------------------------------
(* ManagedService.  What a command has done stays in effect while it is    *)
(* alone.                                                                  *)

ServiceBinary == [release : ServiceReleases \cup {0}, whole : BOOLEAN, install : Nat]

ServiceProcess ==
  [status : {"down", "active", "waiting"}, unit : ServiceCommands \cup {None}, install : Nat,
   release : ServiceReleases \cup {0}, config : ServiceCommands \cup {None}]

ServiceCommand ==
  [does : {"nothing", "start", "stop", "restart", "update"},
   at : {"idle", "lock", "credentials", "generated", "truncate", "unit", "reload", "enable",
         "restart", "ready", "disable", "remove", "fetch", "download", "verify", "extract",
         "replace", "active", "renew", "ok", "failed", "killed"},
   version : ServiceReleases \cup {0}, release : ServiceReleases \cup {0},
   archive : {"none", "published", "damaged"}, install : Nat, alone : BOOLEAN,
     unheard : BOOLEAN]

(* The values of the state.                                                *)
ServiceTyped ==
  /\ svcBinary \in ServiceBinary
  /\ svcConfig \in ServiceCommands \cup {None}
  /\ svcUnit \in ServiceCommands \cup {"partial", None}
  /\ svcLoaded \in ServiceCommands \cup {"partial", None}
  /\ svcEnabled \in BOOLEAN
  /\ svcService \in ServiceProcess
  /\ svcCommand \in [ServiceCommands -> ServiceCommand]

(* Where a command can be depends on what it does.                          *)
CommandsDoTheirs == \A c \in ServiceCommands :
  /\ svcCommand[c].at \in {"lock", "credentials", "generated", "truncate", "unit", "enable"} =>
       svcCommand[c].does = "start"
  /\ Service!At(c, "reload") => svcCommand[c].does \in {"start", "stop"}
  /\ svcCommand[c].at \in {"restart", "ready"} => svcCommand[c].does \in {"start", "restart"}
  /\ svcCommand[c].at \in {"disable", "remove"} => svcCommand[c].does = "stop"
  /\ svcCommand[c].at \in {"fetch", "download", "verify", "extract", "replace",
                           "active", "renew"} =>
       svcCommand[c].does = "update"

(* What is extracted has been verified.                                     *)
VerifiedIsPublished == Service!BinaryIsWhole /\ \A c \in ServiceCommands :
  svcCommand[c].at \in {"extract", "replace"} => svcCommand[c].archive = "published"

(* No installation is newer than the binary, and the service that an update *)
(* may leave running is not older than the installation.                    *)
InstallsAreInOrder ==
  /\ svcService.install <= svcBinary.install
  /\ \A c \in ServiceCommands :
       /\ svcCommand[c].install <= svcBinary.install
       /\ svcCommand[c].install # 0
            => svcCommand[c].at \in {"active", "renew", "ok", "failed", "killed"}
  /\ Service!UpdateReachesService

(* The credentials are generated under the lock, and once.                  *)
GeneratedOnce ==
  /\ \A c \in ServiceCommands :
       /\ svcCommand[c].at \in {"credentials", "generated"} => svcConfigLock = c
       /\ Service!At(c, "generated") => svcConfig = None
  /\ svcService.status = "active" => svcConfig # None /\ svcService.config = svcConfig

(* A command is alone with those that have ended.                           *)
AloneIsAlone == \A c, d \in ServiceCommands : svcCommand[c].alone /\ d # c
    => svcCommand[d].at \in Service!Ended

(* What a command that is alone has done so far.                            *)
StartsInEffect == \A c \in ServiceCommands : svcCommand[c].alone
    /\ svcCommand[c].does = "start" =>
  /\ svcCommand[c].at \in {"reload", "enable", "restart", "ready", "ok"} => svcUnit = c
  /\ svcCommand[c].at \in {"enable", "restart", "ready", "ok"} => svcLoaded = c
  /\ svcCommand[c].at \in {"restart", "ready", "ok"} => svcEnabled
  /\ svcCommand[c].at \in {"ready", "ok"} /\ svcService.status = "active" => svcService.unit = c

StopsInEffect == \A c \in ServiceCommands : svcCommand[c].alone /\ svcCommand[c].does = "stop"
    =>
  /\ svcCommand[c].at \in {"reload", "ok"} => svcUnit = None
  /\ Service!At(c, "ok") => svcLoaded = None
  /\ svcCommand[c].at \in {"remove", "reload", "ok"} /\ ~svcCommand[c].unheard =>
       svcService.status = "down" /\ ~svcEnabled

(* The inductive invariant of the installation and of the commands.        *)
ServiceIInv ==
  /\ ServiceTyped /\ CommandsDoTheirs /\ VerifiedIsPublished /\ InstallsAreInOrder
  /\ GeneratedOnce /\ AloneIsAlone /\ StartsInEffect /\ StopsInEffect

(* What one command does is nothing to the others, or to what they have     *)
(* done.                                                                    *)
CommandSteps(c) ==
  /\ svcCommand' \in [ServiceCommands -> ServiceCommand]
  /\ \A d \in ServiceCommands : d # c => svcCommand'[d] = svcCommand[d]
  /\ svcCommand'[c].does = svcCommand[c].does
  /\ svcCommand'[c].alone <=> svcCommand[c].alone

CommandGoesTo(c, place) ==
  /\ CommandSteps(c) /\ svcCommand'[c].at = place
  /\ svcCommand'[c].archive = svcCommand[c].archive
       /\ svcCommand'[c].install = svcCommand[c].install
  /\ svcCommand'[c].unheard <=> svcCommand[c].unheard

(* go moves one command.                                                   *)
LEMMA CommandGoes ==
  ASSUME ServiceTyped, NEW c \in ServiceCommands, NEW place \in
        {"idle", "lock", "credentials", "generated", "truncate", "unit", "reload", "enable",
         "restart", "ready", "disable", "remove", "fetch", "download", "verify", "extract",
         "replace", "active", "renew", "ok", "failed", "killed"},
         Service!go(c, place)
  PROVE  CommandGoesTo(c, place)
<1> DEFINE w == [svcCommand[c] EXCEPT !.at = place]
<1>1. svcCommand[c] \in ServiceCommand
  BY DEF ServiceTyped
<1>2. /\ w \in ServiceCommand
      /\ w.at = place /\ w.does = svcCommand[c].does /\ w.archive = svcCommand[c].archive
      /\ w.install = svcCommand[c].install
  BY <1>1 DEF ServiceCommand
<1>3. (w.alone <=> svcCommand[c].alone) /\ (w.unheard <=> svcCommand[c].unheard)
  BY <1>1 DEF ServiceCommand
<1>4. svcCommand' = [svcCommand EXCEPT ![c] = w]
  BY DEF Service!go
<1> HIDE DEF w
<1> QED
  BY <1>1, <1>2, <1>3, <1>4 DEF ServiceTyped, CommandGoesTo, CommandSteps

(* A service that starts has the unit, the binary and the credentials of   *)
(* the moment.                                                             *)
StartedAsInstalled ==
  /\ Service!Startable /\ svcService' \in ServiceProcess
  /\ svcService'.status = "active" /\ svcService'.unit = svcLoaded
  /\ svcService'.install = svcBinary.install /\ svcService'.config = svcConfig

(* A service that stops is down.                                           *)
GoneDown == svcService' \in ServiceProcess /\ svcService'.status = "down"
    /\ svcService'.install = 0

(* What Started does.                                                      *)
LEMMA ServiceStarts ==
  ASSUME ServiceTyped, Service!Startable, svcService' = Service!Started
  PROVE  StartedAsInstalled
BY DEF ServiceTyped, ServiceBinary, ServiceProcess, Service!Startable, Service!Started,
   StartedAsInstalled

(* What Down does.                                                         *)
LEMMA ServiceStops ==
  ASSUME svcService' = Service!Down
  PROVE  GoneDown
BY DEF ServiceProcess, Service!Down, GoneDown

(* A command that has not ended is alone, or no other is.                  *)
LEMMA OthersWait ==
  ASSUME ServiceIInv, NEW c \in ServiceCommands, CommandSteps(c),
         svcCommand[c].at \notin Service!Ended
  PROVE  AloneIsAlone' /\ \A d \in ServiceCommands : d # c => ~svcCommand'[d].alone
<1>1. \A d \in ServiceCommands : d # c => ~svcCommand[d].alone
  BY DEF ServiceIInv, AloneIsAlone
<1>2. \A d \in ServiceCommands : d # c => ~svcCommand'[d].alone
        /\ svcCommand'[d].at = svcCommand[d].at
  BY <1>1 DEF CommandSteps
<1>3. \A d \in ServiceCommands : svcCommand'[c].alone /\ d # c
        => svcCommand'[d].at \in Service!Ended
  BY <1>2 DEF ServiceIInv, AloneIsAlone, CommandSteps
<1> QED
  BY <1>2, <1>3 DEF AloneIsAlone

(* The lock of the configuration is free: one command generates            *)
(* credentials at a time.                                                  *)
LEMMA LockConfigService ==
  ASSUME ServiceIInv, NEW c \in ServiceCommands, Service!LockConfig(c)
  PROVE  ServiceIInv'
<1>1. /\ svcCommand[c].at = "lock"
      /\ UNCHANGED <<svcBinary, svcConfig, svcUnit, svcLoaded, svcEnabled, svcService>>
  BY DEF Service!LockConfig, Service!At, Service!systemd
<1>2. /\ CommandSteps(c) /\ svcCommand'[c].at = "credentials"
      /\ svcCommand'[c].archive = svcCommand[c].archive
      /\ svcCommand'[c].install = svcCommand[c].install
      /\ svcCommand'[c].unheard <=> svcCommand[c].unheard
  BY CommandGoes DEF ServiceIInv, CommandGoesTo, Service!LockConfig
<1>3. svcCommand[c].does = "start" /\ svcCommand[c].install = 0
  BY <1>1 DEF ServiceIInv, CommandsDoTheirs, Service!At, InstallsAreInOrder
<1>4. /\ svcConfigLock = None /\ svcConfigLock' = c
  BY <1>1 DEF ServiceIInv, ServiceTyped, ServiceBinary, ServiceCommand, VerifiedIsPublished,
     Service!BinaryIsWhole, Service!go, Service!fail, Service!LockConfig
<1>5. ServiceTyped'
  BY <1>1, <1>2, <1>4 DEF ServiceIInv, ServiceTyped, CommandSteps
<1>6. CommandsDoTheirs'
  BY <1>1, <1>2, <1>3 DEF ServiceIInv, CommandsDoTheirs, Service!At, CommandSteps
<1>7. VerifiedIsPublished'
  BY <1>1, <1>2, <1>4 DEF ServiceIInv, VerifiedIsPublished, Service!BinaryIsWhole, CommandSteps
<1>8. InstallsAreInOrder'
  BY <1>1, <1>2, <1>3, <1>4 DEF ServiceIInv, ServiceTyped, ServiceBinary, ServiceProcess,
     ServiceCommand, InstallsAreInOrder, Service!UpdateReachesService, Service!At, CommandSteps
<1>9. GeneratedOnce'
  BY <1>1, <1>2, <1>4, ServiceAssumption DEF ServiceIInv, GeneratedOnce, Service!At,
     CommandSteps
<1>10. AloneIsAlone' /\ \A d \in ServiceCommands : d # c => ~svcCommand'[d].alone
  BY <1>1, <1>2, OthersWait DEF Service!Ended
<1>11. StartsInEffect'
  BY <1>1, <1>2, <1>3, <1>4, <1>10 DEF ServiceIInv, StartsInEffect, Service!At, CommandSteps
<1>12. StopsInEffect'
  BY <1>1, <1>2, <1>3, <1>4, <1>10 DEF ServiceIInv, StopsInEffect, Service!At, CommandSteps
<1> QED
  BY <1>5, <1>6, <1>7, <1>8, <1>9, <1>10, <1>11, <1>12 DEF ServiceIInv

(* Credentials that are there are kept, and none are generated twice:      *)
(* loadOrCreate.                                                           *)
LEMMA ReadConfigService ==
  ASSUME ServiceIInv, NEW c \in ServiceCommands, Service!ReadConfig(c)
  PROVE  ServiceIInv'
<1>1. /\ svcCommand[c].at = "credentials"
      /\ UNCHANGED <<svcBinary, svcConfig, svcUnit, svcLoaded, svcEnabled, svcService>>
  BY DEF Service!ReadConfig, Service!At, Service!systemd
<1>2. /\ CommandSteps(c) /\ svcCommand'[c].at \in {"generated", "truncate"}
      /\ svcCommand'[c].archive = svcCommand[c].archive
      /\ svcCommand'[c].install = svcCommand[c].install
      /\ svcCommand'[c].unheard <=> svcCommand[c].unheard
  <2>1. \E place \in {"generated", "truncate"} : CommandGoesTo(c, place)
    BY CommandGoes DEF ServiceIInv, Service!ReadConfig, Service!fail
  <2> QED
    BY <2>1 DEF CommandGoesTo
<1>3. svcCommand[c].does = "start" /\ svcCommand[c].install = 0
  BY <1>1 DEF ServiceIInv, CommandsDoTheirs, Service!At, InstallsAreInOrder
<1>4. /\ svcCommand'[c].at = "generated" => svcConfig = None /\ svcConfigLock' = svcConfigLock
      /\ svcCommand'[c].at = "truncate" => svcConfigLock' = None
  BY <1>1 DEF ServiceIInv, ServiceTyped, ServiceBinary, ServiceCommand, VerifiedIsPublished,
     Service!BinaryIsWhole, Service!go, Service!fail, Service!ReadConfig
<1>5. ServiceTyped'
  BY <1>1, <1>2, <1>4 DEF ServiceIInv, ServiceTyped, CommandSteps
<1>6. CommandsDoTheirs'
  BY <1>1, <1>2, <1>3 DEF ServiceIInv, CommandsDoTheirs, Service!At, CommandSteps
<1>7. VerifiedIsPublished'
  BY <1>1, <1>2, <1>4 DEF ServiceIInv, VerifiedIsPublished, Service!BinaryIsWhole, CommandSteps
<1>8. InstallsAreInOrder'
  BY <1>1, <1>2, <1>3, <1>4 DEF ServiceIInv, ServiceTyped, ServiceBinary, ServiceProcess,
     ServiceCommand, InstallsAreInOrder, Service!UpdateReachesService, Service!At, CommandSteps
<1>9. GeneratedOnce'
  BY <1>1, <1>2, <1>4, ServiceAssumption DEF ServiceIInv, GeneratedOnce, Service!At,
     CommandSteps
<1>10. AloneIsAlone' /\ \A d \in ServiceCommands : d # c => ~svcCommand'[d].alone
  BY <1>1, <1>2, OthersWait DEF Service!Ended
<1>11. StartsInEffect'
  BY <1>1, <1>2, <1>3, <1>4, <1>10 DEF ServiceIInv, StartsInEffect, Service!At, CommandSteps
<1>12. StopsInEffect'
  BY <1>1, <1>2, <1>3, <1>4, <1>10 DEF ServiceIInv, StopsInEffect, Service!At, CommandSteps
<1> QED
  BY <1>5, <1>6, <1>7, <1>8, <1>9, <1>10, <1>11, <1>12 DEF ServiceIInv

(* The credentials that were missing are written under the lock.           *)
LEMMA WriteConfigService ==
  ASSUME ServiceIInv, NEW c \in ServiceCommands, Service!WriteConfig(c)
  PROVE  ServiceIInv'
<1>1. /\ svcCommand[c].at = "generated"
      /\ UNCHANGED <<svcBinary, svcUnit, svcLoaded, svcEnabled, svcService>>
  BY DEF Service!WriteConfig, Service!At, Service!systemd
<1>2. /\ CommandSteps(c) /\ svcCommand'[c].at \in {"truncate", "failed"}
      /\ svcCommand'[c].archive = svcCommand[c].archive
      /\ svcCommand'[c].install = svcCommand[c].install
      /\ svcCommand'[c].unheard <=> svcCommand[c].unheard
  <2>1. \E place \in {"truncate", "failed"} : CommandGoesTo(c, place)
    BY CommandGoes DEF ServiceIInv, Service!WriteConfig, Service!fail
  <2> QED
    BY <2>1 DEF CommandGoesTo
<1>3. svcCommand[c].does = "start" /\ svcCommand[c].install = 0
  BY <1>1 DEF ServiceIInv, CommandsDoTheirs, Service!At, InstallsAreInOrder
<1>4. /\ svcConfigLock' = None
      /\ svcConfig' \in ServiceCommands \cup {None}
  BY <1>1 DEF ServiceIInv, ServiceTyped, ServiceBinary, ServiceCommand, VerifiedIsPublished,
     Service!BinaryIsWhole, Service!go, Service!fail, Service!WriteConfig
<1>5. ServiceTyped'
  BY <1>1, <1>2, <1>4 DEF ServiceIInv, ServiceTyped, CommandSteps
<1>6. CommandsDoTheirs'
  BY <1>1, <1>2, <1>3 DEF ServiceIInv, CommandsDoTheirs, Service!At, CommandSteps
<1>7. VerifiedIsPublished'
  BY <1>1, <1>2, <1>4 DEF ServiceIInv, VerifiedIsPublished, Service!BinaryIsWhole, CommandSteps
<1>8. InstallsAreInOrder'
  BY <1>1, <1>2, <1>3, <1>4 DEF ServiceIInv, ServiceTyped, ServiceBinary, ServiceProcess,
     ServiceCommand, InstallsAreInOrder, Service!UpdateReachesService, Service!At, CommandSteps
<1>9. GeneratedOnce'
  BY <1>1, <1>2, <1>4, ServiceAssumption DEF ServiceIInv, GeneratedOnce, Service!At,
     CommandSteps
<1>10. AloneIsAlone' /\ \A d \in ServiceCommands : d # c => ~svcCommand'[d].alone
  BY <1>1, <1>2, OthersWait DEF Service!Ended
<1>11. StartsInEffect'
  BY <1>1, <1>2, <1>3, <1>4, <1>10 DEF ServiceIInv, StartsInEffect, Service!At, CommandSteps
<1>12. StopsInEffect'
  BY <1>1, <1>2, <1>3, <1>4, <1>10 DEF ServiceIInv, StopsInEffect, Service!At, CommandSteps
<1> QED
  BY <1>5, <1>6, <1>7, <1>8, <1>9, <1>10, <1>11, <1>12 DEF ServiceIInv

(* The unit is written in place, and is partial in between.                *)
LEMMA TruncateUnitService ==
  ASSUME ServiceIInv, NEW c \in ServiceCommands, Service!TruncateUnit(c)
  PROVE  ServiceIInv'
<1>1. /\ svcCommand[c].at = "truncate"
      /\ UNCHANGED <<svcBinary, svcConfig, svcConfigLock, svcLoaded, svcEnabled, svcService>>
  BY DEF Service!TruncateUnit, Service!At, Service!systemd
<1>2. /\ CommandSteps(c) /\ svcCommand'[c].at = "unit"
      /\ svcCommand'[c].archive = svcCommand[c].archive
      /\ svcCommand'[c].install = svcCommand[c].install
      /\ svcCommand'[c].unheard <=> svcCommand[c].unheard
  BY CommandGoes DEF ServiceIInv, CommandGoesTo, Service!TruncateUnit
<1>3. svcCommand[c].does = "start" /\ svcCommand[c].install = 0
  BY <1>1 DEF ServiceIInv, CommandsDoTheirs, Service!At, InstallsAreInOrder
<1>4. /\ svcUnit' = "partial"
  BY <1>1 DEF ServiceIInv, ServiceTyped, ServiceBinary, ServiceCommand, VerifiedIsPublished,
     Service!BinaryIsWhole, Service!go, Service!fail, Service!TruncateUnit
<1>5. ServiceTyped'
  BY <1>1, <1>2, <1>4 DEF ServiceIInv, ServiceTyped, CommandSteps
<1>6. CommandsDoTheirs'
  BY <1>1, <1>2, <1>3 DEF ServiceIInv, CommandsDoTheirs, Service!At, CommandSteps
<1>7. VerifiedIsPublished'
  BY <1>1, <1>2, <1>4 DEF ServiceIInv, VerifiedIsPublished, Service!BinaryIsWhole, CommandSteps
<1>8. InstallsAreInOrder'
  BY <1>1, <1>2, <1>3, <1>4 DEF ServiceIInv, ServiceTyped, ServiceBinary, ServiceProcess,
     ServiceCommand, InstallsAreInOrder, Service!UpdateReachesService, Service!At, CommandSteps
<1>9. GeneratedOnce'
  BY <1>1, <1>2, <1>4, ServiceAssumption DEF ServiceIInv, GeneratedOnce, Service!At,
     CommandSteps
<1>10. AloneIsAlone' /\ \A d \in ServiceCommands : d # c => ~svcCommand'[d].alone
  BY <1>1, <1>2, OthersWait DEF Service!Ended
<1>11. StartsInEffect'
  BY <1>1, <1>2, <1>3, <1>4, <1>10 DEF ServiceIInv, StartsInEffect, Service!At, CommandSteps
<1>12. StopsInEffect'
  BY <1>1, <1>2, <1>3, <1>4, <1>10 DEF ServiceIInv, StopsInEffect, Service!At, CommandSteps
<1> QED
  BY <1>5, <1>6, <1>7, <1>8, <1>9, <1>10, <1>11, <1>12 DEF ServiceIInv

(* The unit is that of the command.                                        *)
LEMMA WriteUnitService ==
  ASSUME ServiceIInv, NEW c \in ServiceCommands, Service!WriteUnit(c)
  PROVE  ServiceIInv'
<1>1. /\ svcCommand[c].at = "unit"
      /\ UNCHANGED <<svcBinary, svcConfig, svcConfigLock, svcLoaded, svcEnabled, svcService>>
  BY DEF Service!WriteUnit, Service!At, Service!systemd
<1>2. /\ CommandSteps(c) /\ svcCommand'[c].at \in {"reload", "failed"}
      /\ svcCommand'[c].archive = svcCommand[c].archive
      /\ svcCommand'[c].install = svcCommand[c].install
      /\ svcCommand'[c].unheard <=> svcCommand[c].unheard
  <2>1. \E place \in {"reload", "failed"} : CommandGoesTo(c, place)
    BY CommandGoes DEF ServiceIInv, Service!WriteUnit, Service!fail
  <2> QED
    BY <2>1 DEF CommandGoesTo
<1>3. svcCommand[c].does = "start" /\ svcCommand[c].install = 0
  BY <1>1 DEF ServiceIInv, CommandsDoTheirs, Service!At, InstallsAreInOrder
<1>4. /\ svcUnit' \in ServiceCommands \cup {"partial", None}
      /\ svcCommand'[c].at = "reload" => svcUnit' = c
  BY <1>1 DEF ServiceIInv, ServiceTyped, ServiceBinary, ServiceCommand, VerifiedIsPublished,
     Service!BinaryIsWhole, Service!go, Service!fail, Service!WriteUnit
<1>5. ServiceTyped'
  BY <1>1, <1>2, <1>4 DEF ServiceIInv, ServiceTyped, CommandSteps
<1>6. CommandsDoTheirs'
  BY <1>1, <1>2, <1>3 DEF ServiceIInv, CommandsDoTheirs, Service!At, CommandSteps
<1>7. VerifiedIsPublished'
  BY <1>1, <1>2, <1>4 DEF ServiceIInv, VerifiedIsPublished, Service!BinaryIsWhole, CommandSteps
<1>8. InstallsAreInOrder'
  BY <1>1, <1>2, <1>3, <1>4 DEF ServiceIInv, ServiceTyped, ServiceBinary, ServiceProcess,
     ServiceCommand, InstallsAreInOrder, Service!UpdateReachesService, Service!At, CommandSteps
<1>9. GeneratedOnce'
  BY <1>1, <1>2, <1>4, ServiceAssumption DEF ServiceIInv, GeneratedOnce, Service!At,
     CommandSteps
<1>10. AloneIsAlone' /\ \A d \in ServiceCommands : d # c => ~svcCommand'[d].alone
  BY <1>1, <1>2, OthersWait DEF Service!Ended
<1>11. StartsInEffect'
  BY <1>1, <1>2, <1>3, <1>4, <1>10 DEF ServiceIInv, StartsInEffect, Service!At, CommandSteps
<1>12. StopsInEffect'
  BY <1>1, <1>2, <1>3, <1>4, <1>10 DEF ServiceIInv, StopsInEffect, Service!At, CommandSteps
<1> QED
  BY <1>5, <1>6, <1>7, <1>8, <1>9, <1>10, <1>11, <1>12 DEF ServiceIInv

(* systemd loads the unit that is on disk: daemon-reload.                  *)
LEMMA ReloadService ==
  ASSUME ServiceIInv, NEW c \in ServiceCommands, Service!Reload(c)
  PROVE  ServiceIInv'
<1>1. /\ svcCommand[c].at = "reload"
      /\ UNCHANGED <<svcBinary, svcConfig, svcConfigLock, svcUnit, svcEnabled, svcService>>
  BY DEF Service!Reload, Service!At, Service!systemd
<1>2. /\ CommandSteps(c) /\ svcCommand'[c].at \in {"enable", "ok", "failed"}
      /\ svcCommand'[c].archive = svcCommand[c].archive
      /\ svcCommand'[c].install = svcCommand[c].install
      /\ svcCommand'[c].unheard <=> svcCommand[c].unheard
  <2>1. \E place \in {"enable", "ok", "failed"} : CommandGoesTo(c, place)
    BY CommandGoes DEF ServiceIInv, Service!Reload, Service!fail
  <2> QED
    BY <2>1 DEF CommandGoesTo
<1>3. svcCommand[c].does \in {"start", "stop"} /\ svcCommand[c].install = 0
  BY <1>1 DEF ServiceIInv, CommandsDoTheirs, Service!At, InstallsAreInOrder
<1>4. /\ svcLoaded' \in {svcLoaded, svcUnit}
      /\ svcCommand'[c].at \in {"enable", "ok"} => svcLoaded' = svcUnit
      /\ svcCommand'[c].at = "enable" => svcCommand[c].does = "start"
      /\ svcCommand'[c].at = "ok" => svcCommand[c].does # "start"
  BY <1>1 DEF ServiceIInv, ServiceTyped, ServiceBinary, ServiceCommand, VerifiedIsPublished,
     Service!BinaryIsWhole, Service!go, Service!fail, Service!Reload
<1>5. ServiceTyped'
  BY <1>1, <1>2, <1>4 DEF ServiceIInv, ServiceTyped, CommandSteps
<1>6. CommandsDoTheirs'
  BY <1>1, <1>2, <1>3, <1>4 DEF ServiceIInv, CommandsDoTheirs, Service!At, CommandSteps
<1>7. VerifiedIsPublished'
  BY <1>1, <1>2, <1>4 DEF ServiceIInv, VerifiedIsPublished, Service!BinaryIsWhole, CommandSteps
<1>8. InstallsAreInOrder'
  BY <1>1, <1>2, <1>3, <1>4 DEF ServiceIInv, ServiceTyped, ServiceBinary, ServiceProcess,
     ServiceCommand, InstallsAreInOrder, Service!UpdateReachesService, Service!At, CommandSteps
<1>9. GeneratedOnce'
  BY <1>1, <1>2, <1>4, ServiceAssumption DEF ServiceIInv, GeneratedOnce, Service!At,
     CommandSteps
<1>10. AloneIsAlone' /\ \A d \in ServiceCommands : d # c => ~svcCommand'[d].alone
  BY <1>1, <1>2, OthersWait DEF Service!Ended
<1>11. StartsInEffect'
  BY <1>1, <1>2, <1>3, <1>4, <1>10 DEF ServiceIInv, StartsInEffect, Service!At, CommandSteps
<1>12. StopsInEffect'
  BY <1>1, <1>2, <1>3, <1>4, <1>10 DEF ServiceIInv, StopsInEffect, Service!At, CommandSteps
<1> QED
  BY <1>5, <1>6, <1>7, <1>8, <1>9, <1>10, <1>11, <1>12 DEF ServiceIInv

(* The service is enabled, and the unit that is loaded is its own.         *)
LEMMA EnableService ==
  ASSUME ServiceIInv, NEW c \in ServiceCommands, Service!Enable(c)
  PROVE  ServiceIInv'
<1>1. /\ svcCommand[c].at = "enable"
      /\ UNCHANGED <<svcBinary, svcConfig, svcConfigLock, svcUnit, svcService>>
  BY DEF Service!Enable, Service!At, Service!systemd
<1>2. /\ CommandSteps(c) /\ svcCommand'[c].at \in {"restart", "failed"}
      /\ svcCommand'[c].archive = svcCommand[c].archive
      /\ svcCommand'[c].install = svcCommand[c].install
      /\ svcCommand'[c].unheard <=> svcCommand[c].unheard
  <2>1. \E place \in {"restart", "failed"} : CommandGoesTo(c, place)
    BY CommandGoes DEF ServiceIInv, Service!Enable, Service!fail
  <2> QED
    BY <2>1 DEF CommandGoesTo
<1>3. svcCommand[c].does = "start" /\ svcCommand[c].install = 0
  BY <1>1 DEF ServiceIInv, CommandsDoTheirs, Service!At, InstallsAreInOrder
<1>4. /\ svcLoaded' \in {svcLoaded, svcUnit}
      /\ svcCommand'[c].at = "restart" => svcLoaded' = svcUnit /\ svcEnabled'
      /\ svcEnabled' \in BOOLEAN
  <2>1. CASE svcEnabled' = TRUE /\ svcLoaded' = svcUnit
    BY <2>1
  <2>2. CASE UNCHANGED <<svcEnabled, svcLoaded>> /\ Service!fail(c)
    <3>1. svcCommand'[c].at = "failed" /\ svcEnabled' \in BOOLEAN
      BY <2>2, CommandGoes DEF ServiceIInv, ServiceTyped, Service!fail, CommandGoesTo
    <3> QED
      BY <2>2, <3>1
  <2> QED
    BY <2>1, <2>2 DEF Service!Enable
<1>5. ServiceTyped'
  BY <1>1, <1>2, <1>4 DEF ServiceIInv, ServiceTyped, CommandSteps
<1>6. CommandsDoTheirs'
  BY <1>1, <1>2, <1>3 DEF ServiceIInv, CommandsDoTheirs, Service!At, CommandSteps
<1>7. VerifiedIsPublished'
  BY <1>1, <1>2, <1>4 DEF ServiceIInv, VerifiedIsPublished, Service!BinaryIsWhole, CommandSteps
<1>8. InstallsAreInOrder'
  BY <1>1, <1>2, <1>3, <1>4 DEF ServiceIInv, ServiceTyped, ServiceBinary, ServiceProcess,
     ServiceCommand, InstallsAreInOrder, Service!UpdateReachesService, Service!At, CommandSteps
<1>9. GeneratedOnce'
  BY <1>1, <1>2, <1>4, ServiceAssumption DEF ServiceIInv, GeneratedOnce, Service!At,
     CommandSteps
<1>10. AloneIsAlone' /\ \A d \in ServiceCommands : d # c => ~svcCommand'[d].alone
  BY <1>1, <1>2, OthersWait DEF Service!Ended
<1>11. StartsInEffect'
  BY <1>1, <1>2, <1>3, <1>4, <1>10 DEF ServiceIInv, StartsInEffect, Service!At, CommandSteps
<1>12. StopsInEffect'
  BY <1>1, <1>2, <1>3, <1>4, <1>10 DEF ServiceIInv, StopsInEffect, Service!At, CommandSteps
<1> QED
  BY <1>5, <1>6, <1>7, <1>8, <1>9, <1>10, <1>11, <1>12 DEF ServiceIInv

(* A restart runs the unit that is loaded and the binary that is there.    *)
LEMMA RestartServiceService ==
  ASSUME ServiceIInv, NEW c \in ServiceCommands, Service!RestartService(c)
  PROVE  ServiceIInv'
<1>1. /\ svcCommand[c].at = "restart"
      /\ UNCHANGED <<svcBinary, svcConfig, svcConfigLock, svcUnit, svcLoaded, svcEnabled>>
  BY DEF Service!RestartService, Service!At, Service!systemd, Service!Restart
<1>2. /\ CommandSteps(c) /\ svcCommand'[c].at \in {"ready", "failed"}
      /\ svcCommand'[c].archive = svcCommand[c].archive
      /\ svcCommand'[c].install = svcCommand[c].install
      /\ svcCommand'[c].unheard <=> svcCommand[c].unheard
  <2>1. \E place \in {"ready", "failed"} : CommandGoesTo(c, place)
    BY CommandGoes DEF ServiceIInv, Service!RestartService, Service!fail, Service!Restart
  <2> QED
    BY <2>1 DEF CommandGoesTo
<1>3. svcCommand[c].does \in {"start", "restart"} /\ svcCommand[c].install = 0
  BY <1>1 DEF ServiceIInv, CommandsDoTheirs, Service!At, InstallsAreInOrder
<1>4. \/ StartedAsInstalled
      \/ svcCommand'[c].at = "failed" /\ (GoneDown \/ svcService' = svcService)
  BY CommandGoes, ServiceStarts, ServiceStops DEF ServiceIInv, CommandGoesTo, Service!Restart,
     Service!fail, Service!RestartService
<1>5. ServiceTyped'
  BY <1>1, <1>2, <1>4 DEF ServiceIInv, ServiceTyped, CommandSteps, GoneDown, StartedAsInstalled
<1>6. CommandsDoTheirs'
  BY <1>1, <1>2, <1>3 DEF ServiceIInv, CommandsDoTheirs, Service!At, CommandSteps
<1>7. VerifiedIsPublished'
  BY <1>1, <1>2, <1>4 DEF ServiceIInv, VerifiedIsPublished, Service!BinaryIsWhole, CommandSteps
<1>8. InstallsAreInOrder'
  BY <1>1, <1>2, <1>3, <1>4 DEF ServiceIInv, ServiceTyped, ServiceBinary, ServiceProcess,
     ServiceCommand, InstallsAreInOrder, Service!UpdateReachesService, Service!At,
     CommandSteps, GoneDown, StartedAsInstalled
<1>9. GeneratedOnce'
  BY <1>1, <1>2, <1>4, ServiceAssumption DEF ServiceIInv, GeneratedOnce, Service!At,
     CommandSteps, GoneDown, StartedAsInstalled, Service!Startable
<1>10. AloneIsAlone' /\ \A d \in ServiceCommands : d # c => ~svcCommand'[d].alone
  BY <1>1, <1>2, OthersWait DEF Service!Ended
<1>11. StartsInEffect'
  BY <1>1, <1>2, <1>3, <1>4, <1>10 DEF ServiceIInv, StartsInEffect, Service!At, CommandSteps,
     GoneDown, StartedAsInstalled
<1>12. StopsInEffect'
  BY <1>1, <1>2, <1>3, <1>4, <1>10 DEF ServiceIInv, StopsInEffect, Service!At, CommandSteps,
     GoneDown, StartedAsInstalled
<1> QED
  BY <1>5, <1>6, <1>7, <1>8, <1>9, <1>10, <1>11, <1>12 DEF ServiceIInv

(* A start is over when its service answers, or fails.                     *)
LEMMA WaitReadyService ==
  ASSUME ServiceIInv, NEW c \in ServiceCommands, Service!WaitReady(c)
  PROVE  ServiceIInv'
<1>1. /\ svcCommand[c].at = "ready"
      /\ UNCHANGED <<svcBinary, svcConfig, svcConfigLock, svcUnit, svcLoaded, svcEnabled,
           svcService>>
  BY DEF Service!WaitReady, Service!At, Service!systemd
<1>2. /\ CommandSteps(c) /\ svcCommand'[c].at \in {"ok", "failed"}
      /\ svcCommand'[c].archive = svcCommand[c].archive
      /\ svcCommand'[c].install = svcCommand[c].install
      /\ svcCommand'[c].unheard <=> svcCommand[c].unheard
  <2>1. \E place \in {"ok", "failed"} : CommandGoesTo(c, place)
    BY CommandGoes DEF ServiceIInv, Service!WaitReady, Service!fail
  <2> QED
    BY <2>1 DEF CommandGoesTo
<1>3. svcCommand[c].does \in {"start", "restart"} /\ svcCommand[c].install = 0
  BY <1>1 DEF ServiceIInv, CommandsDoTheirs, Service!At, InstallsAreInOrder
<1>5. ServiceTyped'
  BY <1>1, <1>2 DEF ServiceIInv, ServiceTyped, CommandSteps
<1>6. CommandsDoTheirs'
  BY <1>1, <1>2, <1>3 DEF ServiceIInv, CommandsDoTheirs, Service!At, CommandSteps
<1>7. VerifiedIsPublished'
  BY <1>1, <1>2 DEF ServiceIInv, VerifiedIsPublished, Service!BinaryIsWhole, CommandSteps
<1>8. InstallsAreInOrder'
  BY <1>1, <1>2, <1>3 DEF ServiceIInv, ServiceTyped, ServiceBinary, ServiceProcess,
     ServiceCommand, InstallsAreInOrder, Service!UpdateReachesService, Service!At, CommandSteps
<1>9. GeneratedOnce'
  BY <1>1, <1>2, ServiceAssumption DEF ServiceIInv, GeneratedOnce, Service!At, CommandSteps
<1>10. AloneIsAlone' /\ \A d \in ServiceCommands : d # c => ~svcCommand'[d].alone
  BY <1>1, <1>2, OthersWait DEF Service!Ended
<1>11. StartsInEffect'
  BY <1>1, <1>2, <1>3, <1>10 DEF ServiceIInv, StartsInEffect, Service!At, CommandSteps
<1>12. StopsInEffect'
  BY <1>1, <1>2, <1>3, <1>10 DEF ServiceIInv, StopsInEffect, Service!At, CommandSteps
<1> QED
  BY <1>5, <1>6, <1>7, <1>8, <1>9, <1>10, <1>11, <1>12 DEF ServiceIInv

(* disable --now stops the service.                                        *)
LEMMA DisableService ==
  ASSUME ServiceIInv, NEW c \in ServiceCommands, Service!Disable(c)
  PROVE  ServiceIInv'
<1>1. /\ svcCommand[c].at = "disable"
      /\ UNCHANGED <<svcBinary, svcConfig, svcConfigLock, svcUnit>>
  BY DEF Service!Disable, Service!At, Service!systemd
<1>2. /\ CommandSteps(c) /\ svcCommand'[c].at = "remove"
      /\ svcCommand'[c].archive = svcCommand[c].archive
      /\ svcCommand'[c].install = svcCommand[c].install
  BY DEF ServiceIInv, ServiceTyped, ServiceCommand, ServiceBinary, CommandSteps, Service!go,
     Service!fail, Service!Disable
<1>3. svcCommand[c].does = "stop" /\ svcCommand[c].install = 0
  BY <1>1 DEF ServiceIInv, CommandsDoTheirs, Service!At, InstallsAreInOrder
<1>4. /\ svcLoaded' \in {svcLoaded, svcUnit}
      /\ svcEnabled' \in BOOLEAN
      /\ GoneDown \/ svcService' = svcService
      /\ ~svcCommand'[c].unheard => GoneDown /\ ~svcEnabled'
  <2>1. CASE svcEnabled' = FALSE /\ svcLoaded' = svcUnit /\ svcService' = Service!Down
    BY <2>1, ServiceStops DEF ServiceIInv, ServiceTyped
  <2>2. CASE svcCommand'[c].unheard /\ UNCHANGED <<svcEnabled, svcLoaded, svcService>>
    BY <2>2 DEF ServiceIInv, ServiceTyped
  <2>3. ASSUME svcCommand' = [svcCommand EXCEPT ![c].at = "remove", ![c].unheard = TRUE]
        PROVE  svcCommand'[c].unheard
    <3> DEFINE w == [svcCommand[c] EXCEPT !.at = "remove", !.unheard = TRUE]
    <3>1. svcCommand[c] \in ServiceCommand
      BY DEF ServiceIInv, ServiceTyped
    <3>2. w.unheard
      BY <3>1 DEF ServiceCommand
    <3>3. svcCommand' = [svcCommand EXCEPT ![c] = w]
      BY <2>3
    <3> HIDE DEF w
    <3> QED
      BY <3>2, <3>3 DEF ServiceIInv, ServiceTyped
  <2> QED
    BY <2>1, <2>2, <2>3 DEF Service!Disable
<1>5. ServiceTyped'
  BY <1>1, <1>2, <1>4 DEF ServiceIInv, ServiceTyped, CommandSteps, GoneDown, StartedAsInstalled
<1>6. CommandsDoTheirs'
  BY <1>1, <1>2, <1>3 DEF ServiceIInv, CommandsDoTheirs, Service!At, CommandSteps
<1>7. VerifiedIsPublished'
  BY <1>1, <1>2, <1>4 DEF ServiceIInv, VerifiedIsPublished, Service!BinaryIsWhole, CommandSteps
<1>8. InstallsAreInOrder'
  BY <1>1, <1>2, <1>3, <1>4 DEF ServiceIInv, ServiceTyped, ServiceBinary, ServiceProcess,
     ServiceCommand, InstallsAreInOrder, Service!UpdateReachesService, Service!At,
     CommandSteps, GoneDown, StartedAsInstalled
<1>9. GeneratedOnce'
  BY <1>1, <1>2, <1>4, ServiceAssumption DEF ServiceIInv, GeneratedOnce, Service!At,
     CommandSteps, GoneDown, StartedAsInstalled, Service!Startable
<1>10. AloneIsAlone' /\ \A d \in ServiceCommands : d # c => ~svcCommand'[d].alone
  BY <1>1, <1>2, OthersWait DEF Service!Ended
<1>11. StartsInEffect'
  BY <1>1, <1>2, <1>3, <1>4, <1>10 DEF ServiceIInv, StartsInEffect, Service!At, CommandSteps,
     GoneDown, StartedAsInstalled
<1>12. StopsInEffect'
  BY <1>1, <1>2, <1>3, <1>4, <1>10 DEF ServiceIInv, StopsInEffect, Service!At, CommandSteps,
     GoneDown, StartedAsInstalled
<1> QED
  BY <1>5, <1>6, <1>7, <1>8, <1>9, <1>10, <1>11, <1>12 DEF ServiceIInv

(* The unit is removed after the service has stopped.                      *)
LEMMA RemoveUnitService ==
  ASSUME ServiceIInv, NEW c \in ServiceCommands, Service!RemoveUnit(c)
  PROVE  ServiceIInv'
<1>1. /\ svcCommand[c].at = "remove"
      /\ UNCHANGED <<svcBinary, svcConfig, svcConfigLock, svcLoaded, svcEnabled, svcService>>
  BY DEF Service!RemoveUnit, Service!At, Service!systemd
<1>2. /\ CommandSteps(c) /\ svcCommand'[c].at = "reload"
      /\ svcCommand'[c].archive = svcCommand[c].archive
      /\ svcCommand'[c].install = svcCommand[c].install
      /\ svcCommand'[c].unheard <=> svcCommand[c].unheard
  BY CommandGoes DEF ServiceIInv, CommandGoesTo, Service!RemoveUnit
<1>3. svcCommand[c].does = "stop" /\ svcCommand[c].install = 0
  BY <1>1 DEF ServiceIInv, CommandsDoTheirs, Service!At, InstallsAreInOrder
<1>4. /\ svcUnit' = None
  BY <1>1 DEF ServiceIInv, ServiceTyped, ServiceBinary, ServiceCommand, VerifiedIsPublished,
     Service!BinaryIsWhole, Service!go, Service!fail, Service!RemoveUnit
<1>5. ServiceTyped'
  BY <1>1, <1>2, <1>4 DEF ServiceIInv, ServiceTyped, CommandSteps
<1>6. CommandsDoTheirs'
  BY <1>1, <1>2, <1>3 DEF ServiceIInv, CommandsDoTheirs, Service!At, CommandSteps
<1>7. VerifiedIsPublished'
  BY <1>1, <1>2, <1>4 DEF ServiceIInv, VerifiedIsPublished, Service!BinaryIsWhole, CommandSteps
<1>8. InstallsAreInOrder'
  BY <1>1, <1>2, <1>3, <1>4 DEF ServiceIInv, ServiceTyped, ServiceBinary, ServiceProcess,
     ServiceCommand, InstallsAreInOrder, Service!UpdateReachesService, Service!At, CommandSteps
<1>9. GeneratedOnce'
  BY <1>1, <1>2, <1>4, ServiceAssumption DEF ServiceIInv, GeneratedOnce, Service!At,
     CommandSteps
<1>10. AloneIsAlone' /\ \A d \in ServiceCommands : d # c => ~svcCommand'[d].alone
  BY <1>1, <1>2, OthersWait DEF Service!Ended
<1>11. StartsInEffect'
  BY <1>1, <1>2, <1>3, <1>4, <1>10 DEF ServiceIInv, StartsInEffect, Service!At, CommandSteps
<1>12. StopsInEffect'
  BY <1>1, <1>2, <1>3, <1>4, <1>10 DEF ServiceIInv, StopsInEffect, Service!At, CommandSteps
<1> QED
  BY <1>5, <1>6, <1>7, <1>8, <1>9, <1>10, <1>11, <1>12 DEF ServiceIInv

(* An update learns what is published, or has nothing to do.               *)
LEMMA FetchReleaseService ==
  ASSUME ServiceIInv, NEW c \in ServiceCommands, Service!FetchRelease(c)
  PROVE  ServiceIInv'
<1>1. /\ svcCommand[c].at = "fetch"
      /\ UNCHANGED <<svcBinary, svcConfig, svcConfigLock, svcUnit, svcLoaded, svcEnabled,
           svcService>>
  BY DEF Service!FetchRelease, Service!At, Service!systemd
<1>2. /\ CommandSteps(c) /\ svcCommand'[c].at \in {"download", "ok", "failed"}
      /\ svcCommand'[c].archive = svcCommand[c].archive
      /\ svcCommand'[c].install = svcCommand[c].install
      /\ svcCommand'[c].unheard <=> svcCommand[c].unheard
  <2>1. CASE \E r \in ServiceReleases, requested \in BOOLEAN :
          svcCommand' = [svcCommand EXCEPT ![c].release = r, ![c].at =
            IF Service!shouldInstallUpdate(requested, c, r) THEN "download" ELSE "ok"]
    <3>1. PICK r \in ServiceReleases, requested \in BOOLEAN :
            svcCommand' = [svcCommand EXCEPT ![c].release = r, ![c].at =
              IF Service!shouldInstallUpdate(requested, c, r) THEN "download" ELSE "ok"]
      BY <2>1
    <3> DEFINE w == [svcCommand[c] EXCEPT !.release = r, !.at =
                       IF Service!shouldInstallUpdate(requested, c,
                         r) THEN "download" ELSE "ok"]
    <3>2. svcCommand' = [svcCommand EXCEPT ![c] = w]
      BY <3>1
    <3>3. svcCommand[c] \in ServiceCommand
      BY DEF ServiceIInv, ServiceTyped
    <3>4. /\ w \in ServiceCommand /\ w.at \in {"download", "ok"} /\ w.does = svcCommand[c].does
          /\ w.archive = svcCommand[c].archive /\ w.install = svcCommand[c].install
          /\ w.alone <=> svcCommand[c].alone
          /\ w.unheard <=> svcCommand[c].unheard
      BY <3>3 DEF ServiceCommand
    <3> HIDE DEF w
    <3> QED
      BY <3>2, <3>4 DEF ServiceIInv, ServiceTyped, CommandSteps
  <2>2. CASE Service!fail(c)
    BY <2>2, CommandGoes DEF ServiceIInv, Service!fail, CommandGoesTo
  <2> QED
    BY <2>1, <2>2 DEF Service!FetchRelease
<1>3. svcCommand[c].does = "update" /\ svcCommand[c].install = 0
  BY <1>1 DEF ServiceIInv, CommandsDoTheirs, Service!At, InstallsAreInOrder
<1>5. ServiceTyped'
  BY <1>1, <1>2 DEF ServiceIInv, ServiceTyped, CommandSteps
<1>6. CommandsDoTheirs'
  BY <1>1, <1>2, <1>3 DEF ServiceIInv, CommandsDoTheirs, Service!At, CommandSteps
<1>7. VerifiedIsPublished'
  BY <1>1, <1>2 DEF ServiceIInv, VerifiedIsPublished, Service!BinaryIsWhole, CommandSteps
<1>8. InstallsAreInOrder'
  BY <1>1, <1>2, <1>3 DEF ServiceIInv, ServiceTyped, ServiceBinary, ServiceProcess,
     ServiceCommand, InstallsAreInOrder, Service!UpdateReachesService, Service!At, CommandSteps
<1>9. GeneratedOnce'
  BY <1>1, <1>2, ServiceAssumption DEF ServiceIInv, GeneratedOnce, Service!At, CommandSteps
<1>10. AloneIsAlone' /\ \A d \in ServiceCommands : d # c => ~svcCommand'[d].alone
  BY <1>1, <1>2, OthersWait DEF Service!Ended
<1>11. StartsInEffect'
  BY <1>1, <1>2, <1>3, <1>10 DEF ServiceIInv, StartsInEffect, Service!At, CommandSteps
<1>12. StopsInEffect'
  BY <1>1, <1>2, <1>3, <1>10 DEF ServiceIInv, StopsInEffect, Service!At, CommandSteps
<1> QED
  BY <1>5, <1>6, <1>7, <1>8, <1>9, <1>10, <1>11, <1>12 DEF ServiceIInv

(* What is downloaded may be damaged.                                      *)
LEMMA DownloadFileService ==
  ASSUME ServiceIInv, NEW c \in ServiceCommands, Service!DownloadFile(c)
  PROVE  ServiceIInv'
<1>1. /\ svcCommand[c].at = "download"
      /\ UNCHANGED <<svcBinary, svcConfig, svcConfigLock, svcUnit, svcLoaded, svcEnabled,
           svcService>>
  BY DEF Service!DownloadFile, Service!At, Service!systemd
<1>2. /\ CommandSteps(c) /\ svcCommand'[c].at \in {"verify", "failed"}
      /\ svcCommand'[c].install = svcCommand[c].install
      /\ svcCommand'[c].unheard <=> svcCommand[c].unheard
  <2>1. CASE \E archive \in {"published", "damaged"} :
          svcCommand' = [svcCommand EXCEPT ![c].archive = archive, ![c].at = "verify"]
    <3>1. PICK archive \in {"published", "damaged"} :
            svcCommand' = [svcCommand EXCEPT ![c].archive = archive, ![c].at = "verify"]
      BY <2>1
    <3> DEFINE w == [svcCommand[c] EXCEPT !.archive = archive, !.at = "verify"]
    <3>2. svcCommand' = [svcCommand EXCEPT ![c] = w]
      BY <3>1
    <3>3. svcCommand[c] \in ServiceCommand
      BY DEF ServiceIInv, ServiceTyped
    <3>4. /\ w \in ServiceCommand /\ w.at = "verify" /\ w.does = svcCommand[c].does
          /\ w.install = svcCommand[c].install
          /\ w.alone <=> svcCommand[c].alone
          /\ w.unheard <=> svcCommand[c].unheard
      BY <3>3 DEF ServiceCommand
    <3> HIDE DEF w
    <3> QED
      BY <3>2, <3>4 DEF ServiceIInv, ServiceTyped, CommandSteps
  <2>2. CASE Service!fail(c)
    BY <2>2, CommandGoes DEF ServiceIInv, Service!fail, CommandGoesTo
  <2> QED
    BY <2>1, <2>2 DEF Service!DownloadFile
<1>3. svcCommand[c].does = "update" /\ svcCommand[c].install = 0
  BY <1>1 DEF ServiceIInv, CommandsDoTheirs, Service!At, InstallsAreInOrder
<1>5. ServiceTyped'
  BY <1>1, <1>2 DEF ServiceIInv, ServiceTyped, CommandSteps
<1>6. CommandsDoTheirs'
  BY <1>1, <1>2, <1>3 DEF ServiceIInv, CommandsDoTheirs, Service!At, CommandSteps
<1>7. VerifiedIsPublished'
  BY <1>1, <1>2 DEF ServiceIInv, VerifiedIsPublished, Service!BinaryIsWhole, CommandSteps
<1>8. InstallsAreInOrder'
  BY <1>1, <1>2, <1>3 DEF ServiceIInv, ServiceTyped, ServiceBinary, ServiceProcess,
     ServiceCommand, InstallsAreInOrder, Service!UpdateReachesService, Service!At, CommandSteps
<1>9. GeneratedOnce'
  BY <1>1, <1>2, ServiceAssumption DEF ServiceIInv, GeneratedOnce, Service!At, CommandSteps
<1>10. AloneIsAlone' /\ \A d \in ServiceCommands : d # c => ~svcCommand'[d].alone
  BY <1>1, <1>2, OthersWait DEF Service!Ended
<1>11. StartsInEffect'
  BY <1>1, <1>2, <1>3, <1>10 DEF ServiceIInv, StartsInEffect, Service!At, CommandSteps
<1>12. StopsInEffect'
  BY <1>1, <1>2, <1>3, <1>10 DEF ServiceIInv, StopsInEffect, Service!At, CommandSteps
<1> QED
  BY <1>5, <1>6, <1>7, <1>8, <1>9, <1>10, <1>11, <1>12 DEF ServiceIInv

(* What goes on to be extracted is what was published.                     *)
LEMMA VerifyChecksumService ==
  ASSUME ServiceIInv, NEW c \in ServiceCommands, Service!VerifyChecksum(c)
  PROVE  ServiceIInv'
<1>1. /\ svcCommand[c].at = "verify"
      /\ UNCHANGED <<svcBinary, svcConfig, svcConfigLock, svcUnit, svcLoaded, svcEnabled,
           svcService>>
  BY DEF Service!VerifyChecksum, Service!At, Service!systemd
<1>2. /\ CommandSteps(c) /\ svcCommand'[c].at \in {"extract", "failed"}
      /\ svcCommand'[c].archive = svcCommand[c].archive
      /\ svcCommand'[c].install = svcCommand[c].install
      /\ svcCommand'[c].unheard <=> svcCommand[c].unheard
  <2>1. \E place \in {"extract", "failed"} : CommandGoesTo(c, place)
    BY CommandGoes DEF ServiceIInv, Service!VerifyChecksum, Service!fail
  <2> QED
    BY <2>1 DEF CommandGoesTo
<1>3. svcCommand[c].does = "update" /\ svcCommand[c].install = 0
  BY <1>1 DEF ServiceIInv, CommandsDoTheirs, Service!At, InstallsAreInOrder
<1>4. /\ svcCommand'[c].at = "extract" => svcCommand[c].archive = "published"
  BY <1>1 DEF ServiceIInv, ServiceTyped, ServiceBinary, ServiceCommand, VerifiedIsPublished,
     Service!BinaryIsWhole, Service!go, Service!fail, Service!VerifyChecksum
<1>5. ServiceTyped'
  BY <1>1, <1>2, <1>4 DEF ServiceIInv, ServiceTyped, CommandSteps
<1>6. CommandsDoTheirs'
  BY <1>1, <1>2, <1>3 DEF ServiceIInv, CommandsDoTheirs, Service!At, CommandSteps
<1>7. VerifiedIsPublished'
  BY <1>1, <1>2, <1>4 DEF ServiceIInv, VerifiedIsPublished, Service!BinaryIsWhole, CommandSteps
<1>8. InstallsAreInOrder'
  BY <1>1, <1>2, <1>3, <1>4 DEF ServiceIInv, ServiceTyped, ServiceBinary, ServiceProcess,
     ServiceCommand, InstallsAreInOrder, Service!UpdateReachesService, Service!At, CommandSteps
<1>9. GeneratedOnce'
  BY <1>1, <1>2, <1>4, ServiceAssumption DEF ServiceIInv, GeneratedOnce, Service!At,
     CommandSteps
<1>10. AloneIsAlone' /\ \A d \in ServiceCommands : d # c => ~svcCommand'[d].alone
  BY <1>1, <1>2, OthersWait DEF Service!Ended
<1>11. StartsInEffect'
  BY <1>1, <1>2, <1>3, <1>4, <1>10 DEF ServiceIInv, StartsInEffect, Service!At, CommandSteps
<1>12. StopsInEffect'
  BY <1>1, <1>2, <1>3, <1>4, <1>10 DEF ServiceIInv, StopsInEffect, Service!At, CommandSteps
<1> QED
  BY <1>5, <1>6, <1>7, <1>8, <1>9, <1>10, <1>11, <1>12 DEF ServiceIInv

(* A binary is extracted beside the one that is there.                     *)
LEMMA ExtractBinaryService ==
  ASSUME ServiceIInv, NEW c \in ServiceCommands, Service!ExtractBinary(c)
  PROVE  ServiceIInv'
<1>1. /\ svcCommand[c].at = "extract"
      /\ UNCHANGED <<svcBinary, svcConfig, svcConfigLock, svcUnit, svcLoaded, svcEnabled,
           svcService>>
  BY DEF Service!ExtractBinary, Service!At, Service!systemd
<1>2. /\ CommandSteps(c) /\ svcCommand'[c].at \in {"replace", "failed"}
      /\ svcCommand'[c].archive = svcCommand[c].archive
      /\ svcCommand'[c].install = svcCommand[c].install
      /\ svcCommand'[c].unheard <=> svcCommand[c].unheard
  <2>1. \E place \in {"replace", "failed"} : CommandGoesTo(c, place)
    BY CommandGoes DEF ServiceIInv, Service!ExtractBinary, Service!fail
  <2> QED
    BY <2>1 DEF CommandGoesTo
<1>3. svcCommand[c].does = "update" /\ svcCommand[c].install = 0
  BY <1>1 DEF ServiceIInv, CommandsDoTheirs, Service!At, InstallsAreInOrder
<1>5. ServiceTyped'
  BY <1>1, <1>2 DEF ServiceIInv, ServiceTyped, CommandSteps
<1>6. CommandsDoTheirs'
  BY <1>1, <1>2, <1>3 DEF ServiceIInv, CommandsDoTheirs, Service!At, CommandSteps
<1>7. VerifiedIsPublished'
  BY <1>1, <1>2 DEF ServiceIInv, VerifiedIsPublished, Service!BinaryIsWhole, CommandSteps
<1>8. InstallsAreInOrder'
  BY <1>1, <1>2, <1>3 DEF ServiceIInv, ServiceTyped, ServiceBinary, ServiceProcess,
     ServiceCommand, InstallsAreInOrder, Service!UpdateReachesService, Service!At, CommandSteps
<1>9. GeneratedOnce'
  BY <1>1, <1>2, ServiceAssumption DEF ServiceIInv, GeneratedOnce, Service!At, CommandSteps
<1>10. AloneIsAlone' /\ \A d \in ServiceCommands : d # c => ~svcCommand'[d].alone
  BY <1>1, <1>2, OthersWait DEF Service!Ended
<1>11. StartsInEffect'
  BY <1>1, <1>2, <1>3, <1>10 DEF ServiceIInv, StartsInEffect, Service!At, CommandSteps
<1>12. StopsInEffect'
  BY <1>1, <1>2, <1>3, <1>10 DEF ServiceIInv, StopsInEffect, Service!At, CommandSteps
<1> QED
  BY <1>5, <1>6, <1>7, <1>8, <1>9, <1>10, <1>11, <1>12 DEF ServiceIInv

(* The binary is replaced by a whole one: an installation more.            *)
LEMMA ReplaceService ==
  ASSUME ServiceIInv, NEW c \in ServiceCommands, Service!Replace(c)
  PROVE  ServiceIInv'
<1>1. /\ svcCommand[c].at = "replace"
      /\ UNCHANGED <<svcConfig, svcConfigLock, svcUnit, svcLoaded, svcEnabled, svcService>>
  BY DEF Service!Replace, Service!At, Service!systemd
<1>2. /\ CommandSteps(c) /\ svcCommand'[c].at \in {"active", "failed"}
      /\ svcCommand'[c].archive = svcCommand[c].archive
      /\ svcCommand'[c].unheard <=> svcCommand[c].unheard
  BY DEF ServiceIInv, ServiceTyped, ServiceCommand, ServiceBinary, CommandSteps, Service!go,
     Service!fail, Service!Replace
<1>3. svcCommand[c].does = "update" /\ svcCommand[c].install = 0
  BY <1>1 DEF ServiceIInv, CommandsDoTheirs, Service!At, InstallsAreInOrder
<1>4. /\ svcBinary' \in ServiceBinary /\ svcBinary'.whole
      /\ svcBinary'.install \in {svcBinary.install, svcBinary.install + 1}
      /\ svcCommand'[c].install \in {svcCommand[c].install, svcBinary'.install}
  <2>1. svcCommand[c].archive = "published" /\ svcBinary.whole /\ svcBinary.install \in Nat
    BY <1>1 DEF ServiceIInv, ServiceTyped, ServiceBinary, VerifiedIsPublished,
       Service!BinaryIsWhole
  <2>2. CASE svcBinary' = svcBinary /\ Service!fail(c)
    BY <2>1, <2>2, CommandGoes DEF ServiceIInv, ServiceTyped, Service!fail, CommandGoesTo
  <2>3. CASE /\ svcBinary' = [release |-> svcCommand[c].release,
                  whole |-> svcCommand[c].archive = "published",
                           install |-> svcBinary.install + 1]
             /\ svcCommand' = [svcCommand EXCEPT ![c].at = "active",
                  ![c].install = svcBinary.install + 1]
    <3> DEFINE i == svcBinary.install + 1
    <3>1. i \in Nat
      BY <2>1
    <3>2. svcCommand'[c].install = i
      BY <2>3 DEF ServiceIInv, ServiceTyped, ServiceCommand
    <3>3. svcBinary'.install = i /\ svcBinary'.whole
      BY <2>1, <2>3
    <3>4. svcCommand[c].release \in ServiceReleases \cup {0}
      BY DEF ServiceIInv, ServiceTyped, ServiceCommand
    <3>5. svcBinary' \in ServiceBinary
      BY <2>1, <2>3, <3>1, <3>4 DEF ServiceBinary
    <3> QED
      BY <3>2, <3>3, <3>5
  <2> QED
    BY <2>2, <2>3 DEF Service!Replace
<1>5. ServiceTyped'
  BY <1>1, <1>2, <1>4 DEF ServiceIInv, ServiceTyped, CommandSteps
<1>6. CommandsDoTheirs'
  BY <1>1, <1>2, <1>3 DEF ServiceIInv, CommandsDoTheirs, Service!At, CommandSteps
<1>7. VerifiedIsPublished'
  BY <1>1, <1>2, <1>4 DEF ServiceIInv, VerifiedIsPublished, Service!BinaryIsWhole, CommandSteps
<1>8. InstallsAreInOrder'
  BY <1>1, <1>2, <1>3, <1>4 DEF ServiceIInv, ServiceTyped, ServiceBinary, ServiceProcess,
     ServiceCommand, InstallsAreInOrder, Service!UpdateReachesService, Service!At, CommandSteps
<1>9. GeneratedOnce'
  BY <1>1, <1>2, <1>4, ServiceAssumption DEF ServiceIInv, GeneratedOnce, Service!At,
     CommandSteps
<1>10. AloneIsAlone' /\ \A d \in ServiceCommands : d # c => ~svcCommand'[d].alone
  BY <1>1, <1>2, OthersWait DEF Service!Ended
<1>11. StartsInEffect'
  BY <1>1, <1>2, <1>3, <1>4, <1>10 DEF ServiceIInv, StartsInEffect, Service!At, CommandSteps
<1>12. StopsInEffect'
  BY <1>1, <1>2, <1>3, <1>4, <1>10 DEF ServiceIInv, StopsInEffect, Service!At, CommandSteps
<1> QED
  BY <1>5, <1>6, <1>7, <1>8, <1>9, <1>10, <1>11, <1>12 DEF ServiceIInv

(* An update asks whether the service runs, and renews one that does.      *)
LEMMA IsActiveService ==
  ASSUME ServiceIInv, NEW c \in ServiceCommands, Service!IsActive(c)
  PROVE  ServiceIInv'
<1>1. /\ svcCommand[c].at = "active"
      /\ UNCHANGED <<svcBinary, svcConfig, svcConfigLock, svcUnit, svcLoaded, svcEnabled,
           svcService>>
  BY DEF Service!IsActive, Service!At, Service!systemd
<1>2. /\ CommandSteps(c) /\ svcCommand'[c].at \in {"renew", "ok"}
      /\ svcCommand'[c].archive = svcCommand[c].archive
      /\ svcCommand'[c].install = svcCommand[c].install
  BY DEF ServiceIInv, ServiceTyped, ServiceCommand, ServiceBinary, CommandSteps, Service!go,
     Service!fail, Service!IsActive
<1>3. svcCommand[c].does = "update"
  BY <1>1 DEF ServiceIInv, CommandsDoTheirs, Service!At
<1>4. /\ svcCommand'[c].at = "ok" => svcCommand'[c].unheard \/ svcService.status # "active"
  BY <1>1 DEF ServiceIInv, ServiceTyped, ServiceBinary, ServiceCommand, VerifiedIsPublished,
     Service!BinaryIsWhole, Service!go, Service!fail, Service!IsActive
<1>5. ServiceTyped'
  BY <1>1, <1>2, <1>4 DEF ServiceIInv, ServiceTyped, CommandSteps
<1>6. CommandsDoTheirs'
  BY <1>1, <1>2, <1>3 DEF ServiceIInv, CommandsDoTheirs, Service!At, CommandSteps
<1>7. VerifiedIsPublished'
  BY <1>1, <1>2, <1>4 DEF ServiceIInv, VerifiedIsPublished, Service!BinaryIsWhole, CommandSteps
<1>8. InstallsAreInOrder'
  BY <1>1, <1>2, <1>3, <1>4 DEF ServiceIInv, ServiceTyped, ServiceBinary, ServiceProcess,
     ServiceCommand, InstallsAreInOrder, Service!UpdateReachesService, Service!At, CommandSteps
<1>9. GeneratedOnce'
  BY <1>1, <1>2, <1>4, ServiceAssumption DEF ServiceIInv, GeneratedOnce, Service!At,
     CommandSteps
<1>10. AloneIsAlone' /\ \A d \in ServiceCommands : d # c => ~svcCommand'[d].alone
  BY <1>1, <1>2, OthersWait DEF Service!Ended
<1>11. StartsInEffect'
  BY <1>1, <1>2, <1>3, <1>4, <1>10 DEF ServiceIInv, StartsInEffect, Service!At, CommandSteps
<1>12. StopsInEffect'
  BY <1>1, <1>2, <1>3, <1>4, <1>10 DEF ServiceIInv, StopsInEffect, Service!At, CommandSteps
<1> QED
  BY <1>5, <1>6, <1>7, <1>8, <1>9, <1>10, <1>11, <1>12 DEF ServiceIInv

(* The service that was running runs the new binary.                       *)
LEMMA RestartUpdatedService ==
  ASSUME ServiceIInv, NEW c \in ServiceCommands, Service!RestartUpdated(c)
  PROVE  ServiceIInv'
<1>1. /\ svcCommand[c].at = "renew"
      /\ UNCHANGED <<svcBinary, svcConfig, svcConfigLock, svcUnit, svcLoaded, svcEnabled>>
  BY DEF Service!RestartUpdated, Service!At, Service!systemd, Service!Restart
<1>2. /\ CommandSteps(c) /\ svcCommand'[c].at \in {"ok", "failed"}
      /\ svcCommand'[c].archive = svcCommand[c].archive
      /\ svcCommand'[c].install = svcCommand[c].install
      /\ svcCommand'[c].unheard <=> svcCommand[c].unheard
  <2>1. \E place \in {"ok", "failed"} : CommandGoesTo(c, place)
    BY CommandGoes DEF ServiceIInv, Service!RestartUpdated, Service!fail, Service!Restart
  <2> QED
    BY <2>1 DEF CommandGoesTo
<1>3. svcCommand[c].does = "update"
  BY <1>1 DEF ServiceIInv, CommandsDoTheirs, Service!At
<1>4. \/ StartedAsInstalled
      \/ svcCommand'[c].at = "failed" /\ (GoneDown \/ svcService' = svcService)
  BY CommandGoes, ServiceStarts, ServiceStops DEF ServiceIInv, CommandGoesTo, Service!Restart,
     Service!fail, Service!RestartUpdated
<1>5. ServiceTyped'
  BY <1>1, <1>2, <1>4 DEF ServiceIInv, ServiceTyped, CommandSteps, GoneDown, StartedAsInstalled
<1>6. CommandsDoTheirs'
  BY <1>1, <1>2, <1>3 DEF ServiceIInv, CommandsDoTheirs, Service!At, CommandSteps
<1>7. VerifiedIsPublished'
  BY <1>1, <1>2, <1>4 DEF ServiceIInv, VerifiedIsPublished, Service!BinaryIsWhole, CommandSteps
<1>8. InstallsAreInOrder'
  <2>1. svcCommand[c].install <= svcBinary.install /\ svcService.install <= svcBinary.install
    BY DEF ServiceIInv, InstallsAreInOrder
  <2>2. svcService'.install <= svcBinary.install /\ (svcService'.status = "active"
          => svcService' = svcService \/ svcService'.install = svcBinary.install)
    BY <1>4, <2>1 DEF ServiceIInv, ServiceTyped, ServiceBinary, GoneDown, StartedAsInstalled
  <2>3. svcCommand'[c].at = "ok" => svcService'.install = svcBinary.install
    BY <1>2, <1>4 DEF StartedAsInstalled
  <2>4. \A d \in ServiceCommands :
          /\ svcCommand'[d].install <= svcBinary.install
          /\ svcCommand'[d].install # 0
               => svcCommand'[d].at \in {"active", "renew", "ok", "failed", "killed"}
    BY <1>2, <2>1 DEF ServiceIInv, InstallsAreInOrder, CommandSteps
  <2>5. svcBinary.install \in Nat /\ \A d \in ServiceCommands : svcCommand'[d].install \in Nat
    BY <1>2 DEF ServiceIInv, ServiceTyped, ServiceBinary, ServiceCommand, CommandSteps
  <2>6. Service!UpdateReachesService'
    <3> SUFFICES ASSUME NEW d \in ServiceCommands, svcCommand'[d].at = "ok",
                        svcCommand'[d].install # 0,
                        ~svcCommand'[d].unheard, svcService'.status = "active"
                 PROVE  svcService'.install >= svcCommand'[d].install
      BY DEF Service!UpdateReachesService, Service!At
    <3>1. CASE svcService'.install = svcBinary.install
      BY <2>4, <2>5, <3>1
    <3>2. CASE svcService'.install # svcBinary.install
      <4>1. d # c /\ svcService' = svcService /\ svcCommand'[d] = svcCommand[d]
        BY <1>2, <2>2, <2>3, <3>2 DEF CommandSteps
      <4> QED
        BY <4>1 DEF ServiceIInv, InstallsAreInOrder, Service!UpdateReachesService, Service!At
    <3> QED
      BY <3>1, <3>2
  <2> QED
    BY <1>1, <2>2, <2>4, <2>6 DEF InstallsAreInOrder
<1>9. GeneratedOnce'
  BY <1>1, <1>2, <1>4, ServiceAssumption DEF ServiceIInv, GeneratedOnce, Service!At,
     CommandSteps, GoneDown, StartedAsInstalled, Service!Startable
<1>10. AloneIsAlone' /\ \A d \in ServiceCommands : d # c => ~svcCommand'[d].alone
  BY <1>1, <1>2, OthersWait DEF Service!Ended
<1>11. StartsInEffect'
  BY <1>1, <1>2, <1>3, <1>4, <1>10 DEF ServiceIInv, StartsInEffect, Service!At, CommandSteps,
     GoneDown, StartedAsInstalled
<1>12. StopsInEffect'
  BY <1>1, <1>2, <1>3, <1>4, <1>10 DEF ServiceIInv, StopsInEffect, Service!At, CommandSteps,
     GoneDown, StartedAsInstalled
<1> QED
  BY <1>5, <1>6, <1>7, <1>8, <1>9, <1>10, <1>11, <1>12 DEF ServiceIInv

(* A command that is killed leaves what it has done, and its lock.         *)
LEMMA KillService ==
  ASSUME ServiceIInv, NEW c \in ServiceCommands, Service!Kill(c)
  PROVE  ServiceIInv'
<1>1. /\ svcCommand[c].at \notin Service!Ended
      /\ UNCHANGED <<svcBinary, svcConfig, svcUnit, svcLoaded, svcEnabled, svcService>>
  BY DEF Service!Kill, Service!At, Service!systemd
<1>2. /\ CommandSteps(c) /\ svcCommand'[c].at = "killed"
      /\ svcCommand'[c].archive = svcCommand[c].archive
      /\ svcCommand'[c].install = svcCommand[c].install
      /\ svcCommand'[c].unheard <=> svcCommand[c].unheard
  BY CommandGoes DEF ServiceIInv, CommandGoesTo, Service!Kill
<1>4. /\ svcConfigLock # c => svcConfigLock' = svcConfigLock
  BY DEF Service!Kill
<1>5. ServiceTyped'
  BY <1>1, <1>2, <1>4 DEF ServiceIInv, ServiceTyped, CommandSteps
<1>6. CommandsDoTheirs'
  BY <1>1, <1>2 DEF ServiceIInv, CommandsDoTheirs, Service!At, CommandSteps, Service!Ended
<1>7. VerifiedIsPublished'
  BY <1>1, <1>2, <1>4 DEF ServiceIInv, VerifiedIsPublished, Service!BinaryIsWhole,
     CommandSteps, Service!Ended
<1>8. InstallsAreInOrder'
  BY <1>1, <1>2, <1>4 DEF ServiceIInv, ServiceTyped, ServiceBinary, ServiceProcess,
     ServiceCommand, InstallsAreInOrder, Service!UpdateReachesService, Service!At,
     CommandSteps, Service!Ended
<1>9. GeneratedOnce'
  BY <1>1, <1>2, <1>4, ServiceAssumption DEF ServiceIInv, GeneratedOnce, Service!At,
     CommandSteps, Service!Ended
<1>10. AloneIsAlone' /\ \A d \in ServiceCommands : d # c => ~svcCommand'[d].alone
  BY <1>1, <1>2, OthersWait
<1>11. StartsInEffect'
  BY <1>1, <1>2, <1>4, <1>10 DEF ServiceIInv, StartsInEffect, Service!At, CommandSteps,
     Service!Ended
<1>12. StopsInEffect'
  BY <1>1, <1>2, <1>4, <1>10 DEF ServiceIInv, StopsInEffect, Service!At, CommandSteps,
     Service!Ended
<1> QED
  BY <1>5, <1>6, <1>7, <1>8, <1>9, <1>10, <1>11, <1>12 DEF ServiceIInv

(* A command begins, and is alone when all others have ended.              *)
LEMMA BeginService ==
  ASSUME ServiceIInv, NEW c \in ServiceCommands, NEW kind \in ServiceKinds, Service!Begin(c,
         kind)
  PROVE  ServiceIInv'
<1>1. svcCommand[c].at = "idle" /\ UNCHANGED <<svcBinary, svcConfig, svcConfigLock, svcUnit,
        svcLoaded, svcEnabled, svcService>>
  BY DEF Service!Begin, Service!At, Service!systemd
<1>2. \A d \in ServiceCommands : d # c =>
        /\ svcCommand'[d] \in ServiceCommand /\ ~svcCommand'[d].alone
        /\ svcCommand'[d].at = svcCommand[d].at /\ svcCommand'[d].does = svcCommand[d].does
        /\ svcCommand'[d].archive = svcCommand[d].archive
             /\ svcCommand'[d].install = svcCommand[d].install
        /\ svcCommand'[d].unheard <=> svcCommand[d].unheard
  <2> SUFFICES ASSUME NEW d \in ServiceCommands, d # c
               PROVE  /\ svcCommand'[d] \in ServiceCommand /\ ~svcCommand'[d].alone
                      /\ svcCommand'[d].at = svcCommand[d].at
                           /\ svcCommand'[d].does = svcCommand[d].does
                      /\ svcCommand'[d].archive = svcCommand[d].archive
                           /\ svcCommand'[d].install = svcCommand[d].install
                      /\ svcCommand'[d].unheard <=> svcCommand[d].unheard
    OBVIOUS
  <2>1. svcCommand[d] \in ServiceCommand
    BY DEF ServiceIInv, ServiceTyped
  <2>2. svcCommand'[d] = [svcCommand[d] EXCEPT !.alone = FALSE]
    BY DEF Service!Begin
  <2> QED
    BY <2>1, <2>2 DEF ServiceCommand
<1>3. /\ svcCommand'[c] \in ServiceCommand /\ svcCommand'[c].does = kind
      /\ svcCommand'[c].install = 0
      /\ kind = "start" => svcCommand'[c].at = "lock"
      /\ kind = "stop" => svcCommand'[c].at = "disable"
      /\ kind = "restart" => svcCommand'[c].at = "restart"
      /\ kind = "update" => svcCommand'[c].at = "fetch"
      /\ svcCommand'[c].alone => \A e \in ServiceCommands : svcCommand[e].at \in Service!Ended
  <2> DEFINE at == CASE kind = "start" -> "lock" [] kind = "stop" -> "disable"
                     [] kind = "restart" -> "restart" [] kind = "update" -> "fetch"
             alone == \A e \in ServiceCommands : svcCommand[e].at \in Service!Ended
             w == [Service!Idle EXCEPT !.does = kind, !.version = svcBinary.release, !.at = at,
               !.alone = alone]
  <2>1. svcCommand'[c] = w
    BY DEF Service!Begin
  <2>2. /\ kind = "start" => at = "lock"
        /\ kind = "stop" => at = "disable"
        /\ kind = "restart" => at = "restart"
        /\ kind = "update" => at = "fetch"
    OBVIOUS
  <2>3. alone \in BOOLEAN
    OBVIOUS
  <2>4. svcBinary.release \in ServiceReleases \cup {0}
    BY DEF ServiceIInv, ServiceTyped, ServiceBinary
  <2>5. kind \in {"start", "stop", "restart", "update"}
    BY ServiceAssumption
  <2>6. alone => \A e \in ServiceCommands : svcCommand[e].at \in Service!Ended
    OBVIOUS
  <2> HIDE DEF at, alone
  <2>7. w \in ServiceCommand /\ w.does = kind /\ w.install = 0 /\ w.at = at
    BY <2>2, <2>3, <2>4, <2>5 DEF ServiceCommand, Service!Idle
  <2>8. w.alone => alone
    BY <2>3 DEF Service!Idle
  <2> HIDE DEF w
  <2> QED
    BY <2>1, <2>2, <2>6, <2>7, <2>8
<1>4. kind \in {"start", "stop", "restart", "update"}
  BY ServiceAssumption
<1>5. ServiceTyped'
  <2>1. svcCommand' \in [ServiceCommands -> ServiceCommand]
    BY <1>2, <1>3 DEF Service!Begin
  <2> QED
    BY <1>1, <2>1 DEF ServiceIInv, ServiceTyped
<1>6. CommandsDoTheirs'
  BY <1>1, <1>2, <1>3, <1>4 DEF ServiceIInv, CommandsDoTheirs, Service!At
<1>7. VerifiedIsPublished'
  BY <1>1, <1>2, <1>3, <1>4 DEF ServiceIInv, VerifiedIsPublished, Service!BinaryIsWhole
<1>8. InstallsAreInOrder'
  BY <1>1, <1>2, <1>3, <1>4 DEF ServiceIInv, ServiceTyped, ServiceBinary, InstallsAreInOrder,
     Service!UpdateReachesService, Service!At
<1>9. GeneratedOnce'
  BY <1>1, <1>2, <1>3, <1>4 DEF ServiceIInv, GeneratedOnce, Service!At
<1>10. AloneIsAlone'
  BY <1>1, <1>2, <1>3 DEF ServiceIInv, AloneIsAlone
<1>11. StartsInEffect' /\ StopsInEffect'
  BY <1>2, <1>3, <1>4 DEF StartsInEffect, StopsInEffect, Service!At
<1> QED
  BY <1>5, <1>6, <1>7, <1>8, <1>9, <1>10, <1>11 DEF ServiceIInv

(* What systemd does by itself to the service that an update or a start    *)
(* waits for.                                                              *)
LEMMA SystemdService ==
  ASSUME ServiceIInv, UNCHANGED <<svcBinary, svcConfig, svcConfigLock, svcUnit, svcLoaded,
         svcEnabled, svcCommand>>,
         \/ svcService' \in ServiceProcess /\ svcService'.install = 0
              /\ \/ svcService.status = "active" /\ svcService'.status = "waiting"
                 \/ svcService.status = "waiting" /\ svcService'.status = "down"
         \/ svcService.status = "waiting" /\ StartedAsInstalled
  PROVE  ServiceIInv'
<1>1. ServiceTyped' /\ CommandsDoTheirs' /\ VerifiedIsPublished' /\ AloneIsAlone'
  BY DEF ServiceIInv, ServiceTyped, CommandsDoTheirs, VerifiedIsPublished,
     Service!BinaryIsWhole, AloneIsAlone,
         StartedAsInstalled, Service!At
<1>2. InstallsAreInOrder'
  BY DEF ServiceIInv, ServiceTyped, ServiceBinary, ServiceCommand, InstallsAreInOrder,
     Service!UpdateReachesService,
         StartedAsInstalled, Service!At
<1>3. GeneratedOnce'
  BY DEF ServiceIInv, GeneratedOnce, StartedAsInstalled, Service!Startable, Service!At
<1>4. StartsInEffect' /\ StopsInEffect'
  BY DEF ServiceIInv, StartsInEffect, StopsInEffect, StartedAsInstalled, Service!At
<1> QED
  BY <1>1, <1>2, <1>3, <1>4 DEF ServiceIInv

(* The service fails, and waits to be started again.                       *)
LEMMA ServiceFailsService ==
  ASSUME ServiceIInv, Service!ServiceFails
  PROVE  ServiceIInv'
<1>1. svcService' \in ServiceProcess /\ svcService'.install = 0
        /\ svcService'.status = "waiting"
  BY DEF Service!ServiceFails, ServiceProcess, Service!Down
<1> QED
  BY <1>1, SystemdService DEF Service!ServiceFails

(* systemd starts it again.                                                *)
LEMMA StartAgainService ==
  ASSUME ServiceIInv, Service!StartAgain
  PROVE  ServiceIInv'
<1>1. StartedAsInstalled \/ GoneDown
  BY ServiceStarts, ServiceStops DEF ServiceIInv, Service!StartAgain
<1> QED
  BY <1>1, SystemdService DEF Service!StartAgain, GoneDown

(* A reboot ends the commands, loads the unit and starts an enabled        *)
(* service.                                                                *)
LEMMA RebootService ==
  ASSUME ServiceIInv, Service!Reboot
  PROVE  ServiceIInv'
<1>1. /\ UNCHANGED <<svcBinary, svcConfig, svcUnit, svcEnabled>>
      /\ svcConfigLock' = None /\ svcLoaded' = svcUnit
  BY DEF Service!Reboot
<1>2. \A c \in ServiceCommands :
        /\ svcCommand'[c] \in ServiceCommand
        /\ svcCommand'[c].does = svcCommand[c].does
             /\ svcCommand'[c].install = svcCommand[c].install
        /\ svcCommand'[c].alone <=> svcCommand[c].alone
        /\ svcCommand'[c].unheard <=> svcCommand[c].unheard
        /\ svcCommand'[c].at = svcCommand[c].at \/ svcCommand'[c].at = "killed"
        /\ svcCommand'[c].at \in Service!Ended
  <2> SUFFICES ASSUME NEW c \in ServiceCommands
               PROVE  /\ svcCommand'[c] \in ServiceCommand
                      /\ svcCommand'[c].does = svcCommand[c].does
                           /\ svcCommand'[c].install = svcCommand[c].install
                      /\ svcCommand'[c].alone <=> svcCommand[c].alone
                      /\ svcCommand'[c].unheard <=> svcCommand[c].unheard
                      /\ svcCommand'[c].at = svcCommand[c].at \/ svcCommand'[c].at = "killed"
                      /\ svcCommand'[c].at \in Service!Ended
    OBVIOUS
  <2>1. svcCommand[c] \in ServiceCommand
    BY DEF ServiceIInv, ServiceTyped
  <2>2. CASE svcCommand[c].at \in Service!Ended
    <3>1. svcCommand'[c] = svcCommand[c]
      BY <2>2 DEF Service!Reboot
    <3> QED
      BY <2>1, <2>2, <3>1
  <2>3. CASE svcCommand[c].at \notin Service!Ended
    <3>1. svcCommand'[c] = [svcCommand[c] EXCEPT !.at = "killed"]
      BY <2>3 DEF Service!Reboot
    <3> QED
      BY <2>1, <3>1 DEF ServiceCommand, Service!Ended
  <2> QED
    BY <2>2, <2>3
<1>3. /\ svcService' \in ServiceProcess /\ svcService'.install = 0
           /\ svcService'.status \in {"down", "waiting"}
      /\ ~svcEnabled => svcService'.status = "down"
  BY DEF Service!Reboot, ServiceProcess, Service!Down
<1>4. ServiceTyped'
  <2>1. svcCommand' \in [ServiceCommands -> ServiceCommand]
    BY <1>2 DEF Service!Reboot
  <2> QED
    BY <1>1, <1>3, <2>1 DEF ServiceIInv, ServiceTyped
<1>5. CommandsDoTheirs' /\ AloneIsAlone'
  BY <1>2 DEF CommandsDoTheirs, AloneIsAlone, Service!At, Service!Ended
<1>6. VerifiedIsPublished'
  BY <1>1, <1>2 DEF ServiceIInv, VerifiedIsPublished, Service!BinaryIsWhole, Service!Ended
<1>7. InstallsAreInOrder'
  BY <1>1, <1>2, <1>3 DEF ServiceIInv, ServiceTyped, ServiceBinary, InstallsAreInOrder,
     Service!UpdateReachesService, Service!At
<1>8. GeneratedOnce'
  BY <1>1, <1>2, <1>3 DEF GeneratedOnce, Service!At, Service!Ended
<1>9. StartsInEffect'
  BY <1>1, <1>2, <1>3 DEF ServiceIInv, StartsInEffect, Service!At, Service!Ended
<1>10. StopsInEffect'
  BY <1>1, <1>2, <1>3 DEF ServiceIInv, StopsInEffect, Service!At, Service!Ended
<1> QED
  BY <1>4, <1>5, <1>6, <1>7, <1>8, <1>9, <1>10 DEF ServiceIInv

(* Nothing is installed but a binary.                                      *)
LEMMA ServiceInit ==
  ASSUME Service!Init
  PROVE  ServiceIInv
<1>1. /\ svcBinary \in ServiceBinary /\ svcBinary.whole /\ svcBinary.install = 0
      /\ svcConfig = None /\ svcUnit = None /\ svcLoaded = None /\ ~svcEnabled
  BY DEF Service!Init, ServiceBinary
<1>2. svcService \in ServiceProcess /\ svcService.status = "down" /\ svcService.install = 0
  BY DEF Service!Init, ServiceProcess, Service!Down
<1>3. /\ svcCommand \in [ServiceCommands -> ServiceCommand]
      /\ \A c \in ServiceCommands : svcCommand[c].at = "idle" /\ svcCommand[c].install = 0
           /\ ~svcCommand[c].alone
  BY DEF Service!Init, Service!Idle, ServiceCommand
<1>4. ServiceTyped
  BY <1>1, <1>2, <1>3 DEF ServiceTyped, Service!Init
<1>5. CommandsDoTheirs /\ VerifiedIsPublished /\ GeneratedOnce
  BY <1>1, <1>2, <1>3 DEF CommandsDoTheirs, VerifiedIsPublished, Service!BinaryIsWhole,
     GeneratedOnce, Service!At
<1>6. InstallsAreInOrder
  BY <1>1, <1>2, <1>3 DEF InstallsAreInOrder, Service!UpdateReachesService, Service!At
<1>7. AloneIsAlone /\ StartsInEffect /\ StopsInEffect
  BY <1>3 DEF AloneIsAlone, StartsInEffect, StopsInEffect
<1> QED
  BY <1>4, <1>5, <1>6, <1>7 DEF ServiceIInv

(* Every step of the commands and of systemd keeps the invariant.          *)
LEMMA ServiceStep ==
  ASSUME ServiceIInv, [Service!Next]_svcVars
  PROVE  ServiceIInv'
<1>1. CASE Service!Next
  BY <1>1, BeginService, ServiceFailsService, StartAgainService, RebootService,
     LockConfigService, ReadConfigService, WriteConfigService, TruncateUnitService,
     WriteUnitService, ReloadService, EnableService, RestartServiceService, WaitReadyService,
     DisableService, RemoveUnitService, FetchReleaseService, DownloadFileService,
     VerifyChecksumService, ExtractBinaryService, ReplaceService, IsActiveService,
     RestartUpdatedService, KillService DEF Service!Next
<1>2. CASE UNCHANGED svcVars
  <2>1. ServiceTyped' /\ CommandsDoTheirs' /\ VerifiedIsPublished' /\ AloneIsAlone'
    BY <1>2 DEF svcVars, ServiceIInv, ServiceTyped, CommandsDoTheirs, VerifiedIsPublished,
       Service!BinaryIsWhole, AloneIsAlone, Service!At
  <2>2. InstallsAreInOrder' /\ GeneratedOnce'
    BY <1>2 DEF svcVars, ServiceIInv, InstallsAreInOrder, Service!UpdateReachesService,
       GeneratedOnce, Service!At
  <2>3. StartsInEffect' /\ StopsInEffect'
    BY <1>2 DEF svcVars, ServiceIInv, StartsInEffect, StopsInEffect, Service!At
  <2> QED
    BY <2>1, <2>2, <2>3 DEF ServiceIInv
<1> QED
  BY <1>1, <1>2

(* The invariant has the parts of ServiceIsCurrent.                        *)
LEMMA ServiceSafe ==
  ASSUME ServiceIInv
  PROVE  Service!ServiceIsCurrent
<1>1. Service!BinaryIsWhole /\ Service!UpdateReachesService /\ Service!CredentialsAgree
  BY DEF ServiceIInv, VerifiedIsPublished, InstallsAreInOrder, GeneratedOnce,
     Service!CredentialsAgree
<1>2. Service!CommandsTakeEffect
  BY DEF ServiceIInv, StartsInEffect, StopsInEffect, Service!CommandsTakeEffect, Service!At
<1> QED
  BY <1>1, <1>2 DEF Service!ServiceIsCurrent

-----------------------------------------------------------------------------
(* PluginHost.  Who holds lifecycleMu has in hand what is staged, or what  *)
(* is retired.                                                             *)

HostPlugin ==
  [status : {"unused", "staged", "running", "degraded", "failed", "stopped"}, alive : BOOLEAN,
   terminated : BOOLEAN, retiring : BOOLEAN, closing : BOOLEAN, exited : BOOLEAN,
   received : SUBSET HostCalls]

HostCall ==
  [at : {"idle", "acquired", "registered", "waits", "returned"}, plugin : HostPlugins
    \cup {None},
   cancelled : BOOLEAN, answer : BOOLEAN, progress : Nat,
   result : {None, "ok", "error", "cancelled"}, run : {"open", "ended"}]

HostLifecycle ==
  [at : {"idle", "staging", "publishing", "retiring", "draining", "closing"},
   op : {None, "reload", "close"}, staged : HostPlugins \cup {None}, old : HostPlugins
     \cup {None},
   expired : BOOLEAN]

(* The values of the state.                                                *)
HostTyped ==
  /\ plgGeneration \in HostPlugins \cup {None}
  /\ plgPlugin \in [HostPlugins -> HostPlugin]
  /\ plgCall \in [HostCalls -> HostCall]
  /\ plgLifecycle \in HostLifecycle
  /\ \A c \in HostCalls : plgCall[c].at # "idle" => plgCall[c].plugin \in HostPlugins

(* A process that is not started yet is in no one's hands.                  *)
UnusedIsUnknown == \A p \in HostPlugins : plgPlugin[p].status = "unused" =>
  /\ ~plgPlugin[p].alive /\ ~plgPlugin[p].terminated /\ ~plgPlugin[p].retiring
       /\ ~plgPlugin[p].closing
  /\ plgGeneration # p /\ plgLifecycle.staged # p /\ plgLifecycle.old # p
  /\ \A c \in HostCalls : plgCall[c].plugin # p

(* What is staged is not published yet and not on its way out.              *)
StagedIsNew ==
  /\ plgLifecycle.at = "staging" => \E p \in HostPlugins : plgPlugin[p].status = "unused"
  /\ plgLifecycle.at \in {"staging", "publishing"} => ~plgClosed
  /\ plgLifecycle.at # "publishing" => plgLifecycle.staged = None
  /\ plgLifecycle.at = "publishing" =>
       /\ plgLifecycle.staged \in HostPlugins /\ plgLifecycle.staged # plgGeneration
       /\ ~plgPlugin[plgLifecycle.staged].retiring

(* What is retired was published before, and is closed after its drain.     *)
Retires == plgLifecycle.at \in {"retiring", "draining", "closing"}
OldIsOut ==
  /\ ~Retires => plgLifecycle.old = None
  /\ Retires => plgLifecycle.old \in HostPlugins /\ (plgLifecycle.old # plgGeneration
       \/ plgClosed)
  /\ plgLifecycle.at \in {"retiring", "draining"} => ~plgPlugin[plgLifecycle.old].closing
  /\ plgLifecycle.at \in {"draining", "closing"} => plgPlugin[plgLifecycle.old].retiring
  /\ \A p \in HostPlugins : plgPlugin[p].closing => plgPlugin[p].retiring
  /\ plgGeneration # None /\ ~plgClosed => ~plgPlugin[plgGeneration].retiring

(* A plugin that is closed within its deadline has no calls.                *)
ClosedHasDrained ==
  plgLifecycle.at = "closing" /\ ~plgLifecycle.expired => \A c \in HostCalls :
    plgCall[c].plugin = plgLifecycle.old
      => plgCall[c].at \notin {"acquired", "registered", "waits"}

(* The inductive invariant of the plugin manager.                          *)
HostIInv == HostTyped /\ UnusedIsUnknown /\ StagedIsNew /\ OldIsOut /\ ClosedHasDrained

(* What a step does to the calls and to the plugins.                        *)
InUse(at) == at \in {"acquired", "registered", "waits"}

CallsEnd ==
  /\ plgCall' \in [HostCalls -> HostCall]
  /\ \A c \in HostCalls : plgCall'[c].plugin = plgCall[c].plugin
  /\ \A c \in HostCalls : InUse(plgCall'[c].at) => InUse(plgCall[c].at)
  /\ \A c \in HostCalls : plgCall'[c].at # "idle" => plgCall[c].at # "idle"

PluginsGoOn ==
  /\ plgPlugin' \in [HostPlugins -> HostPlugin]
  /\ \A p \in HostPlugins : plgPlugin[p].status = "unused" => plgPlugin'[p] = plgPlugin[p]
  /\ \A p \in HostPlugins : plgPlugin[p].status # "unused" => plgPlugin'[p].status # "unused"
  /\ \A p \in HostPlugins : plgPlugin'[p].retiring <=> plgPlugin[p].retiring
  /\ \A p \in HostPlugins : plgPlugin'[p].closing <=> plgPlugin[p].closing

(* The first two parts of RetiresForGood; the others are of the invariant.  *)
EndIsForGood == \A p \in HostPlugins :
  /\ plgPlugin[p].status \in {"failed", "stopped"}
       => plgPlugin'[p].status \in {"failed", "stopped"}
  /\ plgPlugin[p].retiring => \A c \in HostCalls :
       plgCall'[c].plugin = p /\ InUse(plgCall'[c].at) => plgCall[c].plugin = p
         /\ InUse(plgCall[c].at)

(* Calls that do not change do not begin.                                  *)
LEMMA CallsKept ==
  ASSUME HostIInv, UNCHANGED plgCall
  PROVE  CallsEnd
BY DEF HostIInv, HostTyped, CallsEnd

(* Plugins that do not change go on.                                       *)
LEMMA PluginsKept ==
  ASSUME HostIInv, UNCHANGED plgPlugin
  PROVE  PluginsGoOn
BY DEF HostIInv, HostTyped, PluginsGoOn

(* A started plugin becomes w, no less retired, closed or failed than it   *)
(* was.                                                                    *)
GoesOnAs(p, w) ==
  /\ w \in HostPlugin /\ plgPlugin[p].status # "unused" /\ w.status # "unused"
  /\ w.retiring <=> plgPlugin[p].retiring
  /\ w.closing <=> plgPlugin[p].closing
  /\ plgPlugin[p].status \in {"failed", "stopped"} => w.status \in {"failed", "stopped"}

(* One plugin goes on, the others stay.                                    *)
LEMMA PluginMoves ==
  ASSUME HostIInv, NEW p \in HostPlugins, NEW w, GoesOnAs(p, w),
         plgPlugin' = [plgPlugin EXCEPT ![p] = w]
  PROVE  /\ PluginsGoOn
         /\ \A q \in HostPlugins : plgPlugin[q].status \in {"failed", "stopped"}
              => plgPlugin'[q].status \in {"failed", "stopped"}
BY DEF HostIInv, HostTyped, PluginsGoOn, GoesOnAs

(* The process, its transport and the calls move within a generation.       *)
LEMMA GenerationKept ==
  ASSUME HostIInv, UNCHANGED <<plgGeneration, plgClosed, plgLifecycle>>, CallsEnd, PluginsGoOn
  PROVE  HostIInv'
<1>1. HostTyped'
  BY DEF HostIInv, HostTyped, CallsEnd, PluginsGoOn
<1>2. UnusedIsUnknown'
  BY DEF HostIInv, UnusedIsUnknown, CallsEnd, PluginsGoOn
<1>3. StagedIsNew'
  BY DEF HostIInv, StagedIsNew, PluginsGoOn
<1>4. OldIsOut'
  BY DEF HostIInv, HostTyped, OldIsOut, Retires, PluginsGoOn
<1>5. ClosedHasDrained'
  BY DEF HostIInv, ClosedHasDrained, CallsEnd, InUse
<1> QED
  BY <1>1, <1>2, <1>3, <1>4, <1>5 DEF HostIInv

(* A call registers with the transport of its plugin, or returns.          *)
LEMMA RegisterHost ==
  ASSUME HostIInv, NEW c \in HostCalls, Host!Register(c)
  PROVE  HostIInv' /\ EndIsForGood
<1>1. UNCHANGED <<plgGeneration, plgClosed, plgLifecycle>>
  BY DEF Host!Register
<1>2. CallsEnd
  BY DEF HostIInv, HostTyped, HostCall, CallsEnd, InUse, Host!Register
<1>3. PluginsGoOn /\ \A q \in HostPlugins : plgPlugin[q].status \in {"failed", "stopped"}
        => plgPlugin'[q].status \in {"failed", "stopped"}
  BY PluginsKept DEF Host!Register
<1>4. HostIInv'
  BY <1>1, <1>2, <1>3, GenerationKept
<1>5. EndIsForGood
  BY <1>2, <1>3 DEF EndIsForGood, CallsEnd
<1> QED
  BY <1>4, <1>5

(* A request is written, or its transport ends: write.                     *)
LEMMA WriteHost ==
  ASSUME HostIInv, NEW c \in HostCalls, Host!Write(c)
  PROVE  HostIInv' /\ EndIsForGood
<1>1. UNCHANGED <<plgGeneration, plgClosed, plgLifecycle>>
  BY DEF Host!Write
<1>2. CallsEnd
  BY DEF HostIInv, HostTyped, HostCall, CallsEnd, InUse, Host!Write
<1>3. PluginsGoOn /\ \A q \in HostPlugins : plgPlugin[q].status \in {"failed", "stopped"}
        => plgPlugin'[q].status \in {"failed", "stopped"}
  <2> DEFINE p == plgCall[c].plugin
  <2>1. p \in HostPlugins /\ plgPlugin[p] \in HostPlugin /\ plgPlugin[p].status # "unused"
    BY DEF HostIInv, HostTyped, UnusedIsUnknown, Host!Write
  <2>2. CASE plgPlugin' = [plgPlugin EXCEPT ![p].received = @ \cup {c}]
    <3> DEFINE w == [plgPlugin[p] EXCEPT !.received = @ \cup {c}]
    <3>1. GoesOnAs(p, w)
      BY <2>1 DEF GoesOnAs, HostPlugin
    <3>2. plgPlugin' = [plgPlugin EXCEPT ![p] = w]
      BY <2>2
    <3> HIDE DEF w, p
    <3> QED
      BY <2>1, <3>1, <3>2, PluginMoves
  <2>3. CASE plgPlugin' = [plgPlugin EXCEPT ![p].terminated = TRUE]
    <3> DEFINE w == [plgPlugin[p] EXCEPT !.terminated = TRUE]
    <3>1. GoesOnAs(p, w)
      BY <2>1 DEF GoesOnAs, HostPlugin
    <3>2. plgPlugin' = [plgPlugin EXCEPT ![p] = w]
      BY <2>3
    <3> HIDE DEF w, p
    <3> QED
      BY <2>1, <3>1, <3>2, PluginMoves
  <2> QED
    BY <2>2, <2>3 DEF Host!Write
<1>4. HostIInv'
  BY <1>1, <1>2, <1>3, GenerationKept
<1>5. EndIsForGood
  BY <1>2, <1>3 DEF EndIsForGood, CallsEnd
<1> QED
  BY <1>4, <1>5

(* A call is cancelled.                                                    *)
LEMMA CancelHost ==
  ASSUME HostIInv, NEW c \in HostCalls, Host!Cancel(c)
  PROVE  HostIInv' /\ EndIsForGood
<1>1. UNCHANGED <<plgGeneration, plgClosed, plgLifecycle>>
  BY DEF Host!Cancel
<1>2. CallsEnd
  BY DEF HostIInv, HostTyped, HostCall, CallsEnd, InUse, Host!Cancel
<1>3. PluginsGoOn /\ \A q \in HostPlugins : plgPlugin[q].status \in {"failed", "stopped"}
        => plgPlugin'[q].status \in {"failed", "stopped"}
  BY PluginsKept DEF Host!Cancel
<1>4. HostIInv'
  BY <1>1, <1>2, <1>3, GenerationKept
<1>5. EndIsForGood
  BY <1>2, <1>3 DEF EndIsForGood, CallsEnd
<1> QED
  BY <1>4, <1>5

(* A call returns: callWithProgress, release.                              *)
LEMMA ReturnHost ==
  ASSUME HostIInv, NEW c \in HostCalls, Host!Return(c)
  PROVE  HostIInv' /\ EndIsForGood
<1>1. UNCHANGED <<plgGeneration, plgClosed, plgLifecycle>>
  BY DEF Host!Return
<1>2. CallsEnd
  BY DEF HostIInv, HostTyped, HostCall, CallsEnd, InUse, Host!Return
<1>3. PluginsGoOn /\ \A q \in HostPlugins : plgPlugin[q].status \in {"failed", "stopped"}
        => plgPlugin'[q].status \in {"failed", "stopped"}
  BY PluginsKept DEF Host!Return
<1>4. HostIInv'
  BY <1>1, <1>2, <1>3, GenerationKept
<1>5. EndIsForGood
  BY <1>2, <1>3 DEF EndIsForGood, CallsEnd
<1> QED
  BY <1>4, <1>5

(* A run ends.                                                             *)
LEMMA RunEndsHost ==
  ASSUME HostIInv, NEW c \in HostCalls, Host!RunEnds(c)
  PROVE  HostIInv' /\ EndIsForGood
<1>1. UNCHANGED <<plgGeneration, plgClosed, plgLifecycle>>
  BY DEF Host!RunEnds
<1>2. CallsEnd
  BY DEF HostIInv, HostTyped, HostCall, CallsEnd, InUse, Host!RunEnds
<1>3. PluginsGoOn /\ \A q \in HostPlugins : plgPlugin[q].status \in {"failed", "stopped"}
        => plgPlugin'[q].status \in {"failed", "stopped"}
  BY PluginsKept DEF Host!RunEnds
<1>4. HostIInv'
  BY <1>1, <1>2, <1>3, GenerationKept
<1>5. EndIsForGood
  BY <1>2, <1>3 DEF EndIsForGood, CallsEnd
<1> QED
  BY <1>4, <1>5

(* A plugin answers.                                                       *)
LEMMA PluginAnswersHost ==
  ASSUME HostIInv, NEW p \in HostPlugins, Host!PluginAnswers(p)
  PROVE  HostIInv' /\ EndIsForGood
<1>1. UNCHANGED <<plgGeneration, plgClosed, plgLifecycle>>
  BY DEF Host!PluginAnswers
<1>2. CallsEnd
  BY CallsKept DEF Host!PluginAnswers
<1>3. PluginsGoOn /\ \A q \in HostPlugins : plgPlugin[q].status \in {"failed", "stopped"}
        => plgPlugin'[q].status \in {"failed", "stopped"}
  BY DEF HostIInv, HostTyped, HostPlugin, UnusedIsUnknown, PluginsGoOn, Host!PluginAnswers
<1>4. HostIInv'
  BY <1>1, <1>2, <1>3, GenerationKept
<1>5. EndIsForGood
  BY <1>2, <1>3 DEF EndIsForGood, CallsEnd
<1> QED
  BY <1>4, <1>5

(* A plugin reports progress.                                              *)
LEMMA PluginReportsHost ==
  ASSUME HostIInv, NEW p \in HostPlugins, Host!PluginReports(p)
  PROVE  HostIInv' /\ EndIsForGood
<1>1. UNCHANGED <<plgGeneration, plgClosed, plgLifecycle>>
  BY DEF Host!PluginReports
<1>2. CallsEnd
  <2>1. PICK c \in plgPlugin[p].received : plgCall' = [plgCall EXCEPT ![c].progress = @ + 1]
    BY DEF Host!PluginReports
  <2>2. c \in HostCalls /\ plgCall[c] \in HostCall
    BY DEF HostIInv, HostTyped, HostPlugin
  <2> DEFINE n == plgCall[c].progress + 1
             w == [plgCall[c] EXCEPT !.progress = n]
  <2>3. n \in Nat
    BY <2>2 DEF HostCall
  <2>4. plgCall' = [plgCall EXCEPT ![c] = w]
    BY <2>1
  <2> HIDE DEF n
  <2>5. w \in HostCall /\ w.at = plgCall[c].at /\ w.plugin = plgCall[c].plugin
    BY <2>2, <2>3 DEF HostCall
  <2> HIDE DEF w
  <2> QED
    BY <2>2, <2>4, <2>5 DEF HostIInv, HostTyped, CallsEnd
<1>3. PluginsGoOn /\ \A q \in HostPlugins : plgPlugin[q].status \in {"failed", "stopped"}
        => plgPlugin'[q].status \in {"failed", "stopped"}
  BY PluginsKept DEF Host!PluginReports
<1>4. HostIInv'
  BY <1>1, <1>2, <1>3, GenerationKept
<1>5. EndIsForGood
  BY <1>2, <1>3 DEF EndIsForGood, CallsEnd
<1> QED
  BY <1>4, <1>5

(* A process ends.                                                         *)
LEMMA PluginDiesHost ==
  ASSUME HostIInv, NEW p \in HostPlugins, Host!PluginDies(p)
  PROVE  HostIInv' /\ EndIsForGood
<1>1. UNCHANGED <<plgGeneration, plgClosed, plgLifecycle>>
  BY DEF Host!PluginDies
<1>2. CallsEnd
  BY CallsKept DEF Host!PluginDies
<1>3. PluginsGoOn /\ \A q \in HostPlugins : plgPlugin[q].status \in {"failed", "stopped"}
        => plgPlugin'[q].status \in {"failed", "stopped"}
  <2> DEFINE w == [plgPlugin[p] EXCEPT !.alive = FALSE, !.received = {}]
  <2>1. plgPlugin[p] \in HostPlugin /\ plgPlugin[p].status # "unused"
    BY DEF HostIInv, HostTyped, HostPlugin, UnusedIsUnknown, Host!PluginDies
  <2>2. GoesOnAs(p, w)
    BY <2>1 DEF GoesOnAs, HostPlugin
  <2>3. plgPlugin' = [plgPlugin EXCEPT ![p] = w]
    BY DEF Host!PluginDies
  <2> HIDE DEF w
  <2> QED
    BY <2>2, <2>3, PluginMoves
<1>4. HostIInv'
  BY <1>1, <1>2, <1>3, GenerationKept
<1>5. EndIsForGood
  BY <1>2, <1>3 DEF EndIsForGood, CallsEnd
<1> QED
  BY <1>4, <1>5

(* The reader takes a message: handleMessage.                              *)
LEMMA ReadMessageHost ==
  ASSUME HostIInv, NEW p \in HostPlugins, Host!ReadMessage(p)
  PROVE  HostIInv' /\ EndIsForGood
<1>1. UNCHANGED <<plgGeneration, plgClosed, plgLifecycle>>
  BY DEF Host!ReadMessage
<1>2. CallsEnd
  <2> DEFINE c == Head(plgWire[p]).call
  <2>1. CASE plgCall' = plgCall
    BY <2>1, CallsKept
  <2>2. CASE plgCall' = [plgCall EXCEPT ![c].answer = TRUE] /\ c \in HostCalls
    <3> DEFINE w == [plgCall[c] EXCEPT !.answer = TRUE]
    <3>1. plgCall[c] \in HostCall
      BY <2>2 DEF HostIInv, HostTyped
    <3>2. plgCall' = [plgCall EXCEPT ![c] = w]
      BY <2>2
    <3>3. w \in HostCall /\ w.at = plgCall[c].at /\ w.plugin = plgCall[c].plugin
      BY <3>1 DEF HostCall
    <3> HIDE DEF w, c
    <3> QED
      BY <2>2, <3>2, <3>3 DEF HostIInv, HostTyped, CallsEnd
  <2>3. CASE plgCall' = [plgCall EXCEPT ![c].answer = TRUE] /\ c \notin HostCalls
    <3>1. plgCall' = plgCall
      BY <2>3 DEF HostIInv, HostTyped
    <3> QED
      BY <3>1, CallsKept
  <2> QED
    BY <2>1, <2>2, <2>3 DEF Host!ReadMessage
<1>3. PluginsGoOn /\ \A q \in HostPlugins : plgPlugin[q].status \in {"failed", "stopped"}
        => plgPlugin'[q].status \in {"failed", "stopped"}
  BY PluginsKept DEF Host!ReadMessage
<1>4. HostIInv'
  BY <1>1, <1>2, <1>3, GenerationKept
<1>5. EndIsForGood
  BY <1>2, <1>3 DEF EndIsForGood, CallsEnd
<1> QED
  BY <1>4, <1>5

(* The reader runs a callback.                                             *)
LEMMA ReportProgressHost ==
  ASSUME HostIInv, NEW p \in HostPlugins, Host!ReportProgress(p)
  PROVE  HostIInv' /\ EndIsForGood
<1>1. UNCHANGED <<plgGeneration, plgClosed, plgLifecycle>>
  BY DEF Host!ReportProgress
<1>2. CallsEnd
  BY CallsKept DEF Host!ReportProgress
<1>3. PluginsGoOn /\ \A q \in HostPlugins : plgPlugin[q].status \in {"failed", "stopped"}
        => plgPlugin'[q].status \in {"failed", "stopped"}
  BY PluginsKept DEF Host!ReportProgress
<1>4. HostIInv'
  BY <1>1, <1>2, <1>3, GenerationKept
<1>5. EndIsForGood
  BY <1>2, <1>3 DEF EndIsForGood, CallsEnd
<1> QED
  BY <1>4, <1>5

(* A transport ends: terminate.                                            *)
LEMMA TerminateHost ==
  ASSUME HostIInv, NEW p \in HostPlugins, Host!Terminate(p)
  PROVE  HostIInv' /\ EndIsForGood
<1>1. UNCHANGED <<plgGeneration, plgClosed, plgLifecycle>>
  BY DEF Host!Terminate, Host!Terminated
<1>2. CallsEnd
  BY CallsKept DEF Host!Terminate
<1>3. PluginsGoOn /\ \A q \in HostPlugins : plgPlugin[q].status \in {"failed", "stopped"}
        => plgPlugin'[q].status \in {"failed", "stopped"}
  <2> DEFINE w == [plgPlugin[p] EXCEPT !.terminated = TRUE]
  <2>1. plgPlugin[p] \in HostPlugin /\ plgPlugin[p].status # "unused"
    BY DEF HostIInv, HostTyped, HostPlugin, UnusedIsUnknown, Host!Terminate
  <2>2. GoesOnAs(p, w)
    BY <2>1 DEF GoesOnAs, HostPlugin
  <2>3. plgPlugin' = [plgPlugin EXCEPT ![p] = w]
    BY DEF Host!Terminate, Host!Terminated
  <2> HIDE DEF w
  <2> QED
    BY <2>2, <2>3, PluginMoves
<1>4. HostIInv'
  BY <1>1, <1>2, <1>3, GenerationKept
<1>5. EndIsForGood
  BY <1>2, <1>3 DEF EndIsForGood, CallsEnd
<1> QED
  BY <1>4, <1>5

(* A process that ended is failed, or stopped if it was retiring:          *)
(* watchExit.                                                              *)
LEMMA WatchExitHost ==
  ASSUME HostIInv, NEW p \in HostPlugins, Host!WatchExit(p)
  PROVE  HostIInv' /\ EndIsForGood
<1>1. UNCHANGED <<plgGeneration, plgClosed, plgLifecycle>>
  BY DEF Host!WatchExit
<1>2. CallsEnd
  BY CallsKept DEF Host!WatchExit
<1>3. PluginsGoOn /\ \A q \in HostPlugins : plgPlugin[q].status \in {"failed", "stopped"}
        => plgPlugin'[q].status \in {"failed", "stopped"}
  <2>1. PICK status \in {"failed", "stopped"} :
          plgPlugin' = [plgPlugin EXCEPT ![p].exited = TRUE,
                                   ![p].status = IF plgPlugin[p].retiring THEN @ ELSE status]
    BY DEF Host!WatchExit
  <2> DEFINE w == [plgPlugin[p] EXCEPT !.exited = TRUE,
               !.status = IF plgPlugin[p].retiring THEN @ ELSE status]
  <2>2. plgPlugin[p] \in HostPlugin /\ plgPlugin[p].status # "unused"
    BY DEF HostIInv, HostTyped, HostPlugin, UnusedIsUnknown, Host!WatchExit
  <2>3. GoesOnAs(p, w)
    BY <2>2 DEF GoesOnAs, HostPlugin
  <2>4. plgPlugin' = [plgPlugin EXCEPT ![p] = w]
    BY <2>1
  <2> HIDE DEF w
  <2> QED
    BY <2>3, <2>4, PluginMoves
<1>4. HostIInv'
  BY <1>1, <1>2, <1>3, GenerationKept
<1>5. EndIsForGood
  BY <1>2, <1>3 DEF EndIsForGood, CallsEnd
<1> QED
  BY <1>4, <1>5

(* A plugin that is used is running or degraded: checkHealth.              *)
LEMMA checkHealthHost ==
  ASSUME HostIInv, NEW p \in HostPlugins, Host!checkHealth(p)
  PROVE  HostIInv' /\ EndIsForGood
<1>1. UNCHANGED <<plgGeneration, plgClosed, plgLifecycle>>
  BY DEF Host!checkHealth
<1>2. CallsEnd
  BY CallsKept DEF Host!checkHealth
<1>3. PluginsGoOn /\ \A q \in HostPlugins : plgPlugin[q].status \in {"failed", "stopped"}
        => plgPlugin'[q].status \in {"failed", "stopped"}
  BY DEF HostIInv, HostTyped, HostPlugin, UnusedIsUnknown, PluginsGoOn, Host!checkHealth
<1>4. HostIInv'
  BY <1>1, <1>2, <1>3, GenerationKept
<1>5. EndIsForGood
  BY <1>2, <1>3 DEF EndIsForGood, CallsEnd
<1> QED
  BY <1>4, <1>5

(* A call acquires a plugin that was published, and not one that is        *)
(* retiring or has ended: acquire.                                         *)
LEMMA acquireHost ==
  ASSUME HostIInv, NEW c \in HostCalls, NEW p \in HostPlugins, Host!acquire(c, p)
  PROVE  HostIInv' /\ EndIsForGood
<1> DEFINE at == IF plgPlugin[p].retiring \/ plgPlugin[p].status \in {"failed", "stopped"}
                 THEN "returned" ELSE "acquired"
           w == [plgCall[c] EXCEPT !.plugin = p, !.at = at, !.result = "error"]
<1>1. /\ UNCHANGED <<plgGeneration, plgClosed, plgLifecycle, plgPlugin>>
      /\ plgPlugin[p].status # "unused" /\ plgLifecycle.staged # p /\ plgCall[c].at = "idle"
  BY DEF Host!acquire
<1>2. at \in {"acquired", "returned"} /\ (at = "acquired" => ~plgPlugin[p].retiring)
  OBVIOUS
<1>3. plgCall' = [plgCall EXCEPT ![c] = w]
  BY DEF Host!acquire
<1> HIDE DEF at
<1>4. w \in HostCall /\ w.plugin = p /\ w.at = at
  BY <1>2 DEF HostIInv, HostTyped, HostCall
<1> HIDE DEF w
<1>5. /\ plgCall' \in [HostCalls -> HostCall] /\ plgCall'[c].plugin = p /\ plgCall'[c].at = at
      /\ \A d \in HostCalls : d # c => plgCall'[d] = plgCall[d]
  BY <1>3, <1>4 DEF HostIInv, HostTyped
<1>6. HostTyped'
  BY <1>1, <1>2, <1>5 DEF HostIInv, HostTyped
<1>7. UnusedIsUnknown'
  BY <1>1, <1>5 DEF HostIInv, UnusedIsUnknown
<1>8. StagedIsNew' /\ OldIsOut'
  BY <1>1 DEF HostIInv, StagedIsNew, OldIsOut, Retires
<1>9. ClosedHasDrained'
  BY <1>1, <1>2, <1>5 DEF HostIInv, OldIsOut, ClosedHasDrained
<1>10. EndIsForGood
  BY <1>1, <1>2, <1>5 DEF EndIsForGood, InUse
<1> QED
  BY <1>6, <1>7, <1>8, <1>9, <1>10 DEF HostIInv

(* A reload takes lifecycleMu: Reload.                                     *)
LEMMA ReloadHost ==
  ASSUME HostIInv, Host!Reload
  PROVE  HostIInv' /\ EndIsForGood
<1>1. /\ UNCHANGED <<plgGeneration, plgClosed, plgCall, plgPlugin>>
      /\ plgLifecycle.at = "idle" /\ ~plgClosed
      /\ \E p \in HostPlugins : plgPlugin[p].status = "unused"
  BY DEF Host!Reload
<1>2. /\ plgLifecycle' \in HostLifecycle /\ plgLifecycle'.at = "staging"
      /\ plgLifecycle'.staged = None /\ plgLifecycle'.old = None
      /\ ~plgLifecycle'.expired
  BY DEF HostLifecycle, Host!NoLifecycle, Host!Reload
<1>5. HostTyped'
  BY <1>1, <1>2, HostAssumption DEF HostIInv, HostTyped
<1>6. UnusedIsUnknown'
  BY <1>1, <1>2, HostAssumption DEF HostIInv, HostTyped, UnusedIsUnknown
<1>7. StagedIsNew'
  BY <1>1, <1>2 DEF StagedIsNew
<1>8. OldIsOut'
  BY <1>1, <1>2 DEF HostIInv, OldIsOut, Retires
<1>9. ClosedHasDrained'
  BY <1>2 DEF ClosedHasDrained
<1>10. EndIsForGood
  BY <1>1, <1>2 DEF EndIsForGood
<1> QED
  BY <1>5, <1>6, <1>7, <1>8, <1>9, <1>10 DEF HostIInv

(* Plugins that do not go together are retired before anyone has them:     *)
(* stage.                                                                  *)
LEMMA StagingFailsHost ==
  ASSUME HostIInv, Host!StagingFails
  PROVE  HostIInv' /\ EndIsForGood
<1>1. /\ UNCHANGED <<plgGeneration, plgClosed, plgCall>>
      /\ plgLifecycle.at = "publishing"
  BY DEF Host!StagingFails
<1>2. /\ plgLifecycle' \in HostLifecycle /\ plgLifecycle'.at = "idle"
      /\ plgLifecycle'.staged = None /\ plgLifecycle'.old = None
      /\ ~plgLifecycle'.expired
  BY DEF HostLifecycle, Host!NoLifecycle, Host!StagingFails
<1>3. plgLifecycle.staged \in HostPlugins /\ plgPlugin[plgLifecycle.staged].status # "unused"
        /\ plgLifecycle.staged # plgGeneration /\ ~plgPlugin[plgLifecycle.staged].retiring
  BY <1>1 DEF HostIInv, UnusedIsUnknown, StagedIsNew
<1>4. /\ plgPlugin' \in [HostPlugins -> HostPlugin]
      /\ \A q \in HostPlugins : q # plgLifecycle.staged => plgPlugin'[q] = plgPlugin[q]
      /\ plgPlugin'[plgLifecycle.staged].status = "stopped"
      /\ plgPlugin'[plgLifecycle.staged].retiring
      /\ plgPlugin'[plgLifecycle.staged].closing <=> plgPlugin[plgLifecycle.staged].closing
  <2> DEFINE p == plgLifecycle.staged
             w == [plgPlugin[p] EXCEPT !.status = "stopped", !.terminated = TRUE,
               !.exited = TRUE, !.retiring = TRUE, !.alive = FALSE]
  <2>1. plgPlugin[p] \in HostPlugin
    BY <1>3 DEF HostIInv, HostTyped
  <2>2. /\ w \in HostPlugin
        /\ w.status = "stopped"
        /\ w.retiring
        /\ w.closing <=> plgPlugin[p].closing
    BY <2>1 DEF HostPlugin
  <2>3. plgPlugin' = [plgPlugin EXCEPT ![p] = w]
    BY DEF Host!StagingFails
  <2> HIDE DEF w
  <2> QED
    BY <1>3, <2>2, <2>3 DEF HostIInv, HostTyped
<1>5. HostTyped'
  BY <1>1, <1>2, <1>4 DEF HostIInv, HostTyped
<1>6. UnusedIsUnknown'
  BY <1>1, <1>2, <1>4, HostAssumption DEF HostIInv, UnusedIsUnknown
<1>7. StagedIsNew'
  BY <1>2 DEF StagedIsNew
<1>8. OldIsOut'
  BY <1>1, <1>2, <1>4 DEF HostIInv, HostTyped, StagedIsNew, OldIsOut, Retires
<1>9. ClosedHasDrained'
  BY <1>2 DEF ClosedHasDrained
<1>10. EndIsForGood
  BY <1>1, <1>2, <1>3, <1>4 DEF EndIsForGood
<1> QED
  BY <1>5, <1>6, <1>7, <1>8, <1>9, <1>10 DEF HostIInv

(* The manager closes with the generation that is published in its hands:  *)
(* Close.                                                                  *)
LEMMA CloseManagerHost ==
  ASSUME HostIInv, Host!CloseManager
  PROVE  HostIInv' /\ EndIsForGood
<1>1. /\ UNCHANGED <<plgGeneration, plgCall, plgPlugin>>
      /\ plgLifecycle.at = "idle" /\ ~plgClosed /\ plgClosed'
  BY DEF Host!CloseManager
<1>2. /\ plgLifecycle' \in HostLifecycle /\ plgLifecycle'.staged = None
      /\ plgLifecycle'.old = plgGeneration
      /\ plgGeneration = None => plgLifecycle'.at = "idle"
      /\ plgGeneration # None => plgLifecycle'.at = "retiring"
  BY DEF HostIInv, HostTyped, HostLifecycle, Host!NoLifecycle, Host!CloseManager
<1>5. HostTyped'
  BY <1>1, <1>2, HostAssumption DEF HostIInv, HostTyped
<1>6. UnusedIsUnknown'
  BY <1>1, <1>2, HostAssumption DEF HostIInv, HostTyped, UnusedIsUnknown
<1>7. StagedIsNew'
  BY <1>2 DEF StagedIsNew
<1>8. OldIsOut'
  BY <1>1, <1>2 DEF HostIInv, HostTyped, OldIsOut, Retires
<1>9. ClosedHasDrained'
  BY <1>2 DEF ClosedHasDrained
<1>10. EndIsForGood
  BY <1>1, <1>2 DEF EndIsForGood
<1> QED
  BY <1>5, <1>6, <1>7, <1>8, <1>9, <1>10 DEF HostIInv

(* What was published before is retiring, and no call acquires it: retire. *)
LEMMA RetireBeginsHost ==
  ASSUME HostIInv, Host!RetireBegins
  PROVE  HostIInv' /\ EndIsForGood
<1>1. /\ UNCHANGED <<plgGeneration, plgClosed, plgCall>>
      /\ plgLifecycle.at = "retiring"
  BY DEF Host!RetireBegins
<1>2. /\ plgLifecycle' \in HostLifecycle /\ plgLifecycle'.at = "draining"
      /\ plgLifecycle'.staged = None /\ plgLifecycle'.old = plgLifecycle.old
  BY DEF HostIInv, HostTyped, HostLifecycle, StagedIsNew, Host!RetireBegins
<1>3. plgLifecycle.old \in HostPlugins /\ plgPlugin[plgLifecycle.old].status # "unused"
        /\ (plgLifecycle.old # plgGeneration \/ plgClosed)
  BY <1>1 DEF HostIInv, UnusedIsUnknown, OldIsOut, Retires
<1>4. /\ plgPlugin' \in [HostPlugins -> HostPlugin]
      /\ \A q \in HostPlugins : q # plgLifecycle.old => plgPlugin'[q] = plgPlugin[q]
      /\ plgPlugin'[plgLifecycle.old].status = plgPlugin[plgLifecycle.old].status
      /\ plgPlugin'[plgLifecycle.old].retiring
      /\ plgPlugin'[plgLifecycle.old].closing <=> plgPlugin[plgLifecycle.old].closing
  <2> DEFINE p == plgLifecycle.old
             w == [plgPlugin[p] EXCEPT !.retiring = TRUE]
  <2>1. plgPlugin[p] \in HostPlugin
    BY <1>3 DEF HostIInv, HostTyped
  <2>2. /\ w \in HostPlugin
        /\ w.status = plgPlugin[p].status
        /\ w.retiring
        /\ w.closing <=> plgPlugin[p].closing
    BY <2>1 DEF HostPlugin
  <2>3. plgPlugin' = [plgPlugin EXCEPT ![p] = w]
    BY DEF Host!RetireBegins
  <2> HIDE DEF w
  <2> QED
    BY <1>3, <2>2, <2>3 DEF HostIInv, HostTyped
<1>5. HostTyped'
  BY <1>1, <1>2, <1>4 DEF HostIInv, HostTyped
<1>6. UnusedIsUnknown'
  BY <1>1, <1>2, <1>4, HostAssumption DEF HostIInv, UnusedIsUnknown
<1>7. StagedIsNew'
  BY <1>2 DEF StagedIsNew
<1>8. OldIsOut'
  BY <1>1, <1>2, <1>4 DEF HostIInv, HostTyped, OldIsOut, Retires
<1>9. ClosedHasDrained'
  BY <1>2 DEF ClosedHasDrained
<1>10. EndIsForGood
  BY <1>1, <1>2, <1>3, <1>4 DEF EndIsForGood
<1> QED
  BY <1>5, <1>6, <1>7, <1>8, <1>9, <1>10 DEF HostIInv

(* The drain or the close takes too long: retire.                          *)
LEMMA DeadlinePassesHost ==
  ASSUME HostIInv, Host!DeadlinePasses
  PROVE  HostIInv' /\ EndIsForGood
<1>1. /\ UNCHANGED <<plgGeneration, plgClosed, plgCall, plgPlugin>>
      /\ plgLifecycle.at \in {"draining", "closing"}
  BY DEF Host!DeadlinePasses
<1>2. /\ plgLifecycle' \in HostLifecycle /\ plgLifecycle'.at = plgLifecycle.at
      /\ plgLifecycle'.staged = None /\ plgLifecycle'.old = plgLifecycle.old
      /\ plgLifecycle'.expired
  BY DEF HostIInv, HostTyped, HostLifecycle, StagedIsNew, Host!DeadlinePasses
<1>5. HostTyped'
  BY <1>1, <1>2, HostAssumption DEF HostIInv, HostTyped
<1>6. UnusedIsUnknown'
  BY <1>1, <1>2, HostAssumption DEF HostIInv, HostTyped, UnusedIsUnknown
<1>7. StagedIsNew'
  BY <1>1, <1>2 DEF StagedIsNew
<1>8. OldIsOut'
  BY <1>1, <1>2 DEF HostIInv, OldIsOut, Retires
<1>9. ClosedHasDrained'
  BY <1>2 DEF ClosedHasDrained
<1>10. EndIsForGood
  BY <1>1, <1>2 DEF EndIsForGood
<1> QED
  BY <1>5, <1>6, <1>7, <1>8, <1>9, <1>10 DEF HostIInv

(* A plugin is closed when its calls have drained, or at the deadline:     *)
(* retire.                                                                 *)
LEMMA RetireClosesHost ==
  ASSUME HostIInv, Host!RetireCloses
  PROVE  HostIInv' /\ EndIsForGood
<1>1. /\ UNCHANGED <<plgGeneration, plgClosed, plgCall>>
      /\ plgLifecycle.at = "draining"
      /\ plgLifecycle.expired \/ \A c \in HostCalls : ~(plgCall[c].plugin = plgLifecycle.old
           /\ InUse(plgCall[c].at))
  BY DEF Host!RetireCloses, Host!ActiveCalls, InUse
<1>2. /\ plgLifecycle' \in HostLifecycle /\ plgLifecycle'.at = "closing"
      /\ plgLifecycle'.staged = None /\ plgLifecycle'.old = plgLifecycle.old
      /\ plgLifecycle'.expired <=> plgLifecycle.expired
  BY DEF HostIInv, HostTyped, HostLifecycle, StagedIsNew, Host!RetireCloses
<1>3. plgLifecycle.old \in HostPlugins /\ plgPlugin[plgLifecycle.old].status # "unused"
        /\ plgPlugin[plgLifecycle.old].retiring
  BY <1>1 DEF HostIInv, UnusedIsUnknown, OldIsOut, Retires
<1>4. /\ plgPlugin' \in [HostPlugins -> HostPlugin]
      /\ \A q \in HostPlugins : q # plgLifecycle.old => plgPlugin'[q] = plgPlugin[q]
      /\ plgPlugin'[plgLifecycle.old].status = plgPlugin[plgLifecycle.old].status
      /\ plgPlugin'[plgLifecycle.old].retiring <=> plgPlugin[plgLifecycle.old].retiring
      /\ plgPlugin'[plgLifecycle.old].closing
  <2> DEFINE p == plgLifecycle.old
             w == [plgPlugin[p] EXCEPT !.closing = TRUE]
  <2>1. plgPlugin[p] \in HostPlugin
    BY <1>3 DEF HostIInv, HostTyped
  <2>2. /\ w \in HostPlugin
        /\ w.status = plgPlugin[p].status
        /\ w.retiring <=> plgPlugin[p].retiring
        /\ w.closing
    BY <2>1 DEF HostPlugin
  <2>3. plgPlugin' = [plgPlugin EXCEPT ![p] = w]
    BY DEF Host!RetireCloses
  <2> HIDE DEF w
  <2> QED
    BY <1>3, <2>2, <2>3 DEF HostIInv, HostTyped
<1>5. HostTyped'
  BY <1>1, <1>2, <1>4 DEF HostIInv, HostTyped
<1>6. UnusedIsUnknown'
  BY <1>1, <1>2, <1>4, HostAssumption DEF HostIInv, UnusedIsUnknown
<1>7. StagedIsNew'
  BY <1>2 DEF StagedIsNew
<1>8. OldIsOut'
  BY <1>1, <1>2, <1>4 DEF HostIInv, HostTyped, OldIsOut, Retires
<1>9. ClosedHasDrained'
  BY <1>1, <1>2 DEF ClosedHasDrained, InUse
<1>10. EndIsForGood
  BY <1>1, <1>2, <1>3, <1>4 DEF EndIsForGood
<1> QED
  BY <1>5, <1>6, <1>7, <1>8, <1>9, <1>10 DEF HostIInv

(* A plugin that was closed is stopped: retire.                            *)
LEMMA RetireEndsHost ==
  ASSUME HostIInv, Host!RetireEnds
  PROVE  HostIInv' /\ EndIsForGood
<1>1. /\ UNCHANGED <<plgGeneration, plgClosed, plgCall>>
      /\ plgLifecycle.at = "closing"
  BY DEF Host!RetireEnds
<1>2. /\ plgLifecycle' \in HostLifecycle /\ plgLifecycle'.at = "idle"
      /\ plgLifecycle'.staged = None /\ plgLifecycle'.old = None
      /\ ~plgLifecycle'.expired
  BY DEF HostLifecycle, Host!NoLifecycle, Host!RetireEnds
<1>3. plgLifecycle.old \in HostPlugins /\ plgPlugin[plgLifecycle.old].status # "unused"
        /\ plgPlugin[plgLifecycle.old].retiring
  BY <1>1 DEF HostIInv, UnusedIsUnknown, OldIsOut, Retires
<1>4. /\ plgPlugin' \in [HostPlugins -> HostPlugin]
      /\ \A q \in HostPlugins : q # plgLifecycle.old => plgPlugin'[q] = plgPlugin[q]
      /\ plgPlugin'[plgLifecycle.old].status = "stopped"
      /\ plgPlugin'[plgLifecycle.old].retiring <=> plgPlugin[plgLifecycle.old].retiring
      /\ plgPlugin'[plgLifecycle.old].closing <=> plgPlugin[plgLifecycle.old].closing
  <2> DEFINE p == plgLifecycle.old
             w == [plgPlugin[p] EXCEPT !.status = "stopped", !.exited = TRUE, !.alive = FALSE,
               !.terminated = TRUE]
  <2>1. plgPlugin[p] \in HostPlugin
    BY <1>3 DEF HostIInv, HostTyped
  <2>2. /\ w \in HostPlugin
        /\ w.status = "stopped"
        /\ w.retiring <=> plgPlugin[p].retiring
        /\ w.closing <=> plgPlugin[p].closing
    BY <2>1 DEF HostPlugin
  <2>3. plgPlugin' = [plgPlugin EXCEPT ![p] = w]
    BY DEF Host!RetireEnds
  <2> HIDE DEF w
  <2> QED
    BY <1>3, <2>2, <2>3 DEF HostIInv, HostTyped
<1>5. HostTyped'
  BY <1>1, <1>2, <1>4 DEF HostIInv, HostTyped
<1>6. UnusedIsUnknown'
  BY <1>1, <1>2, <1>4, HostAssumption DEF HostIInv, UnusedIsUnknown
<1>7. StagedIsNew'
  BY <1>2 DEF StagedIsNew
<1>8. OldIsOut'
  BY <1>1, <1>2, <1>4 DEF HostIInv, HostTyped, OldIsOut, Retires
<1>9. ClosedHasDrained'
  BY <1>2 DEF ClosedHasDrained
<1>10. EndIsForGood
  BY <1>1, <1>2, <1>3, <1>4 DEF EndIsForGood
<1> QED
  BY <1>5, <1>6, <1>7, <1>8, <1>9, <1>10 DEF HostIInv

(* What was staged is published, and what it replaces goes into the same   *)
(* hands: Reload.                                                          *)
LEMMA PublishHost ==
  ASSUME HostIInv, Host!Publish
  PROVE  HostIInv' /\ EndIsForGood
<1>1. /\ UNCHANGED <<plgClosed, plgCall>>
      /\ plgLifecycle.at = "publishing" /\ plgGeneration' = plgLifecycle.staged
  BY DEF Host!Publish
<1>2. /\ plgLifecycle' \in HostLifecycle /\ plgLifecycle'.staged = None
      /\ plgLifecycle'.old = plgGeneration
      /\ plgGeneration = None => plgLifecycle'.at = "idle"
      /\ plgGeneration # None => plgLifecycle'.at = "retiring"
  BY DEF HostIInv, HostTyped, HostLifecycle, Host!NoLifecycle, Host!Publish
<1>3. plgLifecycle.staged \in HostPlugins /\ plgPlugin[plgLifecycle.staged].status # "unused"
        /\ plgLifecycle.staged # plgGeneration /\ ~plgPlugin[plgLifecycle.staged].retiring
  BY <1>1 DEF HostIInv, UnusedIsUnknown, StagedIsNew
<1>4. /\ plgPlugin' \in [HostPlugins -> HostPlugin]
      /\ \A q \in HostPlugins : q # plgLifecycle.staged => plgPlugin'[q] = plgPlugin[q]
      /\ plgPlugin'[plgLifecycle.staged].status # "unused"
      /\ plgPlugin[plgLifecycle.staged].status \in {"failed", "stopped"}
           => plgPlugin'[plgLifecycle.staged].status \in {"failed", "stopped"}
      /\ plgPlugin'[plgLifecycle.staged].retiring <=> plgPlugin[plgLifecycle.staged].retiring
      /\ plgPlugin'[plgLifecycle.staged].closing <=> plgPlugin[plgLifecycle.staged].closing
  <2> DEFINE p == plgLifecycle.staged
             next == IF plgPlugin[p].status = "staged" THEN "running" ELSE plgPlugin[p].status
             w == [plgPlugin[p] EXCEPT !.status = next]
  <2>1. plgPlugin[p] \in HostPlugin
    BY <1>3 DEF HostIInv, HostTyped
  <2>3. plgPlugin' = [plgPlugin EXCEPT ![p] = w]
    BY DEF Host!Publish
  <2>4. /\ next \in {"staged", "running", "degraded", "failed", "stopped"}
        /\ plgPlugin[p].status \in {"failed", "stopped"} => next = plgPlugin[p].status
    BY <1>3, <2>1 DEF HostPlugin
  <2> HIDE DEF next
  <2>2. /\ w \in HostPlugin
        /\ w.status # "unused"
        /\ plgPlugin[p].status \in {"failed", "stopped"} => w.status \in {"failed", "stopped"}
        /\ w.retiring <=> plgPlugin[p].retiring
        /\ w.closing <=> plgPlugin[p].closing
    BY <2>1, <2>4 DEF HostPlugin
  <2> HIDE DEF w
  <2> QED
    BY <1>3, <2>2, <2>3 DEF HostIInv, HostTyped
<1>5. HostTyped'
  BY <1>1, <1>2, <1>3, <1>4 DEF HostIInv, HostTyped
<1>6. UnusedIsUnknown'
  BY <1>1, <1>2, <1>4, HostAssumption DEF HostIInv, UnusedIsUnknown
<1>7. StagedIsNew'
  BY <1>2 DEF StagedIsNew
<1>8. OldIsOut'
  BY <1>1, <1>2, <1>4 DEF HostIInv, HostTyped, StagedIsNew, OldIsOut, Retires
<1>9. ClosedHasDrained'
  BY <1>2 DEF ClosedHasDrained
<1>10. EndIsForGood
  BY <1>1, <1>2, <1>3, <1>4 DEF EndIsForGood
<1> QED
  BY <1>5, <1>6, <1>7, <1>8, <1>9, <1>10 DEF HostIInv

(* A process is started and staged, or its start fails and it is stopped:  *)
(* stage.                                                                  *)
LEMMA StageHost ==
  ASSUME HostIInv, Host!Stage
  PROVE  HostIInv' /\ EndIsForGood
<1> DEFINE p == CHOOSE q \in HostPlugins : plgPlugin[q].status = "unused"
           v == [plgPlugin[p] EXCEPT !.status = "staged", !.alive = TRUE]
           w == [plgPlugin[p] EXCEPT !.status = "stopped", !.terminated = TRUE,
             !.exited = TRUE, !.retiring = TRUE]
<1>1. UNCHANGED <<plgGeneration, plgClosed, plgCall>> /\ plgLifecycle.at = "staging"
  BY DEF Host!Stage
<1>2. p \in HostPlugins /\ plgPlugin[p].status = "unused"
  BY <1>1 DEF HostIInv, StagedIsNew
<1>3. \/ plgPlugin' = [plgPlugin EXCEPT ![p] = v]
           /\ plgLifecycle' = [plgLifecycle EXCEPT !.at = "publishing", !.staged = p]
      \/ plgPlugin' = [plgPlugin EXCEPT ![p] = w] /\ plgLifecycle' = Host!NoLifecycle
  BY DEF Host!Stage
<1>4. plgPlugin[p] \in HostPlugin
  BY <1>2 DEF HostIInv, HostTyped
<1>5. v \in HostPlugin /\ v.status = "staged" /\ (v.retiring <=> plgPlugin[p].retiring)
        /\ (v.closing <=> plgPlugin[p].closing)
  BY <1>4 DEF HostPlugin
<1>6. w \in HostPlugin /\ w.status = "stopped" /\ w.retiring /\ (w.closing
        <=> plgPlugin[p].closing)
  BY <1>4 DEF HostPlugin
<1>7. plgGeneration # p /\ plgLifecycle.old # p /\ ~plgPlugin[p].retiring
        /\ ~plgPlugin[p].closing /\ ~plgClosed /\ plgLifecycle.old = None
  BY <1>1 DEF HostIInv, UnusedIsUnknown, StagedIsNew, OldIsOut, Retires
<1> HIDE DEF p, v, w
<1>8. /\ plgPlugin' \in [HostPlugins -> HostPlugin] /\ plgPlugin'[p] \in {v, w}
      /\ \A q \in HostPlugins : q # p => plgPlugin'[q] = plgPlugin[q]
  BY <1>2, <1>3, <1>5, <1>6 DEF HostIInv, HostTyped
<1>9. /\ plgLifecycle' \in HostLifecycle /\ plgLifecycle'.old = None
      /\ \/ plgLifecycle'.at = "publishing" /\ plgLifecycle'.staged = p /\ plgPlugin'[p] = v
         \/ plgLifecycle'.at = "idle" /\ plgLifecycle'.staged = None
  <2>1. CASE plgPlugin' = [plgPlugin EXCEPT ![p] = v]
               /\ plgLifecycle' = [plgLifecycle EXCEPT !.at = "publishing", !.staged = p]
    <3>1. plgPlugin'[p] = v
      BY <1>2, <2>1 DEF HostIInv, HostTyped
    <3>2. /\ plgLifecycle' \in HostLifecycle /\ plgLifecycle'.old = None
          /\ plgLifecycle'.at = "publishing" /\ plgLifecycle'.staged = p
      BY <1>2, <1>7, <2>1 DEF HostIInv, HostTyped, HostLifecycle
    <3> QED
      BY <3>1, <3>2
  <2>2. CASE plgLifecycle' = Host!NoLifecycle
    BY <2>2 DEF HostLifecycle, Host!NoLifecycle
  <2> QED
    BY <1>3, <2>1, <2>2
<1>10. HostTyped'
  BY <1>1, <1>8, <1>9 DEF HostIInv, HostTyped
<1>11. UnusedIsUnknown'
  BY <1>1, <1>5, <1>6, <1>8, <1>9, HostAssumption DEF HostIInv, UnusedIsUnknown
<1>12. StagedIsNew'
  BY <1>1, <1>2, <1>5, <1>7, <1>9 DEF StagedIsNew
<1>13. OldIsOut'
  BY <1>1, <1>5, <1>6, <1>7, <1>8, <1>9 DEF HostIInv, HostTyped, OldIsOut, Retires
<1>14. ClosedHasDrained'
  BY <1>9 DEF ClosedHasDrained
<1>15. EndIsForGood
  BY <1>1, <1>2, <1>8 DEF EndIsForGood
<1> QED
  BY <1>10, <1>11, <1>12, <1>13, <1>14, <1>15 DEF HostIInv

(* The manager starts with a reload and no process.                        *)
LEMMA HostInit ==
  ASSUME Host!Init
  PROVE  HostIInv
<1>1. HostTyped
  BY DEF Host!Init, HostTyped, HostPlugin, HostCall, HostLifecycle, Host!NoLifecycle
<1>2. /\ \A p \in HostPlugins : plgPlugin[p].status = "unused" /\ ~plgPlugin[p].alive
           /\ ~plgPlugin[p].terminated
                            /\ ~plgPlugin[p].retiring /\ ~plgPlugin[p].closing
      /\ \A c \in HostCalls : plgCall[c].plugin = None
      /\ plgGeneration = None /\ ~plgClosed
      /\ plgLifecycle.at = "staging" /\ plgLifecycle.staged = None /\ plgLifecycle.old = None
  BY DEF Host!Init, Host!NoLifecycle
<1> QED
  BY <1>1, <1>2, HostAssumption DEF HostIInv, UnusedIsUnknown, StagedIsNew, OldIsOut,
     Retires, ClosedHasDrained

(* Every step keeps the invariant and the end of every plugin.             *)
LEMMA HostNext ==
  ASSUME HostIInv, Host!Next
  PROVE  HostIInv' /\ EndIsForGood
BY acquireHost, RegisterHost, WriteHost, CancelHost, ReturnHost, RunEndsHost,
   PluginAnswersHost, PluginReportsHost, PluginDiesHost, ReadMessageHost,
   ReportProgressHost, TerminateHost, WatchExitHost, checkHealthHost, ReloadHost, StageHost,
   StagingFailsHost, PublishHost, CloseManagerHost, RetireBeginsHost, DeadlinePassesHost,
   RetireClosesHost, RetireEndsHost DEF Host!Next

(* The invariant is kept.                                                  *)
LEMMA HostStep ==
  ASSUME HostIInv, [Host!Next]_plgVars
  PROVE  HostIInv'
<1>1. CASE UNCHANGED plgVars
  BY <1>1, GenerationKept, CallsKept, PluginsKept DEF plgVars
<1> QED
  BY <1>1, HostNext

(* Every step is one that RetiresForGood allows.                           *)
LEMMA HostRetires ==
  ASSUME HostIInv, Host!Next
  PROVE  Host!RetiresForGood
<1>1. HostIInv' /\ EndIsForGood
  BY HostNext
<1>2. \A p \in HostPlugins :
        /\ plgPlugin[p].status \in {"failed", "stopped"}
             => plgPlugin'[p].status \in {"failed", "stopped"}
        /\ plgPlugin[p].retiring => Host!ActiveCalls(p)' \subseteq Host!ActiveCalls(p)
  BY <1>1 DEF EndIsForGood, InUse, Host!ActiveCalls
<1>3. \A p \in HostPlugins : plgLifecycle'.old = p /\ plgPlugin'[p].closing
        /\ ~plgLifecycle'.expired => Host!ActiveCalls(p)' = {}
  <2> SUFFICES ASSUME NEW p \in HostPlugins, plgLifecycle'.old = p, plgPlugin'[p].closing,
                      ~plgLifecycle'.expired
               PROVE  Host!ActiveCalls(p)' = {}
    OBVIOUS
  <2>1. plgLifecycle'.at = "closing"
    BY <1>1, HostAssumption DEF HostIInv, OldIsOut, Retires
  <2> QED
    BY <1>1, <2>1 DEF HostIInv, ClosedHasDrained, Host!ActiveCalls
<1>4. plgGeneration' # None /\ ~plgClosed' => ~plgPlugin'[plgGeneration'].retiring
  BY <1>1 DEF HostIInv, OldIsOut
<1> QED
  BY <1>2, <1>3, <1>4 DEF Host!RetiresForGood

-----------------------------------------------------------------------------
(* The component that moves keeps its invariant; the others do not move.   *)
OwnershipIInv ==
  /\ machine = "daemon" => DaemonIInv
  /\ machine = "service" => ServiceIInv
  /\ machine = "plugins" => HostIInv

(* One component moves at a time: a step of the group is a step of it.     *)
LEMMA OwnershipInitially == OwnershipInit => OwnershipIInv
BY DaemonInit, ServiceInit, HostInit DEF OwnershipInit, OwnershipIInv

(* No step of any component breaks it, and machine stays what it is.       *)
LEMMA OwnershipStep ==
  ASSUME OwnershipIInv, [OwnershipNext]_<<machine, ownershipVars>>
  PROVE  OwnershipIInv'
<1>1. machine' = machine
  BY DEF OwnershipNext
<1>2. CASE machine = "daemon"
  <2>1. [Daemon!Next]_dmnVars
    BY <1>2 DEF OwnershipNext, ownershipVars
  <2> QED
    BY <1>1, <1>2, <2>1, DaemonStep DEF OwnershipIInv
<1>3. CASE machine = "service"
  <2>1. [Service!Next]_svcVars
    BY <1>3 DEF OwnershipNext, ownershipVars
  <2> QED
    BY <1>1, <1>3, <2>1, ServiceStep DEF OwnershipIInv
<1>4. CASE machine = "plugins"
  <2>1. [Host!Next]_plgVars
    BY <1>4 DEF OwnershipNext, ownershipVars
  <2> QED
    BY <1>1, <1>4, <2>1, HostStep DEF OwnershipIInv
<1> QED
  BY <1>1, <1>2, <1>3, <1>4 DEF OwnershipIInv

(* The daemon that clients find is the one that owns the state directory,  *)
(* and its store closes after its work; as a service it is the one that    *)
(* the commands have installed (runServe, Close, runLinuxStart,            *)
(* installRelease), for any number of processes, clients and commands.     *)
THEOREM DaemonIsAlwaysOwner == OwnershipSpec => []DaemonIsOwner
<1>1. OwnershipIInv => DaemonIsOwner
  BY DaemonSafe, ServiceSafe DEF OwnershipIInv, DaemonIsOwner
<1> QED
  BY <1>1, OwnershipInitially, OwnershipStep, PTL DEF OwnershipSpec

(* A plugin that has been retired is never used again, and is not stopped  *)
(* under a call before its deadline (acquire, retire, checkHealth), for    *)
(* any number of plugins and calls.                                        *)
THEOREM PluginsAreRetiredForGood == OwnershipSpec => RetiredForGood
<1>1. OwnershipIInv /\ [OwnershipNext]_<<machine, ownershipVars>>
        => [machine = "plugins" => Host!RetiresForGood]_<<machine, ownershipVars>>
  <2> SUFFICES ASSUME OwnershipIInv, OwnershipNext, machine = "plugins"
               PROVE  Host!RetiresForGood
    OBVIOUS
  <2>1. Host!Next
    BY DEF OwnershipNext
  <2> QED
    BY <2>1, HostRetires DEF OwnershipIInv
<1> QED
  BY <1>1, OwnershipInitially, OwnershipStep, PTL DEF OwnershipSpec, RetiredForGood

-----------------------------------------------------------------------------
(* ProviderCredentials. Whoever holds the mutex has read a token that the  *)
(* issuer still takes, and an attempt holds one that nobody else has seen  *)
(* until it stores it.                                                     *)

(* The values of the state: an OAuth entry came from an attempt and holds  *)
(* a token that was handed out.                                            *)
OAuthEntry == [type : {"oauth"}, refresh : Nat \ {0}, unexpired : BOOLEAN, by : LoginAttempts]

(* The row as it can be read.                                              *)
Entry == {Credentials!NoEntry, Credentials!Key} \cup OAuthEntry

(* An attempt, its worker and the token that this has been given.          *)
Attempt == [status : {"none", "pending", "completed", "failed", "cancelled"},
            worker : {"none", "opening", "waiting", "exchanging", "saving"}, held : Nat]

(* The types of the state.                                                 *)
CredentialsTyped ==
  /\ crdStored \in Entry
  /\ crdAttempt \in [LoginAttempts -> Attempt]
  /\ crdRefresher \in [TokenRefreshers -> [at : {"idle", "asking", "saving"}, read : Entry]]
  /\ crdWriter \in [TokenWriters -> [at : {"idle", "other", "key", "delete"}, read : Entry]]
  /\ crdIssued \in Nat /\ crdSpent \in SUBSET Nat
  /\ crdDisturbed \in BOOLEAN /\ crdReused \in BOOLEAN

(* Whoever is saving holds the mutex, and an attempt that does is pending. *)
MutexHeld ==
  /\ \A a \in LoginAttempts : crdMu = a =>
       crdAttempt[a].worker = "saving" /\ crdAttempt[a].status = "pending"
  /\ \A r \in TokenRefreshers :
       crdRefresher[r].at \in {"asking", "saving"} <=> crdMu = r

(* An entry that is stored, or was read, is of an attempt that completed   *)
(* and holds a token the issuer handed out.                                *)
Consented(entry) ==
  /\ entry.by \in LoginAttempts => crdAttempt[entry.by].status = "completed"
  /\ entry.refresh <= crdIssued

(* That holds of whatever is stored, or is held by a refresh or a request. *)
AllConsented ==
  /\ Consented(crdStored)
  /\ \A r \in TokenRefreshers : Consented(crdRefresher[r].read)
  /\ \A w \in TokenWriters : Consented(crdWriter[w].read)

(* Only tokens that were handed out are replaced; what a refresh is about  *)
(* to save is not, and neither is what it sends unless a request disturbed *)
(* it.                                                                     *)
TokensOfRefresh ==
  /\ \A t \in crdSpent : t \in 1..crdIssued
  /\ \A r \in TokenRefreshers :
       /\ crdRefresher[r].at \in {"asking", "saving"} => crdRefresher[r].read.type = "oauth"
       /\ crdRefresher[r].at = "saving" => crdRefresher[r].read.refresh \notin crdSpent
       /\ crdRefresher[r].at = "asking" /\ ~crdDisturbed =>
            crdRefresher[r].read.refresh \notin crdSpent

(* The attempts whose worker has a token to save.                          *)
Saving == {a \in LoginAttempts : crdAttempt[a].worker = "saving"}

(* It was handed out, and nothing that is stored or was read holds it.     *)
Fresh(t) ==
  /\ t \in 1..crdIssued /\ t \notin crdSpent /\ t # crdStored.refresh
  /\ \A r \in TokenRefreshers : t # crdRefresher[r].read.refresh
  /\ \A w \in TokenWriters : t # crdWriter[w].read.refresh

(* The token of an attempt that has not saved it is nowhere else, and two  *)
(* attempts hold two tokens.                                               *)
HeldIsFresh ==
  /\ \A a \in Saving : Fresh(crdAttempt[a].held)
  /\ \A a, b \in Saving : crdAttempt[a].held = crdAttempt[b].held => a = b

(* The inductive invariant of the row and of all that hold what they read  *)
(* of it.                                                                  *)
CredentialsIInv ==
  /\ CredentialsTyped /\ MutexHeld /\ AllConsented /\ TokensOfRefresh /\ HeldIsFresh
  /\ Credentials!OneAttemptPending /\ Credentials!TokensSpentOnce

(* An id is of one kind only.                                              *)
LEMMA CredentialIds ==
  /\ "free" \notin LoginAttempts /\ "free" \notin TokenRefreshers /\ "nobody" \notin LoginAttempts
  /\ \A a \in LoginAttempts : a \notin TokenRefreshers
BY CredentialsAssumption

(* What the fields of an entry hold, by its type.                          *)
LEMMA EntryFields ==
  /\ Credentials!NoEntry \in Entry /\ Credentials!Key \in Entry
  /\ Credentials!NoEntry.refresh = 0 /\ Credentials!Key.refresh = 0
  /\ Credentials!NoEntry.by \notin LoginAttempts /\ Credentials!Key.by \notin LoginAttempts
  /\ \A e \in Entry : /\ e.refresh \in Nat
                      /\ e.type = "oauth" => e \in OAuthEntry
                      /\ e.unexpired => e \in OAuthEntry
<1>1. /\ Credentials!NoEntry.refresh = 0 /\ Credentials!Key.refresh = 0
      /\ Credentials!NoEntry.by = "nobody" /\ Credentials!Key.by = "nobody"
      /\ Credentials!NoEntry.type = "none" /\ Credentials!Key.type = "api_key"
      /\ Credentials!NoEntry.unexpired = FALSE /\ Credentials!Key.unexpired = FALSE
  BY DEF Credentials!NoEntry, Credentials!Key
<1>2. \A e \in OAuthEntry : e.refresh \in Nat
  BY DEF OAuthEntry
<1> QED
  BY <1>1, <1>2, CredentialIds DEF Entry

(* There is no entry, and nobody asks for one.                             *)
LEMMA CredentialsInit == Credentials!Init => CredentialsIInv
<1> SUFFICES ASSUME Credentials!Init PROVE CredentialsIInv
  OBVIOUS
<1>1. CredentialsTyped
  BY EntryFields DEF Credentials!Init, CredentialsTyped, Attempt
<1>2. MutexHeld
  BY CredentialIds DEF Credentials!Init, MutexHeld
<1>3. AllConsented
  BY EntryFields DEF Credentials!Init, AllConsented, Consented
<1>4. TokensOfRefresh /\ HeldIsFresh
  BY DEF Credentials!Init, TokensOfRefresh, HeldIsFresh, Saving
<1>5. Credentials!OneAttemptPending /\ Credentials!TokensSpentOnce
  BY DEF Credentials!Init, Credentials!OneAttemptPending, Credentials!Pending,
     Credentials!TokensSpentOnce
<1> QED
  BY <1>1, <1>2, <1>3, <1>4, <1>5 DEF CredentialsIInv

(* A step of an attempt that touches neither the row nor what holds it.    *)
LEMMA AttemptMoves ==
  ASSUME CredentialsIInv, NEW a \in LoginAttempts, NEW x \in Attempt,
         crdAttempt' = [crdAttempt EXCEPT ![a] = x], crdMu # a,
         UNCHANGED <<crdStored, crdRefresher, crdWriter, crdMu, crdIssued, crdSpent,
                     crdDisturbed, crdReused>>,
         \/ x.status = crdAttempt[a].status
         \/ crdAttempt[a].status = "pending" /\ x.status # "pending"
         \/ crdAttempt[a].status = "none" /\ Credentials!Pending = {},
         x.worker = "saving" => crdAttempt[a].worker = "saving" /\ x.held = crdAttempt[a].held
  PROVE  CredentialsIInv'
<1>1. \A b \in LoginAttempts : crdAttempt'[b] = IF b = a THEN x ELSE crdAttempt[b]
  BY DEF CredentialsIInv, CredentialsTyped
<1>2. CredentialsTyped'
  BY DEF CredentialsIInv, CredentialsTyped
<1>3. MutexHeld'
  BY <1>1 DEF CredentialsIInv, MutexHeld
<1>4. AllConsented'
  <2>1. \A b \in LoginAttempts :
          crdAttempt[b].status = "completed" => crdAttempt'[b].status = "completed"
    BY <1>1
  <2> QED
    BY <2>1 DEF CredentialsIInv, AllConsented, Consented
<1>5. TokensOfRefresh' /\ Credentials!TokensSpentOnce'
  BY DEF CredentialsIInv, TokensOfRefresh, Credentials!TokensSpentOnce
<1>6. HeldIsFresh'
  <2>1. \A b \in Saving' : b \in Saving /\ crdAttempt'[b].held = crdAttempt[b].held
    BY <1>1 DEF Saving
  <2> QED
    BY <2>1 DEF CredentialsIInv, HeldIsFresh, Fresh
<1>7. Credentials!OneAttemptPending'
  <2>1. \A b \in Credentials!Pending' : b # a => b \in Credentials!Pending
    BY <1>1 DEF Credentials!Pending
  <2>2. a \in Credentials!Pending' => a \in Credentials!Pending \/ Credentials!Pending = {}
    BY <1>1 DEF Credentials!Pending
  <2> QED
    BY <2>1, <2>2 DEF CredentialsIInv, Credentials!OneAttemptPending
<1> QED
  BY <1>2, <1>3, <1>4, <1>5, <1>6, <1>7 DEF CredentialsIInv

(* finish, of an attempt that is not saving under the mutex.               *)
LEMMA AttemptFinishes ==
  ASSUME CredentialsIInv, NEW a \in LoginAttempts, Credentials!finish(a, "failed"), crdMu = "free",
         UNCHANGED <<crdStored, crdRefresher, crdWriter, crdMu, crdIssued, crdSpent,
                     crdDisturbed, crdReused>>
  PROVE  CredentialsIInv'
<1> DEFINE x == [crdAttempt[a] EXCEPT !.worker = "none",
                   !.status = IF crdAttempt[a].status = "pending" THEN "failed"
                              ELSE crdAttempt[a].status]
<1>1. crdAttempt' = [crdAttempt EXCEPT ![a] = x]
  BY DEF Credentials!finish, CredentialsIInv, CredentialsTyped
<1>2. x \in Attempt /\ x.worker = "none"
      /\ x.status = IF crdAttempt[a].status = "pending" THEN "failed" ELSE crdAttempt[a].status
  BY DEF CredentialsIInv, CredentialsTyped, Attempt
<1>3. crdMu # a
  BY CredentialIds
<1> HIDE DEF x
<1> QED
  BY <1>1, <1>2, <1>3, AttemptMoves

(* The steps of an attempt before it is to be saved.                       *)
LEMMA AttemptSteps ==
  ASSUME CredentialsIInv, NEW a \in LoginAttempts,
         \/ Credentials!Start(a) \/ Credentials!Opened(a) \/ Credentials!CodeArrives(a)
         \/ Credentials!AttemptFails(a) \/ Credentials!WorkerStops(a)
         \/ Credentials!CancelAttempt(a)
  PROVE  CredentialsIInv'
<1> USE DEF Credentials!issuer, Credentials!history
<1>1. crdAttempt[a] \in Attempt
  BY DEF CredentialsIInv, CredentialsTyped
<1>2. crdMu = "free" => crdMu # a
  BY CredentialIds
<1>3. crdAttempt[a].worker # "saving" => crdMu # a
  BY DEF CredentialsIInv, MutexHeld
<1>4. CASE Credentials!Start(a)
  <2> DEFINE x == [crdAttempt[a] EXCEPT !.status = "pending", !.worker = "opening"]
  <2>1. crdAttempt' = [crdAttempt EXCEPT ![a] = x]
    BY <1>4 DEF Credentials!Start, CredentialsIInv, CredentialsTyped
  <2>2. x \in Attempt /\ x.worker = "opening" /\ x.status = "pending"
    BY <1>1 DEF Attempt
  <2> HIDE DEF x
  <2> QED
    BY <1>2, <1>4, <2>1, <2>2, AttemptMoves DEF Credentials!Start
<1>5. ASSUME NEW place \in {"none", "waiting", "exchanging"},
             crdAttempt' = [crdAttempt EXCEPT ![a].worker = place],
             crdAttempt[a].worker # "saving",
             UNCHANGED <<crdStored, crdRefresher, crdWriter, crdMu, crdIssued, crdSpent,
                         crdDisturbed, crdReused>>
      PROVE  CredentialsIInv'
  <2> DEFINE x == [crdAttempt[a] EXCEPT !.worker = place]
  <2>1. crdAttempt' = [crdAttempt EXCEPT ![a] = x]
    BY <1>5 DEF CredentialsIInv, CredentialsTyped
  <2>2. x \in Attempt /\ x.worker # "saving" /\ x.status = crdAttempt[a].status
    BY <1>1 DEF Attempt
  <2> HIDE DEF x
  <2> QED
    BY <1>3, <1>5, <2>1, <2>2, AttemptMoves
<1>6. CASE Credentials!Opened(a)
  BY <1>5, <1>6, AttemptFinishes DEF Credentials!Opened
<1>7. CASE Credentials!CodeArrives(a)
  BY <1>5, <1>7 DEF Credentials!CodeArrives
<1>8. CASE Credentials!AttemptFails(a)
  BY <1>8, AttemptFinishes DEF Credentials!AttemptFails
<1>9. CASE Credentials!WorkerStops(a)
  BY <1>5, <1>9 DEF Credentials!WorkerStops
<1>10. CASE Credentials!CancelAttempt(a)
  <2> DEFINE x == [crdAttempt[a] EXCEPT !.status = "cancelled"]
  <2>1. crdAttempt' = [crdAttempt EXCEPT ![a] = x]
    BY <1>10 DEF Credentials!CancelAttempt, CredentialsIInv, CredentialsTyped
  <2>2. /\ x \in Attempt /\ x.worker = crdAttempt[a].worker /\ x.status = "cancelled"
        /\ x.held = crdAttempt[a].held
    BY <1>1 DEF Attempt
  <2> HIDE DEF x
  <2> QED
    BY <1>2, <1>10, <2>1, <2>2, AttemptMoves DEF Credentials!CancelAttempt
<1> QED
  BY <1>4, <1>6, <1>7, <1>8, <1>9, <1>10

(* A code buys a token that nobody has seen.                               *)
LEMMA ExchangeCredentials ==
  ASSUME CredentialsIInv, NEW a \in LoginAttempts, Credentials!Exchange(a)
  PROVE  CredentialsIInv'
<1>n. PICK n : n = crdIssued + 1
  OBVIOUS
<1> DEFINE x == [crdAttempt[a] EXCEPT !.worker = "saving", !.held = n]
<1>1. /\ crdIssued' = n /\ crdAttempt[a].worker = "exchanging"
      /\ UNCHANGED <<crdStored, crdRefresher, crdWriter, crdMu, crdSpent, crdDisturbed, crdReused>>
  BY <1>n DEF Credentials!Exchange, Credentials!history
<1>2. crdAttempt' = [crdAttempt EXCEPT ![a] = x]
  BY <1>n DEF Credentials!Exchange, CredentialsIInv, CredentialsTyped
<1>3. n \in Nat /\ crdIssued \in Nat /\ n = crdIssued + 1
  BY <1>n DEF CredentialsIInv, CredentialsTyped
<1>4. /\ x \in Attempt /\ x.worker = "saving" /\ x.held = n
      /\ x.status = crdAttempt[a].status
  <2>1. crdAttempt[a] \in Attempt /\ n \in Nat
    BY <1>3 DEF CredentialsIInv, CredentialsTyped
  <2> QED
    BY <2>1 DEF Attempt
<1> HIDE DEF x
<1>5. \A b \in LoginAttempts : crdAttempt'[b] = IF b = a THEN x ELSE crdAttempt[b]
  BY <1>2 DEF CredentialsIInv, CredentialsTyped
<1>6. CredentialsTyped'
  BY <1>1, <1>2, <1>3, <1>4 DEF CredentialsIInv, CredentialsTyped
<1>7. MutexHeld'
  BY <1>1, <1>4, <1>5 DEF CredentialsIInv, MutexHeld
<1>8. \A e \in Entry : Consented(e) => e.refresh < n /\ e.refresh \in Nat
  BY <1>3, EntryFields DEF Consented
<1>9. /\ crdStored.refresh < n /\ crdStored.refresh \in Nat
      /\ \A r \in TokenRefreshers :
           crdRefresher[r].read.refresh < n /\ crdRefresher[r].read.refresh \in Nat
      /\ \A w \in TokenWriters :
           crdWriter[w].read.refresh < n /\ crdWriter[w].read.refresh \in Nat
  BY <1>8 DEF CredentialsIInv, CredentialsTyped, AllConsented
<1>10. AllConsented'
  <2>1. \A b \in LoginAttempts : crdAttempt'[b].status = crdAttempt[b].status
    BY <1>4, <1>5
  <2> QED
    BY <1>1, <1>3, <1>9, <2>1 DEF CredentialsIInv, AllConsented, Consented
<1>11. TokensOfRefresh'
  BY <1>1, <1>3 DEF CredentialsIInv, TokensOfRefresh
<1>12. HeldIsFresh'
  <2>1. \A b \in Saving' : b # a => b \in Saving /\ crdAttempt'[b] = crdAttempt[b]
    BY <1>5 DEF Saving
  <2>2. \A b \in Saving : Fresh(crdAttempt[b].held) /\ crdAttempt[b].held \in 1..crdIssued
    BY DEF CredentialsIInv, HeldIsFresh, Fresh
  <2>3. n \notin crdSpent
    BY <1>3 DEF CredentialsIInv, TokensOfRefresh
  <2>4. \A b \in Saving' : b # a => Fresh(crdAttempt[b].held)'
    BY <1>1, <1>3, <2>1, <2>2 DEF Fresh
  <2>5. \A b \in Saving' : b # a => crdAttempt[b].held # n
    BY <1>3, <2>1, <2>2
  <2>6. Fresh(n)'
    BY <1>1, <1>3, <1>9, <2>3 DEF Fresh
  <2>7. \A b \in Saving' : Fresh(crdAttempt[b].held)'
    BY <1>4, <1>5, <2>1, <2>4, <2>6 DEF Fresh
  <2>8. \A b, c \in Saving' : crdAttempt'[b].held = crdAttempt'[c].held => b = c
    BY <1>4, <1>5, <2>1, <2>5 DEF CredentialsIInv, HeldIsFresh, Saving
  <2> QED
    BY <2>7, <2>8 DEF HeldIsFresh, Fresh
<1>13. Credentials!OneAttemptPending'
  <2>1. Credentials!Pending' = Credentials!Pending
    BY <1>4, <1>5 DEF Credentials!Pending
  <2> QED
    BY <2>1 DEF CredentialsIInv, Credentials!OneAttemptPending
<1>14. Credentials!TokensSpentOnce'
  BY <1>1 DEF CredentialsIInv, Credentials!TokensSpentOnce
<1> QED
  BY <1>6, <1>7, <1>10, <1>11, <1>12, <1>13, <1>14 DEF CredentialsIInv

(* complete takes the mutex only for an attempt that is still pending.     *)
LEMMA CompleteLooksCredentials ==
  ASSUME CredentialsIInv, NEW a \in LoginAttempts, Credentials!CompleteLooks(a)
  PROVE  CredentialsIInv'
<1>1. /\ crdAttempt[a].worker = "saving" /\ crdMu = "free"
      /\ UNCHANGED <<crdStored, crdRefresher, crdWriter, crdIssued, crdSpent, crdDisturbed,
                     crdReused>>
  BY DEF Credentials!CompleteLooks, Credentials!issuer, Credentials!history
<1>2. CASE crdAttempt[a].status = "pending"
  <2>1. crdMu' = a /\ crdAttempt' = crdAttempt
    BY <1>2 DEF Credentials!CompleteLooks
  <2>2. MutexHeld'
    BY <1>1, <1>2, <2>1, CredentialIds DEF CredentialsIInv, MutexHeld
  <2> QED
    BY <1>1, <2>1, <2>2 DEF CredentialsIInv, CredentialsTyped, AllConsented, Consented,
       TokensOfRefresh, HeldIsFresh, Fresh, Saving, Credentials!OneAttemptPending,
       Credentials!Pending, Credentials!TokensSpentOnce
<1>3. CASE crdAttempt[a].status # "pending"
  <2> DEFINE x == [crdAttempt[a] EXCEPT !.worker = "none"]
  <2>1. crdAttempt' = [crdAttempt EXCEPT ![a] = x] /\ crdMu' = crdMu
    BY <1>3 DEF Credentials!CompleteLooks, CredentialsIInv, CredentialsTyped
  <2>2. x \in Attempt /\ x.worker = "none" /\ x.status = crdAttempt[a].status
    BY DEF CredentialsIInv, CredentialsTyped, Attempt
  <2>3. crdMu # a
    BY <1>1, CredentialIds
  <2> HIDE DEF x
  <2> QED
    BY <1>1, <2>1, <2>2, <2>3, AttemptMoves
<1> QED
  BY <1>2, <1>3

(* An attempt that is saved has completed, or the store failed and it too. *)
LEMMA CompleteSavesCredentials ==
  ASSUME CredentialsIInv, NEW a \in LoginAttempts, Credentials!CompleteSaves(a)
  PROVE  CredentialsIInv'
<1>1. /\ crdMu = a /\ crdMu' = "free"
      /\ UNCHANGED <<crdRefresher, crdWriter, crdIssued, crdSpent, crdDisturbed, crdReused>>
  BY DEF Credentials!CompleteSaves, Credentials!issuer, Credentials!history
<1>2. crdAttempt[a].worker = "saving" /\ crdAttempt[a].status = "pending"
  BY <1>1 DEF CredentialsIInv, MutexHeld
<1>3. PICK status \in {"completed", "failed"} :
        /\ Credentials!finish(a, status)
        /\ \/ status = "completed" /\ crdStored' = Credentials!OAuth(crdAttempt[a].held, a)
           \/ status = "failed" /\ crdStored' = crdStored
  BY DEF Credentials!CompleteSaves
<1> DEFINE x == [crdAttempt[a] EXCEPT !.worker = "none", !.status = status]
           t == crdAttempt[a].held
<1>4. crdAttempt' = [crdAttempt EXCEPT ![a] = x]
  BY <1>2, <1>3 DEF Credentials!finish, CredentialsIInv, CredentialsTyped
<1>5. x \in Attempt /\ x.worker = "none" /\ x.status = status
  BY <1>3 DEF CredentialsIInv, CredentialsTyped, Attempt
<1>6. /\ a \in Saving /\ t \in Nat \ {0} /\ t <= crdIssued /\ t \notin crdSpent
      /\ \A b \in Saving : b # a => crdAttempt[b].held # t
  BY <1>2 DEF Saving, CredentialsIInv, CredentialsTyped, HeldIsFresh, Fresh
<1> HIDE DEF x, t
<1>7. \A b \in LoginAttempts : crdAttempt'[b] = IF b = a THEN x ELSE crdAttempt[b]
  BY <1>4 DEF CredentialsIInv, CredentialsTyped
<1>8. crdStored' = crdStored
      \/ /\ status = "completed" /\ crdStored' \in OAuthEntry
         /\ crdStored'.refresh = t /\ crdStored'.by = a
  <2>1. /\ Credentials!OAuth(t, a) \in OAuthEntry
        /\ Credentials!OAuth(t, a).refresh = t /\ Credentials!OAuth(t, a).by = a
    BY <1>6 DEF Credentials!OAuth, OAuthEntry
  <2> QED
    BY <1>3, <2>1 DEF t
<1>9. CredentialsTyped'
  BY <1>1, <1>4, <1>5, <1>8 DEF CredentialsIInv, CredentialsTyped, Entry
<1>10. MutexHeld'
  BY <1>1, CredentialIds DEF CredentialsIInv, MutexHeld
<1>11. AllConsented'
  <2>1. \A b \in LoginAttempts :
          crdAttempt[b].status = "completed" => crdAttempt'[b].status = "completed"
    BY <1>2, <1>7
  <2>2. status = "completed" => crdAttempt'[a].status = "completed"
    BY <1>5, <1>7
  <2> QED
    BY <1>1, <1>6, <1>8, <2>1, <2>2 DEF CredentialsIInv, AllConsented, Consented
<1>12. TokensOfRefresh'
  BY <1>1 DEF CredentialsIInv, TokensOfRefresh
<1>13. HeldIsFresh'
  <2>1. \A b \in Saving' : b \in Saving /\ b # a /\ crdAttempt'[b].held = crdAttempt[b].held
    BY <1>5, <1>7 DEF Saving
  <2>2. \A b \in Saving' : crdAttempt[b].held # crdStored'.refresh
    BY <1>6, <1>8, <2>1 DEF CredentialsIInv, HeldIsFresh, Fresh
  <2> QED
    BY <1>1, <2>1, <2>2 DEF CredentialsIInv, HeldIsFresh, Fresh
<1>14. Credentials!OneAttemptPending'
  <2>1. \A b \in Credentials!Pending' : b \in Credentials!Pending
    BY <1>2, <1>7 DEF Credentials!Pending
  <2> QED
    BY <2>1 DEF CredentialsIInv, Credentials!OneAttemptPending
<1>15. Credentials!TokensSpentOnce'
  BY <1>1, <1>6, <1>8 DEF CredentialsIInv, Credentials!TokensSpentOnce
<1> QED
  BY <1>9, <1>10, <1>11, <1>12, <1>13, <1>14, <1>15 DEF CredentialsIInv

(* A refresh reads the row under the mutex, when nobody is replacing its   *)
(* token.                                                                  *)
LEMMA RefreshLooksCredentials ==
  ASSUME CredentialsIInv, NEW r \in TokenRefreshers, Credentials!RefreshLooks(r)
  PROVE  CredentialsIInv'
<1> DEFINE x == [at |-> "asking", read |-> crdStored]
<1>1. /\ crdMu = "free" /\ crdMu' = r /\ crdStored.type = "oauth"
      /\ crdRefresher' = [crdRefresher EXCEPT ![r] = x]
      /\ UNCHANGED <<crdStored, crdAttempt, crdWriter, crdIssued, crdSpent, crdDisturbed,
                     crdReused>>
  BY DEF Credentials!RefreshLooks, Credentials!issuer, Credentials!history
<1>2. x \in [at : {"idle", "asking", "saving"}, read : Entry] /\ x.at = "asking"
      /\ x.read = crdStored
  BY DEF CredentialsIInv, CredentialsTyped
<1> HIDE DEF x
<1>3. \A q \in TokenRefreshers : crdRefresher'[q] = IF q = r THEN x ELSE crdRefresher[q]
  BY <1>1 DEF CredentialsIInv, CredentialsTyped
<1>4. \A q \in TokenRefreshers : crdRefresher[q].at \notin {"asking", "saving"}
  BY <1>1, CredentialIds DEF CredentialsIInv, MutexHeld
<1>5. CredentialsTyped'
  BY <1>1, <1>2 DEF CredentialsIInv, CredentialsTyped
<1>6. MutexHeld'
  BY <1>1, <1>2, <1>3, <1>4, CredentialIds DEF CredentialsIInv, MutexHeld
<1>7. AllConsented'
  BY <1>1, <1>2, <1>3 DEF CredentialsIInv, AllConsented, Consented
<1>8. ~crdDisturbed => crdStored.refresh \notin crdSpent
  BY <1>4 DEF CredentialsIInv, Credentials!TokensSpentOnce
<1>9. TokensOfRefresh'
  BY <1>1, <1>2, <1>3, <1>8 DEF CredentialsIInv, TokensOfRefresh
<1>10. HeldIsFresh'
  BY <1>1, <1>2, <1>3 DEF CredentialsIInv, HeldIsFresh, Fresh, Saving
<1>11. Credentials!OneAttemptPending'
  BY <1>1 DEF CredentialsIInv, Credentials!OneAttemptPending, Credentials!Pending
<1>12. Credentials!TokensSpentOnce'
  BY <1>1, <1>8 DEF CredentialsIInv, Credentials!TokensSpentOnce
<1> QED
  BY <1>5, <1>6, <1>7, <1>9, <1>10, <1>11, <1>12 DEF CredentialsIInv

(* What any answer of the issuer, or none, does: the token that was sent   *)
(* is replaced by a new one, which is being saved or the row is disturbed. *)
LEMMA RefreshAnswered ==
  ASSUME CredentialsIInv, NEW r \in TokenRefreshers, crdRefresher[r].at = "asking",
         NEW x \in [at : {"idle", "saving"}, read : OAuthEntry],
         crdRefresher' = [crdRefresher EXCEPT ![r] = x],
         x.read.by = crdRefresher[r].read.by,
         crdMu' = IF x.at = "saving" THEN crdMu ELSE "free",
         UNCHANGED <<crdStored, crdAttempt, crdWriter>>,
         crdIssued' \in {crdIssued, crdIssued + 1},
         \/ x.read.refresh = crdRefresher[r].read.refresh
         \/ x.read.refresh = crdIssued + 1 /\ crdIssued' = crdIssued + 1,
         x.at = "saving" => x.read.refresh \notin crdSpent',
         \/ crdSpent' = crdSpent
         \/ /\ crdSpent' = crdSpent \cup {crdRefresher[r].read.refresh}
            /\ x.at = "saving" \/ crdDisturbed',
         crdDisturbed' \in BOOLEAN, crdReused' \in BOOLEAN,
         crdDisturbed => crdDisturbed', crdReused' => crdReused \/ crdDisturbed'
  PROVE  CredentialsIInv'
<1> DEFINE sent == crdRefresher[r].read.refresh
<1>1. /\ crdMu = r
      /\ \A q \in TokenRefreshers : q # r => crdRefresher[q].at \notin {"asking", "saving"}
  BY DEF CredentialsIInv, MutexHeld
<1>2. \A q \in TokenRefreshers : crdRefresher'[q] = IF q = r THEN x ELSE crdRefresher[q]
  BY DEF CredentialsIInv, CredentialsTyped
<1>3. /\ crdIssued \in Nat /\ crdIssued' \in Nat /\ crdIssued <= crdIssued'
      /\ sent \in Nat /\ sent <= crdIssued /\ sent # 0
  <2>1. crdRefresher[r].read \in OAuthEntry
    BY EntryFields DEF CredentialsIInv, CredentialsTyped, TokensOfRefresh
  <2>2. sent \in Nat \ {0}
    BY <2>1 DEF OAuthEntry
  <2>3. sent <= crdIssued
    BY DEF CredentialsIInv, AllConsented, Consented
  <2> QED
    BY <2>2, <2>3 DEF CredentialsIInv, CredentialsTyped
<1>4. \/ x.read.refresh = sent
      \/ x.read.refresh = crdIssued + 1 /\ crdIssued' = crdIssued + 1
  OBVIOUS
<1>5. CredentialsTyped'
  <2>1. x \in [at : {"idle", "asking", "saving"}, read : Entry]
    BY DEF Entry
  <2>2. crdSpent' \in SUBSET Nat
    BY <1>3 DEF CredentialsIInv, CredentialsTyped
  <2> QED
    BY <1>3, <2>1, <2>2 DEF CredentialsIInv, CredentialsTyped
<1>6. MutexHeld'
  <2>1. \A a \in LoginAttempts : crdMu' # a
    BY <1>1, CredentialIds
  <2> QED
    BY <1>1, <1>2, <2>1, CredentialIds DEF MutexHeld
<1>7. AllConsented'
  <2>1. \A e \in Entry : e.refresh \in Nat
    BY EntryFields
  <2>2. \A e \in Entry : e.refresh <= crdIssued => e.refresh <= crdIssued'
    BY <1>3, <2>1
  <2>3. /\ crdStored \in Entry /\ \A w \in TokenWriters : crdWriter[w].read \in Entry
        /\ \A q \in TokenRefreshers : crdRefresher[q].read \in Entry
    BY DEF CredentialsIInv, CredentialsTyped
  <2>4. x.read.refresh <= crdIssued'
    BY <1>3, <1>4
  <2> QED
    BY <1>2, <2>2, <2>3, <2>4 DEF CredentialsIInv, AllConsented, Consented
<1>8. TokensOfRefresh'
  <2>1. \A t \in crdSpent' : t \in 1..crdIssued'
    BY <1>3 DEF CredentialsIInv, TokensOfRefresh
  <2>2. x.read.type = "oauth"
    BY DEF OAuthEntry
  <2> QED
    BY <1>1, <1>2, <2>1, <2>2 DEF TokensOfRefresh
<1>9. HeldIsFresh'
  <2>1. ASSUME NEW t, Fresh(t) PROVE Fresh(t)'
    <3>1. t \in 1..crdIssued /\ t # sent
      BY <2>1 DEF Fresh
    <3>2. t \in 1..crdIssued' /\ t # x.read.refresh /\ t \notin crdSpent'
      BY <1>3, <1>4, <2>1, <3>1 DEF Fresh
    <3> QED
      BY <1>2, <2>1, <3>2 DEF Fresh
  <2> QED
    BY <2>1 DEF CredentialsIInv, HeldIsFresh, Saving
<1>10. Credentials!OneAttemptPending'
  BY DEF CredentialsIInv, Credentials!OneAttemptPending, Credentials!Pending
<1>11. Credentials!TokensSpentOnce'
  <2> SUFFICES ASSUME ~crdDisturbed'
               PROVE  /\ ~crdReused'
                      /\ crdStored.refresh \in crdSpent' => x.at = "saving"
    BY <1>2 DEF Credentials!TokensSpentOnce
  <2>1. ~crdReused /\ crdStored.refresh \notin crdSpent
    BY <1>1 DEF CredentialsIInv, Credentials!TokensSpentOnce
  <2> QED
    BY <2>1
<1> QED
  BY <1>5, <1>6, <1>7, <1>8, <1>9, <1>10, <1>11 DEF CredentialsIInv

(* Each of the four answers is one of those.                               *)
LEMMA RefreshAsksCredentials ==
  ASSUME CredentialsIInv, NEW r \in TokenRefreshers, Credentials!RefreshAsks(r)
  PROVE  CredentialsIInv'
<1> DEFINE sent == crdRefresher[r].read.refresh
           rotate == /\ sent \notin crdSpent /\ crdIssued' = crdIssued + 1
                     /\ crdSpent' = crdSpent \cup {sent}
<1>1. crdRefresher[r].at = "asking" /\ UNCHANGED <<crdStored, crdAttempt, crdWriter>>
  BY DEF Credentials!RefreshAsks
<1>2. crdRefresher[r].read \in OAuthEntry
  BY <1>1, EntryFields DEF CredentialsIInv, CredentialsTyped, TokensOfRefresh
<1>3. /\ crdDisturbed \in BOOLEAN /\ crdReused \in BOOLEAN /\ crdIssued \in Nat
      /\ crdRefresher \in [TokenRefreshers -> [at : {"idle", "asking", "saving"}, read : Entry]]
  BY DEF CredentialsIInv, CredentialsTyped
<1> DEFINE same(place) == [crdRefresher[r] EXCEPT !.at = place]
<1>4. ASSUME NEW place \in {"idle", "saving"}
      PROVE  /\ same(place) \in [at : {"idle", "saving"}, read : OAuthEntry]
             /\ same(place).at = place /\ same(place).read = crdRefresher[r].read
  BY <1>2, <1>3
<1>5. CASE rotate /\ crdMu' = crdMu /\ UNCHANGED <<crdDisturbed, crdReused>>
           /\ crdRefresher' = [crdRefresher EXCEPT ![r].at = "saving",
                                                   ![r].read.refresh = crdIssued + 1]
  <2>n. PICK n : n = crdIssued + 1
    OBVIOUS
  <2> DEFINE y == [crdRefresher[r].read EXCEPT !.refresh = n]
             x == [crdRefresher[r] EXCEPT !.at = "saving", !.read.refresh = n]
  <2>1. y \in OAuthEntry /\ y.refresh = n /\ y.by = crdRefresher[r].read.by
    <3>1. n \in Nat \ {0}
      BY <1>3, <2>n
    <3> QED
      BY <1>2, <3>1 DEF OAuthEntry
  <2>2. crdRefresher' = [crdRefresher EXCEPT ![r] = x]
    BY <1>3, <1>5, <2>n
  <2>3. x \in [at : {"idle", "saving"}, read : OAuthEntry] /\ x.at = "saving" /\ x.read = y
    BY <1>3, <2>1
  <2> HIDE DEF x, y
  <2>4. n \notin crdSpent'
    <3>1. n \notin crdSpent
      BY <1>3, <2>n DEF CredentialsIInv, TokensOfRefresh
    <3>2. sent <= crdIssued /\ sent \in Nat
      BY <1>2 DEF CredentialsIInv, AllConsented, Consented, OAuthEntry
    <3> QED
      BY <1>3, <1>5, <2>n, <3>1, <3>2
  <2> QED
    BY <1>1, <1>3, <1>5, <2>n, <2>1, <2>2, <2>3, <2>4, RefreshAnswered
<1>6. CASE /\ crdRefresher' = [crdRefresher EXCEPT ![r].at = "saving"] /\ sent \notin crdSpent
           /\ UNCHANGED <<crdMu, crdIssued, crdSpent, crdDisturbed, crdReused>>
  <2> DEFINE x == same("saving")
  <2>1. crdRefresher' = [crdRefresher EXCEPT ![r] = x]
    BY <1>3, <1>6
  <2>2. /\ x \in [at : {"idle", "saving"}, read : OAuthEntry]
        /\ x.at = "saving" /\ x.read = crdRefresher[r].read
    BY <1>4
  <2> HIDE DEF x, same
  <2> QED
    BY <1>1, <1>3, <1>6, <2>1, <2>2, RefreshAnswered
<1>7. CASE /\ crdRefresher' = [crdRefresher EXCEPT ![r].at = "idle"] /\ crdMu' = "free"
           /\ \/ rotate /\ crdDisturbed' = TRUE /\ crdReused' = crdReused
              \/ /\ crdReused' = (crdReused \/ sent \in crdSpent)
                 /\ UNCHANGED <<crdIssued, crdSpent, crdDisturbed>>
  <2> DEFINE x == same("idle")
  <2>1. crdRefresher' = [crdRefresher EXCEPT ![r] = x]
    BY <1>3, <1>7
  <2>2. /\ x \in [at : {"idle", "saving"}, read : OAuthEntry]
        /\ x.at = "idle" /\ x.read = crdRefresher[r].read
    BY <1>4
  <2> HIDE DEF x, same
  <2>3. ~crdDisturbed => sent \notin crdSpent
    BY <1>1 DEF CredentialsIInv, TokensOfRefresh
  <2>4. /\ crdDisturbed' \in BOOLEAN /\ crdReused' \in BOOLEAN
        /\ crdDisturbed => crdDisturbed'
        /\ crdReused' => crdReused \/ crdDisturbed'
    BY <1>3, <1>7, <2>3
  <2>5. \/ crdIssued' = crdIssued + 1 /\ crdSpent' = crdSpent \cup {sent} /\ crdDisturbed'
        \/ crdIssued' = crdIssued /\ crdSpent' = crdSpent
    BY <1>7
  <2>6. crdMu' = IF x.at = "saving" THEN crdMu ELSE "free"
    BY <1>7, <2>2
  <2>7. /\ crdIssued' \in {crdIssued, crdIssued + 1}
        /\ \/ crdSpent' = crdSpent
           \/ /\ crdSpent' = crdSpent \cup {crdRefresher[r].read.refresh}
              /\ x.at = "saving" \/ crdDisturbed'
    BY <2>5
  <2>8. x.read.by = crdRefresher[r].read.by /\ x.read.refresh = crdRefresher[r].read.refresh
        /\ x.at # "saving"
    BY <2>2
  <2> QED
    BY <1>1, <2>1, <2>2, <2>4, <2>6, <2>7, <2>8, RefreshAnswered
<1> QED
  BY <1>5, <1>6, <1>7 DEF Credentials!RefreshAsks, Credentials!issuer, Credentials!history

(* A refresh stores what it holds, which the issuer still takes.           *)
LEMMA RefreshSavesCredentials ==
  ASSUME CredentialsIInv, NEW r \in TokenRefreshers, Credentials!RefreshSaves(r)
  PROVE  CredentialsIInv'
<1> DEFINE new == crdRefresher[r].read
           x == [crdRefresher[r] EXCEPT !.at = "idle"]
<1>1. /\ crdRefresher[r].at = "saving" /\ crdMu' = "free"
      /\ UNCHANGED <<crdAttempt, crdWriter, crdIssued, crdSpent, crdReused>>
      /\ \/ crdStored' = Credentials!OAuth(new.refresh, new.by) /\ crdDisturbed' = crdDisturbed
         \/ /\ crdDisturbed' = (crdDisturbed \/ crdStored.refresh \in crdSpent)
            /\ crdStored' = crdStored
  BY DEF Credentials!RefreshSaves, Credentials!issuer
<1>2. crdRefresher' = [crdRefresher EXCEPT ![r] = x]
  BY DEF Credentials!RefreshSaves, CredentialsIInv, CredentialsTyped
<1>3. new \in OAuthEntry /\ new \in Entry
  BY <1>1, EntryFields DEF CredentialsIInv, CredentialsTyped, TokensOfRefresh
<1>4. /\ x \in [at : {"idle", "asking", "saving"}, read : Entry]
      /\ x.at = "idle" /\ x.read = new
  BY DEF CredentialsIInv, CredentialsTyped
<1>5. Consented(new) /\ new.refresh \notin crdSpent
  BY <1>1 DEF CredentialsIInv, AllConsented, TokensOfRefresh
<1>6. \/ crdStored' = crdStored
      \/ crdStored' \in OAuthEntry /\ crdStored'.refresh = new.refresh /\ crdStored'.by = new.by
  <2>1. /\ Credentials!OAuth(new.refresh, new.by) \in OAuthEntry
        /\ Credentials!OAuth(new.refresh, new.by).refresh = new.refresh
        /\ Credentials!OAuth(new.refresh, new.by).by = new.by
    BY <1>3 DEF Credentials!OAuth, OAuthEntry
  <2> QED
    BY <1>1, <2>1
<1>7. \A a \in Saving : crdAttempt[a].held # new.refresh
  BY DEF CredentialsIInv, HeldIsFresh, Fresh
<1>8. /\ crdMu = r
      /\ \A q \in TokenRefreshers : q # r => crdRefresher[q].at \notin {"asking", "saving"}
  BY <1>1 DEF CredentialsIInv, MutexHeld
<1>9. /\ crdDisturbed' \in BOOLEAN
      /\ ~crdDisturbed' => ~crdDisturbed /\ crdStored'.refresh \notin crdSpent
  <2>1. CASE crdStored' = Credentials!OAuth(new.refresh, new.by) /\ crdDisturbed' = crdDisturbed
    <3>1. crdStored'.refresh = new.refresh
      BY <2>1 DEF Credentials!OAuth
    <3> QED
      BY <1>5, <2>1, <3>1 DEF CredentialsIInv, CredentialsTyped
  <2>2. CASE /\ crdDisturbed' = (crdDisturbed \/ crdStored.refresh \in crdSpent)
             /\ crdStored' = crdStored
    BY <2>2 DEF CredentialsIInv, CredentialsTyped
  <2> QED
    BY <1>1, <2>1, <2>2
<1> HIDE DEF x, new
<1>10. \A q \in TokenRefreshers : crdRefresher'[q] = IF q = r THEN x ELSE crdRefresher[q]
  BY <1>2 DEF CredentialsIInv, CredentialsTyped
<1>11. CredentialsTyped'
  BY <1>1, <1>2, <1>4, <1>6, <1>9 DEF CredentialsIInv, CredentialsTyped, Entry
<1>12. MutexHeld'
  BY <1>1, <1>4, <1>8, <1>10, CredentialIds DEF CredentialsIInv, MutexHeld
<1>13. AllConsented'
  BY <1>1, <1>4, <1>5, <1>6, <1>10 DEF CredentialsIInv, AllConsented, Consented
<1>14. TokensOfRefresh'
  BY <1>1, <1>4, <1>8, <1>10 DEF CredentialsIInv, TokensOfRefresh
<1>15. HeldIsFresh'
  BY <1>1, <1>4, <1>6, <1>7, <1>10 DEF CredentialsIInv, HeldIsFresh, Fresh, Saving, new
<1>16. Credentials!OneAttemptPending'
  BY <1>1 DEF CredentialsIInv, Credentials!OneAttemptPending, Credentials!Pending
<1>17. Credentials!TokensSpentOnce'
  BY <1>1, <1>9 DEF CredentialsIInv, Credentials!TokensSpentOnce
<1> QED
  BY <1>11, <1>12, <1>13, <1>14, <1>15, <1>16, <1>17 DEF CredentialsIInv

(* A settings request writes what it has read, a key or nothing; it        *)
(* disturbs the row if the token has changed in between.                   *)
LEMMA SettingsCredentials ==
  ASSUME CredentialsIInv, NEW w \in TokenWriters,
         \/ \E kind \in {"other", "key", "delete"} : Credentials!SettingsRead(w, kind)
         \/ Credentials!SettingsWrite(w)
  PROVE  CredentialsIInv'
<1> DEFINE Record == [at : {"idle", "other", "key", "delete"}, read : Entry]
<1>1. ASSUME NEW x \in Record, NEW e \in Entry,
             crdWriter' = [crdWriter EXCEPT ![w] = x], crdStored' = e,
             UNCHANGED <<crdAttempt, crdRefresher, crdMu, crdIssued, crdSpent, crdReused>>,
             x.read = crdStored \/ x.read = Credentials!NoEntry,
             \/ e = crdStored \/ e = crdWriter[w].read
             \/ e = Credentials!Key \/ e = Credentials!NoEntry,
             crdDisturbed' \in BOOLEAN,
             ~crdDisturbed' => ~crdDisturbed /\ e.refresh \in {crdStored.refresh, 0}
      PROVE  CredentialsIInv'
  <2>1. \A v \in TokenWriters : crdWriter'[v] = IF v = w THEN x ELSE crdWriter[v]
    BY <1>1 DEF CredentialsIInv, CredentialsTyped
  <2>2. CredentialsTyped'
    BY <1>1 DEF CredentialsIInv, CredentialsTyped
  <2>3. MutexHeld'
    BY <1>1 DEF CredentialsIInv, MutexHeld
  <2>4. Consented(e) /\ Consented(x.read)
    <3>1. crdIssued \in Nat
      BY DEF CredentialsIInv, CredentialsTyped
    <3>2. Consented(Credentials!Key) /\ Consented(Credentials!NoEntry)
      BY <3>1, EntryFields DEF Consented
    <3> QED
      BY <1>1, <3>2 DEF CredentialsIInv, AllConsented
  <2>5. AllConsented'
    BY <1>1, <2>1, <2>4 DEF CredentialsIInv, AllConsented, Consented
  <2>6. 0 \notin crdSpent
    BY DEF CredentialsIInv, CredentialsTyped, TokensOfRefresh
  <2>7. TokensOfRefresh'
    BY <1>1 DEF CredentialsIInv, TokensOfRefresh
  <2>8. HeldIsFresh'
    <3>1. \A t : Fresh(t) => t # e.refresh /\ t # x.read.refresh
      BY <1>1, EntryFields DEF Fresh
    <3> QED
      BY <1>1, <2>1, <3>1 DEF CredentialsIInv, HeldIsFresh, Fresh, Saving
  <2>9. Credentials!OneAttemptPending'
    BY <1>1 DEF CredentialsIInv, Credentials!OneAttemptPending, Credentials!Pending
  <2>10. Credentials!TokensSpentOnce'
    BY <1>1, <2>6 DEF CredentialsIInv, Credentials!TokensSpentOnce
  <2> QED
    BY <2>2, <2>3, <2>5, <2>7, <2>8, <2>9, <2>10 DEF CredentialsIInv
<1>2. /\ crdStored \in Entry /\ crdDisturbed \in BOOLEAN /\ crdWriter[w] \in Record
      /\ Credentials!NoEntry \in Entry /\ Credentials!Key \in Entry
      /\ Credentials!NoEntry.refresh = 0 /\ Credentials!Key.refresh = 0
  BY EntryFields DEF CredentialsIInv, CredentialsTyped
<1>3. ASSUME NEW kind \in {"other", "key", "delete"}, Credentials!SettingsRead(w, kind)
      PROVE  CredentialsIInv'
  <2> DEFINE x == [at |-> kind, read |-> crdStored]
  <2>1. /\ crdWriter' = [crdWriter EXCEPT ![w] = x]
        /\ UNCHANGED <<crdStored, crdAttempt, crdRefresher, crdMu, crdIssued, crdSpent,
                       crdDisturbed, crdReused>>
    BY <1>3 DEF Credentials!SettingsRead, Credentials!issuer, Credentials!history
  <2>2. x \in Record /\ x.read = crdStored
    BY <1>2
  <2> HIDE DEF x, Record
  <2> QED
    BY <1>1, <1>2, <2>1, <2>2
<1>4. CASE Credentials!SettingsWrite(w)
  <2> DEFINE x == [at |-> "idle", read |-> Credentials!NoEntry]
             at == crdWriter[w].at
             new == CASE at = "other" -> crdWriter[w].read
                      [] at = "key" -> Credentials!Key
                      [] at = "delete" -> Credentials!NoEntry
  <2>1. /\ crdWriter' = [crdWriter EXCEPT ![w] = x] /\ at # "idle"
        /\ UNCHANGED <<crdAttempt, crdRefresher, crdMu, crdIssued, crdSpent, crdReused>>
        /\ \/ /\ crdStored' = new
              /\ crdDisturbed' =
                   (crdDisturbed \/ crdWriter[w].read.refresh # crdStored.refresh)
           \/ crdStored' = crdStored /\ crdDisturbed' = crdDisturbed
    BY <1>4 DEF Credentials!SettingsWrite, Credentials!issuer
  <2>2. x \in Record /\ x.read = Credentials!NoEntry
    BY <1>2
  <2>3. /\ new \in Entry
        /\ new \in {crdWriter[w].read, Credentials!Key, Credentials!NoEntry}
        /\ new.refresh \in {crdWriter[w].read.refresh, 0}
    <3>1. at \in {"other", "key", "delete"} /\ crdWriter[w].read \in Entry
      BY <1>2, <2>1
    <3>2. CASE at = "other"
      BY <3>1, <3>2
    <3>3. CASE at = "key"
      BY <1>2, <3>3
    <3>4. CASE at = "delete"
      BY <1>2, <3>4
    <3> QED
      BY <3>1, <3>2, <3>3, <3>4
  <2> HIDE DEF x, new, at, Record
  <2>4. CASE crdStored' = new /\ crdDisturbed' =
                   (crdDisturbed \/ crdWriter[w].read.refresh # crdStored.refresh)
    <3>1. crdDisturbed' \in BOOLEAN
      BY <1>2, <2>4
    <3>2. ~crdDisturbed' => ~crdDisturbed /\ new.refresh \in {crdStored.refresh, 0}
      BY <1>2, <2>3, <2>4
    <3> QED
      BY <1>1, <2>1, <2>2, <2>3, <2>4, <3>1, <3>2
  <2>5. CASE crdStored' = crdStored /\ crdDisturbed' = crdDisturbed
    BY <1>1, <1>2, <2>1, <2>2, <2>5
  <2> QED
    BY <2>1, <2>4, <2>5
<1> QED
  BY <1>3, <1>4

(* The access token of the row expires.                                    *)
LEMMA AccessExpiresCredentials ==
  ASSUME CredentialsIInv, Credentials!AccessExpires
  PROVE  CredentialsIInv'
<1> DEFINE e == [crdStored EXCEPT !.unexpired = FALSE]
<1>1. /\ crdStored' = e /\ crdStored.unexpired
      /\ UNCHANGED <<crdAttempt, crdRefresher, crdWriter, crdMu, crdIssued, crdSpent,
                     crdDisturbed, crdReused>>
  BY DEF Credentials!AccessExpires, Credentials!issuer, Credentials!history
<1>2. crdStored \in OAuthEntry
  BY <1>1, EntryFields DEF CredentialsIInv, CredentialsTyped
<1>3. e \in OAuthEntry /\ e.refresh = crdStored.refresh /\ e.by = crdStored.by
  BY <1>2 DEF OAuthEntry
<1> HIDE DEF e
<1>4. CredentialsTyped'
  BY <1>1, <1>3 DEF CredentialsIInv, CredentialsTyped, Entry
<1>5. MutexHeld' /\ TokensOfRefresh'
  BY <1>1 DEF CredentialsIInv, MutexHeld, TokensOfRefresh
<1>6. AllConsented'
  BY <1>1, <1>3 DEF CredentialsIInv, AllConsented, Consented
<1>7. HeldIsFresh'
  BY <1>1, <1>3 DEF CredentialsIInv, HeldIsFresh, Fresh, Saving
<1>8. Credentials!OneAttemptPending' /\ Credentials!TokensSpentOnce'
  BY <1>1, <1>3 DEF CredentialsIInv, Credentials!OneAttemptPending, Credentials!Pending,
     Credentials!TokensSpentOnce
<1> QED
  BY <1>4, <1>5, <1>6, <1>7, <1>8 DEF CredentialsIInv

(* Each step of an attempt, a refresh or a settings request keeps it.      *)
LEMMA CredentialsStep ==
  ASSUME CredentialsIInv, [Credentials!Next]_crdVars
  PROVE  CredentialsIInv'
<1>1. CASE UNCHANGED crdVars \/ Credentials!CloseManager
  <2>1. UNCHANGED <<crdStored, crdAttempt, crdRefresher, crdWriter, crdMu, crdIssued,
                    crdSpent, crdDisturbed, crdReused>>
    BY <1>1 DEF crdVars, Credentials!CloseManager, Credentials!issuer, Credentials!history
  <2> QED
    BY <2>1 DEF CredentialsIInv, CredentialsTyped, MutexHeld, AllConsented, Consented,
       TokensOfRefresh, HeldIsFresh, Fresh, Saving, Credentials!OneAttemptPending,
       Credentials!Pending, Credentials!TokensSpentOnce
<1>2. ASSUME NEW a \in LoginAttempts,
             \/ Credentials!Start(a) \/ Credentials!Opened(a) \/ Credentials!CodeArrives(a)
             \/ Credentials!AttemptFails(a) \/ Credentials!WorkerStops(a)
             \/ Credentials!Exchange(a) \/ Credentials!CompleteLooks(a)
             \/ Credentials!CompleteSaves(a) \/ Credentials!CancelAttempt(a)
      PROVE  CredentialsIInv'
  BY <1>2, AttemptSteps, ExchangeCredentials, CompleteLooksCredentials,
     CompleteSavesCredentials
<1>3. ASSUME NEW r \in TokenRefreshers,
             \/ Credentials!RefreshLooks(r) \/ Credentials!RefreshAsks(r)
             \/ Credentials!RefreshSaves(r)
      PROVE  CredentialsIInv'
  BY <1>3, RefreshLooksCredentials, RefreshAsksCredentials, RefreshSavesCredentials
<1> QED
  BY <1>1, <1>2, <1>3, SettingsCredentials, AccessExpiresCredentials DEF Credentials!Next

(* What is stored is of an attempt that completed, and can be used.        *)
LEMMA CredentialsSafe == ASSUME CredentialsIInv PROVE Credentials!CredentialsAreCurrent
BY DEF CredentialsIInv, AllConsented, Consented, Credentials!CredentialsAreCurrent,
   Credentials!StoredByCompleted

-----------------------------------------------------------------------------
(* StoreCatalog. What the unique indexes and the foreign keys keep,        *)
(* whatever a request has read before.                                     *)

(* The values of the state: a request holds the row it has read.           *)
WorkspaceRow == [name : CatalogNames, client : CatalogClients]

(* A row of the table of agents; one without a model is no agent.          *)
AgentRow == [model : CatalogModels \cup {None}, tools : CatalogModels \cup {None}]

(* A request that is under way, with the row it will write.                *)
CatalogRequest ==
  {Catalog!NoRequest}
  \cup [op : {"client"}, id : CatalogClients, row : CatalogClientNames]
  \cup [op : {"update workspace", "verified", "delete workspace"},
        id : CatalogWorkspaces, row : WorkspaceRow]
  \cup [op : {"update agent"}, id : CatalogAgents, row : AgentRow]

(* The tables and the requests.                                            *)
CatalogTyped ==
  /\ ctlClients \in [CatalogClients -> CatalogClientNames \cup {CatalogDefault, None}]
  /\ ctlWorkspaces \in [CatalogWorkspaces -> WorkspaceRow \cup {Catalog!Absent}]
  /\ ctlAgents \in [CatalogAgents -> AgentRow]
  /\ ctlRequest \in [CatalogRequests -> CatalogRequest]

(* It is inductive: what is typed, unique and referred to stays so.        *)
CatalogIInv == CatalogTyped /\ Catalog!CatalogIsSound

(* The default client is the only record there is.                         *)
LEMMA CatalogInit == Catalog!Init => CatalogIInv
<1> SUFFICES ASSUME Catalog!Init PROVE CatalogIInv
  OBVIOUS
<1> USE DEF Catalog!Init
<1>1. Catalog!Minted = {}
  BY DEF Catalog!Minted
<1>2. Catalog!Hired = {}
  BY DEF Catalog!Hired
<1>3. \A c \in Catalog!Known : c = CatalogDefault
  BY DEF Catalog!Known
<1>4. CatalogTyped
  <2>1. Catalog!NoAgent \in AgentRow
    BY DEF Catalog!NoAgent, AgentRow
  <2>2. Catalog!NoRequest \in CatalogRequest
    BY DEF CatalogRequest
  <2> QED
    BY <2>1, <2>2 DEF CatalogTyped
<1> QED
  BY <1>1, <1>2, <1>3, <1>4 DEF CatalogIInv, Catalog!CatalogIsSound, Catalog!NamesAreUnique,
     Catalog!ReferencesHold, Catalog!DeletedIsGone

(* A step that only moves requests.                                        *)
LEMMA CatalogRequestMoves ==
  ASSUME CatalogIInv, ctlRequest' \in [CatalogRequests -> CatalogRequest],
         UNCHANGED <<ctlClients, ctlWorkspaces, ctlAgents, ctlSessionOf, ctlGone>>
  PROVE  CatalogIInv'
BY DEF CatalogIInv, CatalogTyped, Catalog!CatalogIsSound, Catalog!NamesAreUnique,
   Catalog!ReferencesHold, Catalog!DeletedIsGone, Catalog!Minted, Catalog!Hired, Catalog!Known

(* What a request holds, by what it is about.                              *)
LEMMA RequestHolds ==
  ASSUME CatalogTyped, NEW r \in CatalogRequests
  PROVE  /\ ctlRequest[r] \in CatalogRequest
         /\ ctlRequest[r].op = "client" =>
              ctlRequest[r].id \in CatalogClients /\ ctlRequest[r].row \in CatalogClientNames
         /\ ctlRequest[r].op \in {"update workspace", "verified", "delete workspace"} =>
              /\ ctlRequest[r].id \in CatalogWorkspaces /\ ctlRequest[r].row \in WorkspaceRow
              /\ ctlRequest[r] \in [op : {"update workspace", "verified", "delete workspace"},
                                    id : CatalogWorkspaces, row : WorkspaceRow]
         /\ ctlRequest[r].op = "update agent" =>
              ctlRequest[r].id \in CatalogAgents /\ ctlRequest[r].row \in AgentRow
<1>1. ctlRequest[r] \in CatalogRequest
  BY DEF CatalogTyped
<1>2. CASE ctlRequest[r] = Catalog!NoRequest
  BY <1>1, <1>2 DEF Catalog!NoRequest
<1>3. CASE ctlRequest[r] \in [op : {"client"}, id : CatalogClients, row : CatalogClientNames]
  BY <1>1, <1>3
<1>4. CASE ctlRequest[r] \in [op : {"update workspace", "verified", "delete workspace"},
                              id : CatalogWorkspaces, row : WorkspaceRow]
  BY <1>1, <1>4
<1>5. CASE ctlRequest[r] \in [op : {"update agent"}, id : CatalogAgents, row : AgentRow]
  BY <1>1, <1>5
<1> QED
  BY <1>1, <1>2, <1>3, <1>4, <1>5 DEF CatalogRequest

(* A request that is over holds nothing.                                   *)
LEMMA RequestEnds ==
  ASSUME CatalogTyped, NEW r \in CatalogRequests, Catalog!end(r)
  PROVE  ctlRequest' \in [CatalogRequests -> CatalogRequest]
<1>1. Catalog!NoRequest \in CatalogRequest
  BY DEF CatalogRequest
<1> QED
  BY <1>1 DEF CatalogTyped, Catalog!end

(* A request that begins holds what it has read.                           *)
LEMMA RequestBegins ==
  ASSUME CatalogTyped, NEW r \in CatalogRequests, NEW op, NEW id, NEW row,
         Catalog!begin(r, op, id, row), [op |-> op, id |-> id, row |-> row] \in CatalogRequest
  PROVE  ctlRequest' \in [CatalogRequests -> CatalogRequest]
BY DEF CatalogTyped, Catalog!begin

(* The name of a client is taken while the insert compares with it.        *)
LEMMA ClientsOfCatalog ==
  ASSUME CatalogIInv, NEW r \in CatalogRequests, NEW c \in CatalogClients,
         NEW name \in CatalogClientNames,
         Catalog!CreateClient(r, c, name) \/ Catalog!InsertClient(r)
  PROVE  CatalogIInv'
<1>1. CASE Catalog!CreateClient(r, c, name)
  <2>1. [op |-> "client", id |-> c, row |-> name] \in CatalogRequest
    BY DEF CatalogRequest
  <2>2. /\ Catalog!begin(r, "client", c, name)
        /\ UNCHANGED <<ctlClients, ctlWorkspaces, ctlAgents, ctlSessionOf, ctlGone>>
    BY <1>1 DEF Catalog!CreateClient, Catalog!others
  <2>3. ctlRequest' \in [CatalogRequests -> CatalogRequest]
    BY <2>1, <2>2, RequestBegins DEF CatalogIInv
  <2> QED
    BY <2>2, <2>3, CatalogRequestMoves
<1>2. CASE Catalog!InsertClient(r)
  <2> DEFINE d == ctlRequest[r].id
             n == ctlRequest[r].row
  <2>1. /\ ctlRequest[r].op = "client" /\ Catalog!end(r)
        /\ UNCHANGED <<ctlWorkspaces, ctlAgents, ctlSessionOf, ctlGone>>
        /\ ctlClients' = IF d \in Catalog!Known \/ Catalog!nameTaken(n) THEN ctlClients
                         ELSE [ctlClients EXCEPT ![d] = n]
    BY <1>2 DEF Catalog!InsertClient, Catalog!others
  <2>2. d \in CatalogClients /\ n \in CatalogClientNames
    BY <2>1, RequestHolds DEF CatalogIInv
  <2>3. ctlRequest' \in [CatalogRequests -> CatalogRequest]
    BY <2>1, RequestEnds DEF CatalogIInv
  <2> HIDE DEF d, n
  <2>4. CASE d \in Catalog!Known \/ Catalog!nameTaken(n)
    BY <2>1, <2>3, <2>4, CatalogRequestMoves
  <2>5. CASE d \notin Catalog!Known /\ ~Catalog!nameTaken(n)
    <3>1. ctlClients' = [ctlClients EXCEPT ![d] = n]
      BY <2>1, <2>5
    <3>2. /\ ctlClients' \in [CatalogClients -> CatalogClientNames \cup {CatalogDefault, None}]
          /\ \A e \in CatalogClients : ctlClients'[e] = IF e = d THEN n ELSE ctlClients[e]
      BY <2>2, <3>1 DEF CatalogIInv, CatalogTyped
    <3>3. \A e \in Catalog!Known : e \in Catalog!Known' /\ ctlClients'[e] = ctlClients[e]
      BY <2>5, <3>2 DEF Catalog!Known
    <3>4. \A e \in Catalog!Known' : e # d => e \in Catalog!Known
      BY <3>2 DEF Catalog!Known
    <3>5. \A e, f \in Catalog!Known' : ctlClients'[e] = ctlClients'[f] => e = f
      <4>1. \A e \in Catalog!Known : ctlClients[e] # n
        BY <2>5 DEF Catalog!nameTaken
      <4>2. \A e, f \in Catalog!Known : ctlClients[e] = ctlClients[f] => e = f
        BY DEF CatalogIInv, Catalog!CatalogIsSound, Catalog!NamesAreUnique
      <4> QED
        BY <2>2, <3>2, <3>3, <3>4, <4>1, <4>2
    <3>6. Catalog!Minted' = Catalog!Minted /\ Catalog!Hired' = Catalog!Hired
      BY <2>1 DEF Catalog!Minted, Catalog!Hired
    <3>7. CatalogTyped'
      BY <2>1, <2>3, <3>2 DEF CatalogIInv, CatalogTyped
    <3> QED
      BY <2>1, <3>3, <3>5, <3>6, <3>7 DEF CatalogIInv, Catalog!CatalogIsSound,
         Catalog!NamesAreUnique, Catalog!ReferencesHold, Catalog!DeletedIsGone
  <2> QED
    BY <2>4, <2>5
<1> QED
  BY <1>1, <1>2

(* A workspace gets a row that no other workspace of its client has.       *)
LEMMA WorkspaceWritten ==
  ASSUME CatalogIInv, NEW w \in CatalogWorkspaces, NEW row \in WorkspaceRow,
         w \notin ctlGone, row.client \in Catalog!Known,
         \A v \in Catalog!Minted \ {w} : ctlWorkspaces[v] # row,
         ctlWorkspaces' = [ctlWorkspaces EXCEPT ![w] = row],
         ctlRequest' \in [CatalogRequests -> CatalogRequest],
         UNCHANGED <<ctlClients, ctlAgents, ctlSessionOf, ctlGone>>
  PROVE  CatalogIInv'
<1>1. CatalogTyped'
  BY DEF CatalogIInv, CatalogTyped
<1>2. \A v \in CatalogWorkspaces :
        ctlWorkspaces'[v] = IF v = w THEN row ELSE ctlWorkspaces[v]
  BY DEF CatalogIInv, CatalogTyped
<1>3. row # Catalog!Absent
  BY CatalogAssumption DEF Catalog!Absent, WorkspaceRow
<1>4. Catalog!Minted' = Catalog!Minted \cup {w}
  BY <1>2, <1>3 DEF Catalog!Minted
<1>5. Catalog!Known' = Catalog!Known /\ Catalog!Hired' = Catalog!Hired
  BY DEF Catalog!Known, Catalog!Hired
<1>6. Catalog!NamesAreUnique'
  <2>1. \A v \in Catalog!Minted : v \in CatalogWorkspaces
    BY DEF Catalog!Minted
  <2> QED
    BY <1>2, <1>4, <1>5, <2>1 DEF CatalogIInv, Catalog!CatalogIsSound, Catalog!NamesAreUnique
<1>7. Catalog!ReferencesHold'
  <2>1. \A v \in Catalog!Minted : v \in CatalogWorkspaces
    BY DEF Catalog!Minted
  <2> QED
    BY <1>2, <1>4, <1>5, <2>1 DEF CatalogIInv, Catalog!CatalogIsSound, Catalog!ReferencesHold
<1>8. Catalog!DeletedIsGone'
  BY <1>4, <1>5 DEF CatalogIInv, Catalog!CatalogIsSound, Catalog!DeletedIsGone
<1> QED
  BY <1>1, <1>6, <1>7, <1>8 DEF CatalogIInv, Catalog!CatalogIsSound

(* A workspace is created under a name that its client does not use.       *)
LEMMA CreateWorkspaceCatalog ==
  ASSUME CatalogIInv, NEW w \in CatalogWorkspaces, NEW c \in CatalogClients,
         NEW name \in CatalogNames, Catalog!CreateWorkspace(w, c, name)
  PROVE  CatalogIInv'
<1> DEFINE row == [name |-> name, client |-> c]
<1>1. /\ w \notin ctlGone /\ c \in Catalog!Known
      /\ \A v \in Catalog!Minted \ {None} : ctlWorkspaces[v] # row
      /\ ctlWorkspaces' = [ctlWorkspaces EXCEPT ![w] = row]
      /\ UNCHANGED <<ctlRequest, ctlClients, ctlAgents, ctlSessionOf, ctlGone>>
  BY DEF Catalog!CreateWorkspace, Catalog!available, Catalog!others
<1>2. row \in WorkspaceRow /\ row.client = c
  BY DEF WorkspaceRow
<1> HIDE DEF row
<1>3. \A v \in Catalog!Minted : v # None
  BY CatalogAssumption DEF Catalog!Minted
<1>4. ctlRequest' \in [CatalogRequests -> CatalogRequest]
  BY <1>1 DEF CatalogIInv, CatalogTyped
<1> QED
  BY <1>1, <1>2, <1>3, <1>4, WorkspaceWritten

(* The unique index refuses a name taken since it was verified.            *)
LEMMA WriteWorkspaceCatalog ==
  ASSUME CatalogIInv, NEW r \in CatalogRequests, Catalog!WriteWorkspace(r)
  PROVE  CatalogIInv'
<1> DEFINE row == ctlRequest[r].row
           w == ctlRequest[r].id
           free == /\ w \in Catalog!Minted /\ row.client \in Catalog!Known
                   /\ Catalog!available(row.name, row.client, w)
<1>1. /\ ctlRequest[r].op \in {"verified", "update workspace"} /\ Catalog!end(r)
      /\ UNCHANGED <<ctlClients, ctlAgents, ctlSessionOf, ctlGone>>
      /\ ctlWorkspaces' = IF free THEN [ctlWorkspaces EXCEPT ![w] = row] ELSE ctlWorkspaces
  BY DEF Catalog!WriteWorkspace, Catalog!others
<1>2. w \in CatalogWorkspaces /\ row \in WorkspaceRow
  BY <1>1, RequestHolds DEF CatalogIInv
<1>3. ctlRequest' \in [CatalogRequests -> CatalogRequest]
  BY <1>1, RequestEnds DEF CatalogIInv
<1>4. free => w \notin ctlGone /\ \A v \in Catalog!Minted \ {w} : ctlWorkspaces[v] # row
  <2>1. row = [name |-> row.name, client |-> row.client]
    BY <1>2 DEF WorkspaceRow
  <2> QED
    BY <2>1 DEF Catalog!available, CatalogIInv, Catalog!CatalogIsSound, Catalog!DeletedIsGone
<1>5. free => row.client \in Catalog!Known
  OBVIOUS
<1> HIDE DEF row, w, free
<1>6. CASE free
  BY <1>1, <1>2, <1>3, <1>4, <1>5, <1>6, WorkspaceWritten
<1>7. CASE ~free
  BY <1>1, <1>3, <1>7, CatalogRequestMoves
<1> QED
  BY <1>6, <1>7

(* A session loses its link with the row of its workspace.                 *)
LEMMA DeleteWorkspaceCatalog ==
  ASSUME CatalogIInv, NEW r \in CatalogRequests, Catalog!DeleteWorkspace(r)
  PROVE  CatalogIInv'
<1> DEFINE w == ctlRequest[r].id
<1>1. /\ ctlRequest[r].op = "delete workspace" /\ Catalog!end(r)
      /\ UNCHANGED <<ctlClients, ctlAgents>> /\ ctlGone' = ctlGone \cup {w}
      /\ ctlWorkspaces' = [ctlWorkspaces EXCEPT ![w] = Catalog!Absent]
      /\ ctlSessionOf' = IF ctlSessionOf = w THEN None ELSE ctlSessionOf
  BY DEF Catalog!DeleteWorkspace, Catalog!others
<1>2. w \in CatalogWorkspaces
  BY <1>1, RequestHolds DEF CatalogIInv
<1>3. ctlRequest' \in [CatalogRequests -> CatalogRequest]
  BY <1>1, RequestEnds DEF CatalogIInv
<1> HIDE DEF w
<1>4. \A v \in CatalogWorkspaces :
        ctlWorkspaces'[v] = IF v = w THEN Catalog!Absent ELSE ctlWorkspaces[v]
  BY <1>1 DEF CatalogIInv, CatalogTyped
<1>5. Catalog!Minted' = Catalog!Minted \ {w}
  BY <1>2, <1>4 DEF Catalog!Minted
<1>6. \A v \in Catalog!Minted' : ctlWorkspaces'[v] = ctlWorkspaces[v]
  BY <1>4, <1>5 DEF Catalog!Minted
<1>7. Catalog!Known' = Catalog!Known /\ Catalog!Hired' = Catalog!Hired
  BY <1>1 DEF Catalog!Known, Catalog!Hired
<1>8. CatalogTyped'
  BY <1>1, <1>3 DEF CatalogIInv, CatalogTyped
<1>9. w \notin Catalog!Hired
  BY <1>2, CatalogAssumption DEF Catalog!Hired
<1>10. Catalog!NamesAreUnique' /\ Catalog!ReferencesHold'
  <2>1. Catalog!NamesAreUnique'
    <3>1. \A c, d \in Catalog!Known' : ctlClients'[c] = ctlClients'[d] => c = d
      BY <1>1, <1>7 DEF CatalogIInv, Catalog!CatalogIsSound, Catalog!NamesAreUnique
    <3>2. \A u, v \in Catalog!Minted' : ctlWorkspaces'[u] = ctlWorkspaces'[v] => u = v
      BY <1>5, <1>6 DEF CatalogIInv, Catalog!CatalogIsSound, Catalog!NamesAreUnique
    <3> QED
      BY <3>1, <3>2 DEF Catalog!NamesAreUnique
  <2>2. \A v \in Catalog!Minted' : ctlWorkspaces'[v].client \in Catalog!Known'
    BY <1>5, <1>6, <1>7 DEF CatalogIInv, Catalog!CatalogIsSound, Catalog!ReferencesHold
  <2>3. ctlSessionOf' # None => ctlSessionOf' \in Catalog!Minted'
    BY <1>1, <1>5 DEF CatalogIInv, Catalog!CatalogIsSound, Catalog!ReferencesHold
  <2> QED
    BY <2>1, <2>2, <2>3 DEF Catalog!ReferencesHold
<1>11. Catalog!DeletedIsGone'
  BY <1>1, <1>5, <1>7, <1>9 DEF CatalogIInv, Catalog!CatalogIsSound, Catalog!DeletedIsGone
<1> QED
  BY <1>8, <1>10, <1>11 DEF CatalogIInv, Catalog!CatalogIsSound

(* An update of an agent is written over the agent it has read, if that is *)
(* still there.                                                            *)
LEMMA AgentsOfCatalog ==
  ASSUME CatalogIInv, NEW a \in CatalogAgents, NEW row \in AgentRow,
         ctlAgents' = [ctlAgents EXCEPT ![a] = row],
         ctlRequest' \in [CatalogRequests -> CatalogRequest],
         UNCHANGED <<ctlClients, ctlWorkspaces, ctlSessionOf>>,
         \/ ctlGone' = ctlGone /\ a \notin ctlGone
         \/ ctlGone' = ctlGone \cup {a} /\ row = Catalog!NoAgent
  PROVE  CatalogIInv'
<1>1. CatalogTyped'
  BY DEF CatalogIInv, CatalogTyped
<1>2. \A b \in CatalogAgents : ctlAgents'[b] = IF b = a THEN row ELSE ctlAgents[b]
  BY DEF CatalogIInv, CatalogTyped
<1>3. Catalog!Hired' \subseteq Catalog!Hired \cup {a}
  BY <1>2 DEF Catalog!Hired
<1>4. Catalog!Minted' = Catalog!Minted /\ Catalog!Known' = Catalog!Known
  BY DEF Catalog!Minted, Catalog!Known
<1>5. a \notin Catalog!Minted
  BY CatalogAssumption DEF Catalog!Minted
<1>6. row = Catalog!NoAgent => a \notin Catalog!Hired'
  BY <1>2 DEF Catalog!Hired
<1>7. Catalog!NamesAreUnique' /\ Catalog!ReferencesHold'
  BY <1>4 DEF CatalogIInv, Catalog!CatalogIsSound, Catalog!NamesAreUnique,
     Catalog!ReferencesHold
<1>8. Catalog!DeletedIsGone'
  BY <1>3, <1>4, <1>5, <1>6 DEF CatalogIInv, Catalog!CatalogIsSound, Catalog!DeletedIsGone
<1> QED
  BY <1>1, <1>7, <1>8 DEF CatalogIInv, Catalog!CatalogIsSound

(* Each operation of a request, or of the table of agents, keeps it.       *)
LEMMA CatalogStep ==
  ASSUME CatalogIInv, [Catalog!Next]_ctlVars
  PROVE  CatalogIInv'
<1>1. CASE UNCHANGED ctlVars
  BY <1>1, CatalogRequestMoves DEF ctlVars, CatalogIInv, CatalogTyped
<1>2. ASSUME NEW r \in CatalogRequests, NEW c \in CatalogClients, NEW w \in CatalogWorkspaces,
             NEW name, NEW op \in {"update workspace", "delete workspace"},
             name \in CatalogNames \/ name = ctlWorkspaces[w].name,
             Catalog!ReadWorkspace(r, c, w, op, name)
      PROVE  CatalogIInv'
  <2> DEFINE row == [ctlWorkspaces[w] EXCEPT !.name = name]
  <2>1. /\ ctlWorkspaces[w] # Catalog!Absent /\ Catalog!begin(r, op, w, row)
        /\ UNCHANGED <<ctlClients, ctlWorkspaces, ctlAgents, ctlSessionOf, ctlGone>>
    BY <1>2 DEF Catalog!ReadWorkspace, Catalog!others, Catalog!Minted
  <2>2. row \in WorkspaceRow
    BY <1>2, <2>1 DEF WorkspaceRow, CatalogIInv, CatalogTyped
  <2> HIDE DEF row
  <2>3. [op |-> op, id |-> w, row |-> row] \in CatalogRequest
    BY <2>2 DEF CatalogRequest
  <2>4. ctlRequest' \in [CatalogRequests -> CatalogRequest]
    BY <2>1, <2>3, RequestBegins DEF CatalogIInv
  <2> QED
    BY <2>1, <2>4, CatalogRequestMoves
<1>3. ASSUME NEW r \in CatalogRequests, Catalog!VerifyWorkspace(r)
      PROVE  CatalogIInv'
  <2> DEFINE new == [ctlRequest[r] EXCEPT !.op = "verified"]
  <2>1. /\ ctlRequest[r].op = "update workspace"
        /\ ctlRequest' = [ctlRequest EXCEPT ![r] = new] \/ Catalog!end(r)
        /\ UNCHANGED <<ctlClients, ctlWorkspaces, ctlAgents, ctlSessionOf, ctlGone>>
    BY <1>3 DEF Catalog!VerifyWorkspace, Catalog!others, CatalogIInv, CatalogTyped
  <2>2. ctlRequest[r] \in [op : {"update workspace", "verified", "delete workspace"},
                           id : CatalogWorkspaces, row : WorkspaceRow]
    BY <2>1, RequestHolds DEF CatalogIInv
  <2>3. new \in CatalogRequest
    BY <2>2 DEF CatalogRequest
  <2> HIDE DEF new
  <2>4. ctlRequest' \in [CatalogRequests -> CatalogRequest]
    <3>1. CASE ctlRequest' = [ctlRequest EXCEPT ![r] = new]
      BY <2>3, <3>1 DEF CatalogIInv, CatalogTyped
    <3>2. CASE Catalog!end(r)
      BY <3>2, RequestEnds DEF CatalogIInv
    <3> QED
      BY <2>1, <3>1, <3>2
  <2> QED
    BY <2>1, <2>4, CatalogRequestMoves
<1>4. ASSUME NEW r \in CatalogRequests, NEW a \in CatalogAgents,
             NEW field \in {"model", "tools"}, NEW m \in CatalogModels,
             Catalog!ReadAgent(r, a, field, m)
      PROVE  CatalogIInv'
  <2> DEFINE row == [ctlAgents[a] EXCEPT ![field] = m]
  <2>1. /\ Catalog!begin(r, "update agent", a, row)
        /\ UNCHANGED <<ctlClients, ctlWorkspaces, ctlAgents, ctlSessionOf, ctlGone>>
    BY <1>4 DEF Catalog!ReadAgent, Catalog!others
  <2>2. row \in AgentRow
    BY DEF AgentRow, CatalogIInv, CatalogTyped
  <2> HIDE DEF row
  <2>3. [op |-> "update agent", id |-> a, row |-> row] \in CatalogRequest
    BY <2>2 DEF CatalogRequest
  <2>4. ctlRequest' \in [CatalogRequests -> CatalogRequest]
    BY <2>1, <2>3, RequestBegins DEF CatalogIInv
  <2> QED
    BY <2>1, <2>4, CatalogRequestMoves
<1>5. ASSUME NEW r \in CatalogRequests, Catalog!WriteAgent(r)
      PROVE  CatalogIInv'
  <2> DEFINE a == ctlRequest[r].id
             row == ctlRequest[r].row
  <2>1. /\ ctlRequest[r].op = "update agent" /\ Catalog!end(r)
        /\ UNCHANGED <<ctlClients, ctlWorkspaces, ctlSessionOf, ctlGone>>
        /\ ctlAgents' = IF a \in Catalog!Hired THEN [ctlAgents EXCEPT ![a] = row] ELSE ctlAgents
    BY <1>5 DEF Catalog!WriteAgent, Catalog!others
  <2>2. a \in CatalogAgents /\ row \in AgentRow
    BY <2>1, RequestHolds DEF CatalogIInv
  <2>3. ctlRequest' \in [CatalogRequests -> CatalogRequest]
    BY <2>1, RequestEnds DEF CatalogIInv
  <2> HIDE DEF a, row
  <2>4. a \in Catalog!Hired => a \notin ctlGone
    BY DEF CatalogIInv, Catalog!CatalogIsSound, Catalog!DeletedIsGone
  <2>5. CASE a \in Catalog!Hired
    BY <2>1, <2>2, <2>3, <2>4, <2>5, AgentsOfCatalog
  <2>6. CASE a \notin Catalog!Hired
    BY <2>1, <2>3, <2>6, CatalogRequestMoves
  <2> QED
    BY <2>5, <2>6
<1>6. ASSUME NEW w \in CatalogWorkspaces, Catalog!CreateSession(w)
      PROVE  CatalogIInv'
  BY <1>6 DEF Catalog!CreateSession, Catalog!others, CatalogIInv, CatalogTyped,
     Catalog!CatalogIsSound, Catalog!NamesAreUnique, Catalog!ReferencesHold,
     Catalog!DeletedIsGone, Catalog!Minted, Catalog!Hired, Catalog!Known
<1>7. ASSUME NEW a \in CatalogAgents, NEW m \in CatalogModels, Catalog!CreateAgent(a, m)
      PROVE  CatalogIInv'
  <2>1. [model |-> m, tools |-> m] \in AgentRow
    BY DEF AgentRow
  <2>2. /\ ctlAgents' = [ctlAgents EXCEPT ![a] = [model |-> m, tools |-> m]] /\ a \notin ctlGone
        /\ UNCHANGED <<ctlRequest, ctlClients, ctlWorkspaces, ctlSessionOf, ctlGone>>
    BY <1>7 DEF Catalog!CreateAgent, Catalog!others
  <2>3. ctlRequest' \in [CatalogRequests -> CatalogRequest]
    BY <2>2 DEF CatalogIInv, CatalogTyped
  <2> QED
    BY <2>1, <2>2, <2>3, AgentsOfCatalog
<1>8. ASSUME NEW a \in CatalogAgents, Catalog!DeleteAgent(a)
      PROVE  CatalogIInv'
  <2>1. Catalog!NoAgent \in AgentRow
    BY DEF AgentRow, Catalog!NoAgent
  <2>2. /\ ctlAgents' = [ctlAgents EXCEPT ![a] = Catalog!NoAgent] /\ ctlGone' = ctlGone \cup {a}
        /\ UNCHANGED <<ctlRequest, ctlClients, ctlWorkspaces, ctlSessionOf>>
    BY <1>8 DEF Catalog!DeleteAgent, Catalog!others
  <2>3. ctlRequest' \in [CatalogRequests -> CatalogRequest]
    BY <2>2 DEF CatalogIInv, CatalogTyped
  <2> QED
    BY <2>1, <2>2, <2>3, AgentsOfCatalog
<1>9. CASE Catalog!Next
  <2>1. ASSUME NEW r \in CatalogRequests,
               \/ \E c \in CatalogClients, name \in CatalogClientNames :
                    Catalog!CreateClient(r, c, name)
               \/ Catalog!InsertClient(r)
        PROVE  CatalogIInv'
    <3>1. CASE \E c \in CatalogClients, name \in CatalogClientNames :
                 Catalog!CreateClient(r, c, name)
      BY <3>1, ClientsOfCatalog
    <3>2. CASE Catalog!InsertClient(r)
      <4>1. ctlRequest[r].id \in CatalogClients /\ ctlRequest[r].row \in CatalogClientNames
        BY <3>2, RequestHolds DEF CatalogIInv, Catalog!InsertClient
      <4> QED
        BY <3>2, <4>1, ClientsOfCatalog
    <3> QED
      BY <2>1, <3>1, <3>2
  <2>2. ASSUME NEW r \in CatalogRequests, NEW c \in CatalogClients,
               NEW w \in CatalogWorkspaces, NEW name \in CatalogNames,
               \/ Catalog!ReadWorkspace(r, c, w, "update workspace", name)
               \/ Catalog!ReadWorkspace(r, c, w, "delete workspace", ctlWorkspaces[w].name)
        PROVE  CatalogIInv'
    BY <1>2, <2>2
  <2> QED
    BY <1>3, <1>4, <1>5, <1>6, <1>7, <1>8, <1>9, <2>1, <2>2, CreateWorkspaceCatalog,
       WriteWorkspaceCatalog, DeleteWorkspaceCatalog DEF Catalog!Next
<1> QED
  BY <1>1, <1>9

-----------------------------------------------------------------------------
(* StoreOpening. What a process has compared or applied is what it embeds, *)
(* and the row of a migration is never replaced by another.                *)

(* Where a process is in NewSQLiteStore.                                   *)
OpeningPlaces == {"closed", "stat", "created", "migrating", "seeding", "open"}

(* A process, with the rows it has read and how many it has dealt with.    *)
Opener ==
  [at : OpeningPlaces, existed : BOOLEAN, read : Seq(STRING), applied : Nat, seeds : Nat]

(* The types of the state.                                                 *)
OpeningTyped ==
  /\ opnExists \in BOOLEAN /\ opnHistory \in Seq(STRING) /\ opnAgents \in Nat
  /\ opnRan \in [Opening!Versions -> Nat]
  /\ opnOpener \in [OpeningProcesses -> Opener]

(* What a process has compared or applied is as it embeds it.              *)
AppliedFits ==
  \A p \in OpeningProcesses : opnOpener[p].at \in {"migrating", "seeding", "open"} =>
    /\ opnOpener[p].applied <= Len(opnHistory)
    /\ opnOpener[p].applied <= Len(OpeningEmbedded[p])
    /\ \A v \in 1..opnOpener[p].applied : opnHistory[v] = OpeningEmbedded[p][v]

(* What opens has compared and applied all of it.                          *)
OpenHasApplied ==
  \A p \in OpeningProcesses : opnOpener[p].at \in {"seeding", "open"} =>
    opnOpener[p].applied = Len(OpeningEmbedded[p])

(* A checksum of a migration as some build embeds it.                      *)
FromBuild(v, checksum) ==
  \E q \in OpeningProcesses : v \in DOMAIN OpeningEmbedded[q] /\ checksum = OpeningEmbedded[q][v]

(* A row changes only from one without a checksum to that of a build.      *)
ReadIsKept ==
  \A p \in OpeningProcesses : opnOpener[p].at = "migrating" =>
    /\ Len(opnOpener[p].read) <= Len(opnHistory)
    /\ \A v \in 1..Len(opnOpener[p].read) :
         opnHistory[v] # opnOpener[p].read[v]
           => opnOpener[p].read[v] = "" /\ FromBuild(v, opnHistory[v])

(* A row without a checksum is one of those there may be.                  *)
OnlyUnchecked ==
  /\ \A v \in 1..Len(opnHistory) : opnHistory[v] = "" => Unchecked(v)
  /\ \A p \in OpeningProcesses : opnOpener[p].at = "migrating" =>
       \A v \in 1..Len(opnOpener[p].read) : opnOpener[p].read[v] = "" => Unchecked(v)

(* A process that begins has compared nothing.                             *)
BeginsWithNone ==
  \A p \in OpeningProcesses :
    opnOpener[p].at \in {"closed", "stat", "created"} => opnOpener[p].applied = 0

(* A process that found no file seeds it, agent by agent, and is then open. *)
SeedsAreIn ==
  \A p \in OpeningProcesses :
    /\ opnOpener[p].at \notin {"seeding", "open"} => opnOpener[p].seeds = 0
    /\ opnOpener[p].at = "seeding" => opnOpener[p].seeds <= 2 /\ opnOpener[p].seeds <= opnAgents
    /\ opnOpener[p].at = "open" /\ ~opnOpener[p].existed => opnAgents >= 2

(* The inductive invariant of the openers of one file.                     *)
OpeningIInv ==
  /\ OpeningTyped /\ Opening!RunOnce /\ AppliedFits /\ OpenHasApplied /\ ReadIsKept
  /\ OnlyUnchecked /\ BeginsWithNone

(* What a build embeds is a sequence of checksums, of which none is empty. *)
LEMMA EmbeddedChecksums ==
  /\ OpeningEmbedded \in [OpeningProcesses -> Seq(STRING)]
  /\ \A p \in OpeningProcesses : \A v \in DOMAIN OpeningEmbedded[p] :
       OpeningEmbedded[p][v] \in STRING /\ OpeningEmbedded[p][v] # ""
<1>1. ASSUME NEW p \in OpeningProcesses
      PROVE  /\ OpeningEmbedded[p] \in Seq(STRING)
             /\ \A v \in DOMAIN OpeningEmbedded[p] :
                  OpeningEmbedded[p][v] \in STRING /\ OpeningEmbedded[p][v] # ""
  <2>1. PICK s : s = OpeningEmbedded[p]
    OBVIOUS
  <2>2. s \in Seq(STRING \ {""})
    BY <2>1, OpeningAssumption
  <2>3. \A v \in 1..Len(s) : s[v] \in STRING \ {""}
    BY <2>2, ElementOfSeq
  <2>4. DOMAIN s = 1..Len(s)
    BY <2>2, LenProperties
  <2>5. s \in Seq(STRING)
    <3>1. STRING \ {""} \subseteq STRING
      OBVIOUS
    <3> QED
      BY <2>2, <3>1, SeqMonotonic
  <2> QED
    BY <2>1, <2>3, <2>4, <2>5
<1> QED
  BY <1>1, OpeningAssumption

(* The lengths of the sequences there are.                                 *)
LEMMA OpeningLengths ==
  ASSUME OpeningTyped
  PROVE  /\ Len(opnHistory) \in Nat /\ DOMAIN opnHistory = 1..Len(opnHistory)
         /\ \A p \in OpeningProcesses :
              /\ Len(OpeningEmbedded[p]) \in Nat
              /\ DOMAIN OpeningEmbedded[p] = 1..Len(OpeningEmbedded[p])
              /\ Len(opnOpener[p].read) \in Nat
              /\ opnOpener[p].applied \in Nat
<1>1. ASSUME NEW p \in OpeningProcesses
      PROVE  opnOpener[p].read \in Seq(STRING) /\ OpeningEmbedded[p] \in Seq(STRING)
  BY EmbeddedChecksums DEF OpeningTyped, Opener
<1> QED
  BY <1>1, LenProperties DEF OpeningTyped, Opener

(* A migration that a build embeds is one of the versions.                 *)
LEMMA EmbeddedIsVersion ==
  ASSUME NEW p \in OpeningProcesses, NEW v \in DOMAIN OpeningEmbedded[p]
  PROVE  v \in Opening!Versions
BY DEF Opening!Versions

(* Of the migrations in the file each was committed once.                  *)
LEMMA OpeningInit == Opening!Init => OpeningIInv
<1> SUFFICES ASSUME Opening!Init PROVE OpeningIInv
  OBVIOUS
<1> USE DEF Opening!Init
<1>1. opnHistory \in Seq(STRING)
  <2>1. <<>> \in Seq(STRING)
    BY EmptySeq
  <2> QED
    BY <2>1, OpeningAssumption
<1>2. Opening!Closed \in Opener
  BY EmptySeq DEF Opening!Closed, Opener, OpeningPlaces
<1>3. \A p \in OpeningProcesses : opnOpener[p] = Opening!Closed
  OBVIOUS
<1>4. OpeningTyped
  BY <1>1, <1>2 DEF OpeningTyped
<1>5. Opening!RunOnce
  <2>1. opnExists => opnHistory \in OpeningHistories
    OBVIOUS
  <2>2. \A v \in Opening!Versions : v \in Nat \ {0}
    <3>1. ASSUME NEW s \in {OpeningEmbedded[p] : p \in OpeningProcesses} \cup OpeningHistories
          PROVE  DOMAIN s \subseteq Nat \ {0}
      <4>1. s \in Seq(STRING)
        <5>1. \A p \in OpeningProcesses : OpeningEmbedded[p] \in Seq(STRING)
          BY EmbeddedChecksums
        <5> QED
          BY <5>1, OpeningAssumption
      <4>2. DOMAIN s = 1..Len(s) /\ Len(s) \in Nat
        BY <4>1, LenProperties
      <4> QED
        BY <4>2
    <3> QED
      BY <3>1 DEF Opening!Versions
  <2> QED
    BY <1>1, <2>2 DEF Opening!RunOnce
<1>6. OnlyUnchecked
  <2>1. opnHistory = <<>> \/ opnHistory \in OpeningHistories
    OBVIOUS
  <2>2. \A v \in 1..Len(opnHistory) : v \in DOMAIN opnHistory
    BY <1>1, LenProperties
  <2>3. \A v \in 1..Len(opnHistory) : opnHistory[v] = "" => Unchecked(v)
    <3>1. CASE opnHistory = <<>>
      <4>1. Len(opnHistory) = 0
        BY <3>1, EmptySeq
      <4>2. 1..Len(opnHistory) = {}
        BY <4>1
      <4> QED
        BY <4>2
    <3>2. CASE opnHistory \in OpeningHistories
      BY <2>2, <3>2 DEF Unchecked
    <3> QED
      BY <2>1, <3>1, <3>2
  <2> QED
    BY <1>3, <2>3 DEF OnlyUnchecked, Opening!Closed
<1> QED
  BY <1>3, <1>4, <1>5, <1>6 DEF OpeningIInv, AppliedFits, OpenHasApplied, ReadIsKept,
     BeginsWithNone, Opening!Closed

(* A step of one process that leaves the tables of migrations alone.       *)
LEMMA OpenerMoves ==
  ASSUME OpeningIInv, NEW p \in OpeningProcesses, NEW w \in Opener,
         opnOpener' = [opnOpener EXCEPT ![p] = w], UNCHANGED <<opnHistory, opnRan>>,
         opnExists' \in BOOLEAN, opnAgents' \in Nat,
         \/ w.at \in {"closed", "stat", "created"} /\ w.applied = 0
         \/ /\ w.at = "migrating" /\ opnOpener[p].at = "created" /\ w.read = opnHistory
            /\ w.applied = 0
         \/ /\ w.at = "migrating" /\ opnOpener[p].at = "migrating" /\ w.read = opnOpener[p].read
            /\ w.applied <= Len(opnHistory) /\ w.applied <= Len(OpeningEmbedded[p])
            /\ \A v \in 1..w.applied : opnHistory[v] = OpeningEmbedded[p][v]
         \/ /\ w.at \in {"seeding", "open"} /\ w.applied = opnOpener[p].applied
            /\ opnOpener[p].at \in {"migrating", "seeding", "open"}
            /\ w.applied = Len(OpeningEmbedded[p])
  PROVE  OpeningIInv'
<1>1. OpeningTyped'
  BY DEF OpeningIInv, OpeningTyped
<1>2. opnOpener'[p] = w /\ \A q \in OpeningProcesses : q # p => opnOpener'[q] = opnOpener[q]
  BY DEF OpeningIInv, OpeningTyped
<1>3. Opening!RunOnce'
  BY DEF OpeningIInv, Opening!RunOnce
<1>4. AppliedFits'
  BY <1>2 DEF OpeningIInv, OpeningTyped, AppliedFits
<1>5. OpenHasApplied' /\ BeginsWithNone'
  BY <1>2 DEF OpeningIInv, OpenHasApplied, BeginsWithNone
<1>6. ReadIsKept'
  <2> SUFFICES ASSUME NEW q \in OpeningProcesses, opnOpener'[q].at = "migrating"
               PROVE  /\ Len(opnOpener'[q].read) <= Len(opnHistory)
                      /\ \A v \in 1..Len(opnOpener'[q].read) :
                           opnHistory[v] # opnOpener'[q].read[v]
                             => opnOpener'[q].read[v] = "" /\ FromBuild(v, opnHistory[v])
    BY DEF ReadIsKept, FromBuild
  <2>1. CASE opnOpener[q].at = "migrating" /\ opnOpener'[q].read = opnOpener[q].read
    BY <2>1 DEF OpeningIInv, ReadIsKept
  <2>2. CASE opnOpener'[q].read = opnHistory
    <3>1. Len(opnHistory) \in Nat
      BY LenProperties DEF OpeningIInv, OpeningTyped
    <3>2. Len(opnOpener'[q].read) <= Len(opnHistory)
      BY <2>2, <3>1
    <3>3. \A v : opnHistory[v] = opnOpener'[q].read[v]
      BY <2>2
    <3> QED
      BY <3>2, <3>3
  <2> QED
    BY <1>2, <2>1, <2>2
<1>7. OnlyUnchecked'
  <2> SUFFICES ASSUME NEW q \in OpeningProcesses, opnOpener'[q].at = "migrating",
                      NEW v \in 1..Len(opnOpener'[q].read), opnOpener'[q].read[v] = ""
               PROVE  Unchecked(v)
    BY DEF OnlyUnchecked, OpeningIInv, Unchecked
  <2> QED
    BY <1>2 DEF OnlyUnchecked, OpeningIInv
<1> QED
  BY <1>1, <1>3, <1>4, <1>5, <1>6, <1>7 DEF OpeningIInv

(* A row that was read without a checksum gets the one of a build, which   *)
(* is the one it has if another build was first.                           *)
LEMMA CompareRowOpening ==
  ASSUME OpeningIInv, NEW p \in OpeningProcesses, Opening!CompareRow(p)
  PROVE  OpeningIInv'
<1> DEFINE v == opnOpener[p].applied + 1
           read == opnOpener[p].read
           fits == v \in DOMAIN OpeningEmbedded[p] /\ read[v] \in {"", OpeningEmbedded[p][v]}
<1>1. /\ opnOpener[p].at = "migrating" /\ v \in 1..Len(read) /\ v \in Nat \ {0}
      /\ opnOpener[p] \in Opener /\ opnHistory \in Seq(STRING)
      /\ OpeningEmbedded[p] \in Seq(STRING)
      /\ UNCHANGED <<opnExists, opnRan, opnAgents>>
  <2>1. OpeningEmbedded[p] \in Seq(STRING)
    BY EmbeddedChecksums
  <2>2. opnOpener[p] \in Opener /\ read \in Seq(STRING) /\ opnOpener[p].applied \in Nat
    BY DEF OpeningIInv, OpeningTyped, Opener
  <2>3. DOMAIN read = 1..Len(read)
    BY <2>2, LenProperties
  <2> QED
    BY <2>1, <2>2, <2>3 DEF OpeningIInv, OpeningTyped, Opening!CompareRow
<1>l. /\ Len(opnHistory) \in Nat /\ DOMAIN opnHistory = 1..Len(opnHistory)
      /\ Len(OpeningEmbedded[p]) \in Nat
      /\ DOMAIN OpeningEmbedded[p] = 1..Len(OpeningEmbedded[p])
      /\ Len(read) \in Nat
  BY <1>1, LenProperties DEF Opener
<1>2. Len(read) <= Len(opnHistory) /\ v \in 1..Len(opnHistory)
  <2>1. Len(read) <= Len(opnHistory)
    BY <1>1 DEF OpeningIInv, ReadIsKept
  <2> HIDE DEF read, v
  <2> QED
    BY <1>1, <1>l, <2>1
<1>3. opnHistory[v] # read[v]
        => read[v] = "" /\ FromBuild(v, opnHistory[v])
  BY <1>1 DEF OpeningIInv, ReadIsKept
<1>4. CASE ~fits
  <2>1. opnOpener' = [opnOpener EXCEPT ![p] = Opening!Closed] /\ opnHistory' = opnHistory
    BY <1>4 DEF Opening!CompareRow, Opening!fail, Opening!NoChecksum
  <2>2. Opening!Closed \in Opener /\ Opening!Closed.at = "closed" /\ Opening!Closed.applied = 0
    BY EmptySeq DEF Opening!Closed, Opener, OpeningPlaces
  <2>3. opnExists' \in BOOLEAN /\ opnAgents' \in Nat
    BY <1>1 DEF OpeningIInv, OpeningTyped
  <2> HIDE DEF fits
  <2> QED
    BY <1>1, <2>1, <2>2, <2>3, OpenerMoves
<1>5. CASE fits
  <2> DEFINE w == [opnOpener[p] EXCEPT !.applied = v]
             h == opnHistory'
  <2>1. /\ opnOpener' = [opnOpener EXCEPT ![p] = w]
        /\ h = IF read[v] = "" THEN [opnHistory EXCEPT ![v] = OpeningEmbedded[p][v]]
               ELSE opnHistory
    BY <1>5 DEF Opening!CompareRow, Opening!NoChecksum, OpeningIInv, OpeningTyped
  <2>2. w \in Opener /\ w.at = "migrating" /\ w.applied = v /\ w.read = read
    BY <1>1 DEF Opener
  <2>3. opnOpener'[p] = w /\ \A q \in OpeningProcesses : q # p => opnOpener'[q] = opnOpener[q]
    BY <2>1 DEF OpeningIInv, OpeningTyped
  <2>4. OpeningEmbedded[p][v] \in STRING /\ v \in DOMAIN OpeningEmbedded[p]
          /\ v <= Len(OpeningEmbedded[p])
    <3>1. v \in DOMAIN OpeningEmbedded[p]
      BY <1>5
    <3> HIDE DEF v
    <3> QED
      BY <1>1, <1>l, <3>1, ElementOfSeq
  <2>5. /\ h \in Seq(STRING) /\ Len(h) = Len(opnHistory)
        /\ \A u \in 1..Len(opnHistory) : u # v => h[u] = opnHistory[u]
        /\ read[v] = "" => h[v] = OpeningEmbedded[p][v]
    <3> DEFINE g == [opnHistory EXCEPT ![v] = OpeningEmbedded[p][v]]
    <3>1. /\ g \in Seq(STRING) /\ Len(g) = Len(opnHistory) /\ g[v] = OpeningEmbedded[p][v]
          /\ \A u \in 1..Len(opnHistory) : u # v => g[u] = opnHistory[u]
      <4> HIDE DEF v
      <4> QED
        BY <1>1, <1>2, <1>l, <2>4, ExceptSeq
    <3> HIDE DEF g, v
    <3>2. h = IF read[v] = "" THEN g ELSE opnHistory
      BY <2>1 DEF g
    <3> QED
      BY <1>1, <3>1, <3>2
  <2>6. h[v] = OpeningEmbedded[p][v]
    <3>1. CASE read[v] = ""
      BY <2>5, <3>1
    <3>2. CASE read[v] # ""
      BY <1>3, <1>5, <2>1, <3>2
    <3> QED
      BY <3>1, <3>2
  <2>7. FromBuild(v, h[v])
    BY <2>4, <2>6 DEF FromBuild
  <2>8. \/ h[v] = opnHistory[v]
        \/ opnHistory[v] = ""
    <3>1. CASE opnHistory[v] = read[v]
      BY <1>1, <2>1, <2>4, <3>1
    <3>2. CASE opnHistory[v] # read[v]
      <4>1. read[v] = "" /\ FromBuild(v, opnHistory[v])
        BY <1>3, <3>2
      <4>2. Unchecked(v)
        BY <1>1, <4>1 DEF OpeningIInv, OnlyUnchecked
      <4> QED
        BY <2>4, <2>6, <4>1, <4>2, OpeningAssumption DEF FromBuild
    <3> QED
      BY <3>1, <3>2
  <2> HIDE DEF h, w, fits
  <2>9. OpeningTyped'
    BY <1>1, <2>1, <2>2, <2>5 DEF h, OpeningIInv, OpeningTyped
  <2>10. Opening!RunOnce'
    <3>1. DOMAIN h = DOMAIN opnHistory
      BY <1>l, <2>5, LenProperties
    <3> QED
      BY <1>1, <3>1 DEF h, OpeningIInv, Opening!RunOnce
  <2>11. AppliedFits'
    <3> SUFFICES ASSUME NEW q \in OpeningProcesses,
                        opnOpener'[q].at \in {"migrating", "seeding", "open"}
                 PROVE  /\ opnOpener'[q].applied <= Len(h)
                        /\ opnOpener'[q].applied <= Len(OpeningEmbedded[q])
                        /\ \A u \in 1..opnOpener'[q].applied : h[u] = OpeningEmbedded[q][u]
      BY DEF AppliedFits, h
    <3>1. CASE q = p
      <4>1. \A u \in 1..opnOpener[p].applied : h[u] = OpeningEmbedded[p][u]
        <5>1. /\ opnOpener[p].applied \in Nat /\ opnOpener[p].applied <= Len(opnHistory)
              /\ \A u \in 1..opnOpener[p].applied : opnHistory[u] = OpeningEmbedded[p][u]
          BY <1>1 DEF OpeningIInv, AppliedFits, Opener
        <5>2. ASSUME NEW u \in 1..opnOpener[p].applied PROVE h[u] = OpeningEmbedded[p][u]
          <6>1. u # v /\ u \in 1..Len(opnHistory)
            BY <1>l, <5>1 DEF v
          <6> QED
            BY <2>5, <5>1, <6>1
        <5> QED
          BY <5>2
      <4> QED
        BY <1>1, <1>2, <2>2, <2>3, <2>4, <2>5, <2>6, <3>1, <4>1 DEF Opener
    <3>2. CASE q # p
      <4>1. /\ opnOpener'[q] = opnOpener[q] /\ opnOpener[q].applied \in Nat
            /\ opnOpener[q].applied <= Len(opnHistory)
            /\ opnOpener[q].applied <= Len(OpeningEmbedded[q])
            /\ \A u \in 1..opnOpener[q].applied : opnHistory[u] = OpeningEmbedded[q][u]
        BY <2>3, <3>2 DEF OpeningIInv, OpeningTyped, Opener, AppliedFits
      <4>2. v <= opnOpener[q].applied => h[v] = OpeningEmbedded[q][v]
        <5> SUFFICES ASSUME v <= opnOpener[q].applied
                     PROVE  h[v] = OpeningEmbedded[q][v]
          OBVIOUS
        <5>1. v \in 1..opnOpener[q].applied /\ v \in 1..Len(OpeningEmbedded[q])
          BY <1>1, <4>1, OpeningLengths DEF OpeningIInv
        <5>2. opnHistory[v] = OpeningEmbedded[q][v]
          BY <4>1, <5>1
        <5>3. OpeningEmbedded[q][v] # ""
          BY <5>1, EmbeddedChecksums, OpeningLengths DEF OpeningIInv
        <5> QED
          BY <2>8, <5>2, <5>3
      <4> QED
        BY <1>1, <2>5, <2>6, <4>1, <4>2
    <3> QED
      BY <3>1, <3>2
  <2>12. OpenHasApplied' /\ BeginsWithNone'
    BY <2>2, <2>3 DEF OpeningIInv, OpenHasApplied, BeginsWithNone
  <2>13. ReadIsKept'
    <3> SUFFICES ASSUME NEW q \in OpeningProcesses, opnOpener'[q].at = "migrating"
                 PROVE  /\ Len(opnOpener'[q].read) <= Len(h)
                        /\ \A u \in 1..Len(opnOpener'[q].read) :
                             h[u] # opnOpener'[q].read[u]
                               => opnOpener'[q].read[u] = "" /\ FromBuild(u, h[u])
      BY DEF ReadIsKept, FromBuild, h
    <3>1. opnOpener'[q].read = opnOpener[q].read /\ opnOpener[q].at = "migrating"
            /\ opnOpener[q].read \in Seq(STRING)
      BY <1>1, <2>2, <2>3 DEF OpeningIInv, OpeningTyped, Opener
    <3>2. /\ Len(opnOpener[q].read) <= Len(opnHistory)
          /\ \A u \in 1..Len(opnOpener[q].read) :
               opnHistory[u] # opnOpener[q].read[u]
                 => opnOpener[q].read[u] = "" /\ FromBuild(u, opnHistory[u])
      BY <3>1 DEF OpeningIInv, ReadIsKept
    <3>3. v \in 1..Len(opnOpener[q].read) /\
            h[v] # opnOpener[q].read[v]
              => opnOpener[q].read[v] = "" /\ FromBuild(v, h[v])
      BY <2>7, <2>8, <3>2
    <3>4. Len(opnOpener[q].read) \in Nat
      BY <3>1, LenProperties
    <3>5. Len(opnOpener[q].read) <= Len(h) /\ Len(opnOpener[q].read) <= Len(opnHistory)
      BY <2>5, <3>2
    <3>6. ASSUME NEW u \in 1..Len(opnOpener[q].read)
          PROVE  h[u] # opnOpener[q].read[u]
                   => opnOpener[q].read[u] = "" /\ FromBuild(u, h[u])
      <4>1. CASE u = v
        BY <3>3, <4>1
      <4>2. CASE u # v
        <5>1. u \in 1..Len(opnHistory)
          BY <1>l, <3>4, <3>5
        <5>2. h[u] = opnHistory[u]
          BY <2>5, <4>2, <5>1
        <5> QED
          BY <3>2, <5>2
      <4> QED
        BY <4>1, <4>2
    <3> QED
      BY <3>1, <3>5, <3>6
  <2>14. OnlyUnchecked'
    <3>1. h[v] # ""
      BY <2>4, <2>6, EmbeddedChecksums
    <3>2. ASSUME NEW u \in 1..Len(h), h[u] = "" PROVE Unchecked(u)
      <4>1. u # v /\ u \in 1..Len(opnHistory)
        BY <2>5, <3>1, <3>2
      <4>2. opnHistory[u] = ""
        BY <2>5, <3>2, <4>1
      <4> QED
        BY <4>1, <4>2 DEF OpeningIInv, OnlyUnchecked
    <3>3. ASSUME NEW q \in OpeningProcesses, opnOpener'[q].at = "migrating",
                 NEW u \in 1..Len(opnOpener'[q].read), opnOpener'[q].read[u] = ""
          PROVE  Unchecked(u)
      <4>1. opnOpener'[q].read = opnOpener[q].read /\ opnOpener[q].at = "migrating"
        BY <1>1, <2>2, <2>3, <3>3
      <4> QED
        BY <3>3, <4>1 DEF OpeningIInv, OnlyUnchecked
    <3> QED
      BY <3>2, <3>3 DEF OnlyUnchecked, Unchecked, h
  <2> QED
    BY <2>9, <2>10, <2>11, <2>12, <2>13, <2>14 DEF OpeningIInv
<1> QED
  BY <1>4, <1>5

(* A migration is applied once: its version is the primary key.            *)
LEMMA applyMigrationOpening ==
  ASSUME OpeningIInv, NEW p \in OpeningProcesses, Opening!applyMigration(p)
  PROVE  OpeningIInv'
<1> DEFINE v == opnOpener[p].applied + 1
<1>1. /\ opnOpener[p].at = "migrating" /\ opnOpener[p].applied < Len(OpeningEmbedded[p])
      /\ opnOpener[p].applied \in Nat /\ opnOpener[p] \in Opener
      /\ opnHistory \in Seq(STRING) /\ OpeningEmbedded[p] \in Seq(STRING)
      /\ UNCHANGED <<opnExists, opnAgents>> /\ opnExists' \in BOOLEAN /\ opnAgents' \in Nat
  BY EmbeddedChecksums DEF OpeningIInv, OpeningTyped, Opener, Opening!applyMigration,
     Opening!Compared
<1>l. /\ Len(opnHistory) \in Nat /\ DOMAIN opnHistory = 1..Len(opnHistory)
      /\ Len(OpeningEmbedded[p]) \in Nat
      /\ DOMAIN OpeningEmbedded[p] = 1..Len(OpeningEmbedded[p])
  BY OpeningLengths DEF OpeningIInv
<1>2. /\ opnOpener[p].applied <= Len(opnHistory)
      /\ \A u \in 1..opnOpener[p].applied : opnHistory[u] = OpeningEmbedded[p][u]
  BY <1>1 DEF OpeningIInv, AppliedFits
<1>3. CASE v \in DOMAIN opnHistory
  <2>1. /\ opnOpener' = [opnOpener EXCEPT ![p] = Opening!Closed]
        /\ opnHistory' = opnHistory /\ opnRan' = opnRan
    BY <1>3 DEF Opening!applyMigration, Opening!fail
  <2>2. Opening!Closed \in Opener /\ Opening!Closed.at = "closed" /\ Opening!Closed.applied = 0
    BY EmptySeq DEF Opening!Closed, Opener, OpeningPlaces
  <2> QED
    BY <1>1, <2>1, <2>2, OpenerMoves
<1>4. CASE v \notin DOMAIN opnHistory
  <2> DEFINE w == [opnOpener[p] EXCEPT !.applied = v]
             h == Append(opnHistory, OpeningEmbedded[p][v])
  <2>1. /\ opnOpener' = [opnOpener EXCEPT ![p] = w] /\ opnHistory' = h
        /\ opnRan' = [opnRan EXCEPT ![v] = opnRan[v] + 1]
    BY <1>4 DEF Opening!applyMigration, OpeningIInv, OpeningTyped
  <2>2. w \in Opener /\ w.at = "migrating" /\ w.applied = v /\ w.read = opnOpener[p].read
    <3>1. v \in Nat
      BY <1>1
    <3> HIDE DEF v
    <3> QED
      BY <1>1, <3>1 DEF Opener
  <2>3. opnOpener'[p] = w /\ \A q \in OpeningProcesses : q # p => opnOpener'[q] = opnOpener[q]
    BY <2>1 DEF OpeningIInv, OpeningTyped
  <2>4. /\ OpeningEmbedded[p][v] \in STRING /\ v \in DOMAIN OpeningEmbedded[p]
        /\ v = Len(opnHistory) + 1 /\ v \in Nat
    <3>1. v \in 1..Len(OpeningEmbedded[p]) /\ v = Len(opnHistory) + 1 /\ v \in Nat
      BY <1>1, <1>l, <1>2, <1>4
    <3> QED
      BY <1>1, <1>l, <3>1, ElementOfSeq
  <2>5. /\ h \in Seq(STRING) /\ Len(h) = v /\ h[v] = OpeningEmbedded[p][v]
        /\ \A u \in 1..Len(opnHistory) : h[u] = opnHistory[u]
    BY <1>1, <2>4, AppendProperties
  <2>6. v \in Opening!Versions
    BY <2>4, EmbeddedIsVersion
  <2> HIDE DEF h, w
  <2>7. OpeningTyped'
    BY <1>1, <2>1, <2>2, <2>5, <2>6 DEF OpeningIInv, OpeningTyped
  <2>8. Opening!RunOnce'
    <3>1. DOMAIN opnHistory = 1..Len(opnHistory) /\ DOMAIN h = 1..v
      BY <1>1, <2>5
    <3>2. \A u \in Opening!Versions : opnRan[u] = IF u \in DOMAIN opnHistory THEN 1 ELSE 0
      BY DEF OpeningIInv, Opening!RunOnce
    <3>3. opnRan'[v] = 1
      BY <1>4, <2>1, <2>6, <3>2 DEF OpeningIInv, OpeningTyped
    <3>4. \A u \in Opening!Versions : u # v => opnRan'[u] = opnRan[u]
      BY <2>1 DEF OpeningIInv, OpeningTyped
    <3>5. v \in 1..v /\ \A u : u # v => (u \in 1..v <=> u \in 1..Len(opnHistory))
      BY <1>1, <2>4
    <3> QED
      BY <2>1, <3>1, <3>2, <3>3, <3>4, <3>5 DEF Opening!RunOnce
  <2>9. AppliedFits'
    <3> SUFFICES ASSUME NEW q \in OpeningProcesses,
                        opnOpener'[q].at \in {"migrating", "seeding", "open"}
                 PROVE  /\ opnOpener'[q].applied <= Len(h)
                        /\ opnOpener'[q].applied <= Len(OpeningEmbedded[q])
                        /\ \A u \in 1..opnOpener'[q].applied : h[u] = OpeningEmbedded[q][u]
      BY <2>1 DEF AppliedFits
    <3>1. CASE q = p
      <4>1. v <= Len(h) /\ v <= Len(OpeningEmbedded[p])
        BY <1>l, <2>4, <2>5
      <4>2. \A u \in 1..v : h[u] = OpeningEmbedded[p][u]
        BY <1>1, <1>l, <1>2, <2>4, <2>5
      <4> QED
        BY <2>2, <2>3, <3>1, <4>1, <4>2
    <3>2. CASE q # p
      <4>1. /\ opnOpener'[q] = opnOpener[q] /\ opnOpener[q].applied \in Nat
            /\ opnOpener[q].applied <= Len(opnHistory)
            /\ opnOpener[q].applied <= Len(OpeningEmbedded[q])
            /\ \A u \in 1..opnOpener[q].applied : opnHistory[u] = OpeningEmbedded[q][u]
        BY <2>3, <3>2 DEF OpeningIInv, OpeningTyped, Opener, AppliedFits
      <4> QED
        BY <1>l, <2>4, <2>5, <4>1
    <3> QED
      BY <3>1, <3>2
  <2>10. OpenHasApplied' /\ BeginsWithNone'
    BY <2>2, <2>3 DEF OpeningIInv, OpenHasApplied, BeginsWithNone
  <2>11. ReadIsKept'
    <3> SUFFICES ASSUME NEW q \in OpeningProcesses, opnOpener'[q].at = "migrating"
                 PROVE  /\ Len(opnOpener'[q].read) <= Len(h)
                        /\ \A u \in 1..Len(opnOpener'[q].read) :
                             h[u] # opnOpener'[q].read[u]
                               => opnOpener'[q].read[u] = "" /\ FromBuild(u, h[u])
      BY <2>1 DEF ReadIsKept, FromBuild
    <3>1. opnOpener'[q].read = opnOpener[q].read /\ opnOpener[q].at = "migrating"
            /\ opnOpener[q].read \in Seq(STRING)
      BY <1>1, <2>2, <2>3 DEF OpeningIInv, OpeningTyped, Opener
    <3>2. /\ Len(opnOpener[q].read) <= Len(opnHistory)
          /\ \A u \in 1..Len(opnOpener[q].read) :
               opnHistory[u] # opnOpener[q].read[u]
                 => opnOpener[q].read[u] = "" /\ FromBuild(u, opnHistory[u])
      BY <3>1 DEF OpeningIInv, ReadIsKept
    <3>3. Len(opnOpener[q].read) \in Nat
      BY <3>1, LenProperties
    <3>l. Len(opnOpener[q].read) <= Len(opnHistory)
      BY <3>2
    <3>4. Len(opnOpener[q].read) <= Len(h)
      BY <1>l, <2>4, <2>5, <3>l, <3>3
    <3>5. ASSUME NEW u \in 1..Len(opnOpener[q].read)
          PROVE  h[u] # opnOpener[q].read[u]
                   => opnOpener[q].read[u] = "" /\ FromBuild(u, h[u])
      <4>1. u \in 1..Len(opnHistory)
        BY <1>l, <3>l, <3>3
      <4>2. h[u] = opnHistory[u]
        BY <2>5, <4>1
      <4> QED
        BY <3>2, <4>2
    <3> QED
      BY <3>1, <3>4, <3>5
  <2>12. OnlyUnchecked'
    <3>1. h[v] # ""
      BY <2>4, <2>5, EmbeddedChecksums
    <3>2. ASSUME NEW u \in 1..Len(h), h[u] = "" PROVE Unchecked(u)
      <4>1. u # v /\ u \in 1..v
        BY <2>5, <3>1, <3>2
      <4>2. u \in 1..Len(opnHistory)
        BY <1>l, <2>4, <4>1
      <4>3. opnHistory[u] = ""
        BY <2>5, <3>2, <4>2
      <4> QED
        BY <4>2, <4>3 DEF OpeningIInv, OnlyUnchecked
    <3>3. ASSUME NEW q \in OpeningProcesses, opnOpener'[q].at = "migrating",
                 NEW u \in 1..Len(opnOpener'[q].read), opnOpener'[q].read[u] = ""
          PROVE  Unchecked(u)
      <4>1. opnOpener'[q].read = opnOpener[q].read /\ opnOpener[q].at = "migrating"
        BY <1>1, <2>2, <2>3, <3>3
      <4> QED
        BY <3>3, <4>1 DEF OpeningIInv, OnlyUnchecked
    <3> QED
      BY <2>1, <3>2, <3>3 DEF OnlyUnchecked, Unchecked
  <2> QED
    BY <2>7, <2>8, <2>9, <2>10, <2>11, <2>12 DEF OpeningIInv
<1> QED
  BY <1>3, <1>4

(* No statement of another process takes a migration away or repeats it.   *)
LEMMA OpeningStep ==
  ASSUME OpeningIInv, [Opening!Next]_opnVars
  PROVE  OpeningIInv'
<1>1. CASE UNCHANGED opnVars
  BY <1>1 DEF opnVars, OpeningIInv, OpeningTyped, Opening!RunOnce, AppliedFits, OpenHasApplied,
     ReadIsKept, OnlyUnchecked, Unchecked, BeginsWithNone, FromBuild
<1>2. ASSUME NEW p \in OpeningProcesses,
             \/ Opening!Stat(p) \/ Opening!CreateFile(p)
             \/ Opening!validateAppliedMigrations(p) \/ Opening!Migrated(p)
             \/ Opening!SeedAgent(p) \/ Opening!Close(p)
      PROVE  OpeningIInv'
  <2>1. opnOpener[p] \in Opener /\ opnExists \in BOOLEAN /\ opnAgents \in Nat
          /\ opnHistory \in Seq(STRING)
    BY DEF OpeningIInv, OpeningTyped
  <2>2. CASE Opening!Stat(p)
    <3> DEFINE w == [opnOpener[p] EXCEPT !.at = "stat", !.existed = opnExists]
    <3>1. /\ opnOpener' = [opnOpener EXCEPT ![p] = w]
          /\ UNCHANGED <<opnHistory, opnRan, opnExists, opnAgents>>
      BY <2>2 DEF Opening!Stat, OpeningIInv, OpeningTyped
    <3>2. w \in Opener /\ w.at = "stat" /\ w.applied = 0
      BY <2>1, <2>2 DEF Opening!Stat, Opener, OpeningPlaces, OpeningIInv, BeginsWithNone
    <3> HIDE DEF w
    <3> QED
      BY <2>1, <3>1, <3>2, OpenerMoves
  <2>3. CASE Opening!CreateFile(p)
    <3> DEFINE w == [opnOpener[p] EXCEPT !.at = "created"]
    <3>1. /\ opnOpener' = [opnOpener EXCEPT ![p] = w] /\ opnExists' \in BOOLEAN
          /\ UNCHANGED <<opnHistory, opnRan, opnAgents>>
      BY <2>3 DEF Opening!CreateFile, Opening!to, OpeningIInv, OpeningTyped
    <3>2. w \in Opener /\ w.at = "created" /\ w.applied = 0
      BY <2>1, <2>3 DEF Opening!CreateFile, Opener, OpeningPlaces, OpeningIInv, BeginsWithNone
    <3> HIDE DEF w
    <3> QED
      BY <2>1, <3>1, <3>2, OpenerMoves
  <2>4. CASE Opening!validateAppliedMigrations(p)
    <3> DEFINE w == [opnOpener[p] EXCEPT !.at = "migrating", !.read = opnHistory]
    <3>1. /\ opnOpener' = [opnOpener EXCEPT ![p] = w] /\ opnOpener[p].at = "created"
          /\ UNCHANGED <<opnHistory, opnRan, opnExists, opnAgents>>
      BY <2>4 DEF Opening!validateAppliedMigrations, OpeningIInv, OpeningTyped
    <3>2. w \in Opener /\ w.at = "migrating" /\ w.applied = 0 /\ w.read = opnHistory
      BY <2>1, <3>1 DEF Opener, OpeningPlaces, OpeningIInv, BeginsWithNone
    <3> HIDE DEF w
    <3> QED
      BY <2>1, <3>1, <3>2, OpenerMoves
  <2>5. CASE Opening!Migrated(p)
    <3> DEFINE place == IF opnOpener[p].existed THEN "open" ELSE "seeding"
               w == [opnOpener[p] EXCEPT !.at = place]
    <3>1. /\ opnOpener' = [opnOpener EXCEPT ![p] = w]
          /\ UNCHANGED <<opnHistory, opnRan, opnExists, opnAgents>>
      BY <2>5 DEF Opening!Migrated, Opening!to, OpeningIInv, OpeningTyped
    <3>2. /\ w \in Opener /\ w.at \in {"seeding", "open"} /\ w.applied = opnOpener[p].applied
          /\ w.applied = Len(OpeningEmbedded[p]) /\ opnOpener[p].at = "migrating"
      BY <2>1, <2>5 DEF Opener, OpeningPlaces, Opening!Migrated, Opening!Compared
    <3> HIDE DEF w, place
    <3> QED
      BY <2>1, <3>1, <3>2, OpenerMoves
  <2>6. CASE Opening!SeedAgent(p) /\ opnOpener[p].seeds = 2
    <3> DEFINE w == [opnOpener[p] EXCEPT !.at = "open"]
    <3>1. /\ opnOpener' = [opnOpener EXCEPT ![p] = w] /\ opnOpener[p].at = "seeding"
          /\ UNCHANGED <<opnHistory, opnRan, opnExists, opnAgents>>
      BY <2>6 DEF Opening!SeedAgent, Opening!to, OpeningIInv, OpeningTyped
    <3>2. /\ w \in Opener /\ w.at \in {"seeding", "open"} /\ w.applied = opnOpener[p].applied
          /\ w.applied = Len(OpeningEmbedded[p])
      BY <2>1, <3>1 DEF Opener, OpeningPlaces, OpeningIInv, OpenHasApplied
    <3> HIDE DEF w
    <3> QED
      BY <2>1, <3>1, <3>2, OpenerMoves
  <2>7. CASE Opening!SeedAgent(p) /\ opnOpener[p].seeds # 2
    <3> DEFINE n == opnOpener[p].seeds + 1
               w == [opnOpener[p] EXCEPT !.seeds = n]
    <3>1. /\ opnOpener' = [opnOpener EXCEPT ![p] = w] /\ opnOpener[p].at = "seeding"
          /\ UNCHANGED <<opnHistory, opnRan, opnExists>> /\ opnAgents' = opnAgents + 1
      BY <2>7 DEF Opening!SeedAgent, OpeningIInv, OpeningTyped
    <3>2. n \in Nat /\ opnAgents' \in Nat /\ opnExists' \in BOOLEAN
      BY <2>1, <3>1 DEF Opener
    <3> HIDE DEF n
    <3>3. /\ w \in Opener /\ w.at = "seeding" /\ w.applied = opnOpener[p].applied
          /\ w.applied = Len(OpeningEmbedded[p])
      BY <2>1, <3>1, <3>2 DEF Opener, OpeningIInv, OpenHasApplied
    <3> HIDE DEF w
    <3> QED
      BY <2>1, <3>1, <3>2, <3>3, OpenerMoves
  <2>8. CASE Opening!Close(p)
    <3>1. /\ opnOpener' = [opnOpener EXCEPT ![p] = Opening!Closed]
          /\ UNCHANGED <<opnHistory, opnRan, opnExists, opnAgents>>
      BY <2>8 DEF Opening!Close, Opening!fail
    <3>2. Opening!Closed \in Opener /\ Opening!Closed.at = "closed" /\ Opening!Closed.applied = 0
      BY EmptySeq DEF Opening!Closed, Opener, OpeningPlaces
    <3> QED
      BY <2>1, <3>1, <3>2, OpenerMoves
  <2> QED
    BY <1>2, <2>2, <2>3, <2>4, <2>5, <2>6, <2>7, <2>8
<1> QED
  BY <1>1, <1>2, CompareRowOpening, applyMigrationOpening DEF Opening!Next

(* No step takes an agent away, and a seed is one more.                    *)
LEMMA SeedsStep ==
  ASSUME OpeningTyped, SeedsAreIn, [Opening!Next]_opnVars
  PROVE  SeedsAreIn'
<1>1. CASE UNCHANGED opnVars
  BY <1>1 DEF opnVars, SeedsAreIn
<1>2. ASSUME NEW p \in OpeningProcesses,
             opnAgents' = opnAgents, \A q \in OpeningProcesses : q # p => opnOpener'[q] = opnOpener[q],
             \/ opnOpener'[p].at = "closed" /\ opnOpener'[p].seeds = 0
             \/ /\ opnOpener[p].at \notin {"seeding", "open"}
                /\ opnOpener'[p].seeds = opnOpener[p].seeds
                /\ opnOpener'[p].at = "open" => opnOpener'[p].existed
             \/ opnOpener[p].at = "seeding" /\ opnOpener[p].seeds = 2 /\ opnOpener'[p].at = "open"
      PROVE  SeedsAreIn'
  <2>1. opnAgents \in Nat
    BY DEF OpeningTyped
  <2> SUFFICES ASSUME NEW q \in OpeningProcesses
               PROVE  /\ opnOpener'[q].at \notin {"seeding", "open"} => opnOpener'[q].seeds = 0
                      /\ opnOpener'[q].at = "seeding"
                           => opnOpener'[q].seeds <= 2 /\ opnOpener'[q].seeds <= opnAgents
                      /\ opnOpener'[q].at = "open" /\ ~opnOpener'[q].existed => opnAgents >= 2
    BY <1>2 DEF SeedsAreIn
  <2> QED
    BY <1>2, <2>1 DEF SeedsAreIn
<1>3. ASSUME NEW p \in OpeningProcesses,
             \/ Opening!Stat(p) \/ Opening!CreateFile(p)
             \/ Opening!validateAppliedMigrations(p) \/ Opening!CompareRow(p)
             \/ Opening!applyMigration(p) \/ Opening!Migrated(p) \/ Opening!Close(p)
      PROVE  SeedsAreIn'
  <2>1. /\ opnAgents' = opnAgents
        /\ \A q \in OpeningProcesses : q # p => opnOpener'[q] = opnOpener[q]
        /\ \/ opnOpener'[p].at = "closed" /\ opnOpener'[p].seeds = 0
           \/ /\ opnOpener[p].at \notin {"seeding", "open"}
              /\ opnOpener'[p].seeds = opnOpener[p].seeds
              /\ opnOpener'[p].at = "open" => opnOpener'[p].existed
    BY <1>3 DEF Opening!Stat, Opening!CreateFile, Opening!validateAppliedMigrations,
       Opening!CompareRow, Opening!applyMigration, Opening!Migrated, Opening!Close,
       Opening!Compared, Opening!fail, Opening!to, Opening!Closed, OpeningTyped, Opener
  <2> QED
    BY <1>2, <2>1
<1>4. ASSUME NEW p \in OpeningProcesses, Opening!SeedAgent(p)
      PROVE  SeedsAreIn'
  <2>1. CASE opnOpener[p].seeds = 2
    <3>1. /\ opnAgents' = opnAgents /\ opnOpener[p].at = "seeding" /\ opnOpener'[p].at = "open"
          /\ \A q \in OpeningProcesses : q # p => opnOpener'[q] = opnOpener[q]
      BY <1>4, <2>1 DEF Opening!SeedAgent, Opening!to, OpeningTyped, Opener
    <3> QED
      BY <1>2, <2>1, <3>1
  <2>2. CASE opnOpener[p].seeds # 2
    <3>1. /\ opnAgents' = opnAgents + 1 /\ opnOpener[p].at = "seeding"
          /\ opnOpener'[p].at = "seeding" /\ opnOpener'[p].seeds = opnOpener[p].seeds + 1
          /\ \A q \in OpeningProcesses : q # p => opnOpener'[q] = opnOpener[q]
      BY <1>4, <2>2 DEF Opening!SeedAgent, OpeningTyped, Opener
    <3>2. \A q \in OpeningProcesses : opnOpener[q].seeds \in Nat
      BY DEF OpeningTyped, Opener
    <3>3. opnAgents \in Nat
      BY DEF OpeningTyped
    <3> QED
      BY <2>2, <3>1, <3>2, <3>3 DEF SeedsAreIn
  <2> QED
    BY <2>1, <2>2
<1> QED
  BY <1>1, <1>3, <1>4 DEF Opening!Next

(* A process that opened has compared or applied all that it embeds.       *)
LEMMA OpeningSafe == ASSUME OpeningIInv, SeedsAreIn PROVE Opening!SchemaIsTrusted
<1>1. \A p \in OpeningProcesses : opnOpener[p].applied \in Nat
          /\ DOMAIN OpeningEmbedded[p] = 1..Len(OpeningEmbedded[p])
  BY OpeningLengths DEF OpeningIInv
<1>2. Opening!OpenFitsBuild
  BY <1>1 DEF OpeningIInv, AppliedFits, OpenHasApplied, Opening!OpenFitsBuild
<1> QED
  BY <1>2 DEF OpeningIInv, SeedsAreIn, Opening!OpenIsSeeded, Opening!SchemaIsTrusted

-----------------------------------------------------------------------------
(* The component that moves keeps its invariant; the others do not move.   *)
RecordsIInv ==
  /\ machine = "credentials" => CredentialsIInv
  /\ machine = "catalog" => CatalogIInv
  /\ machine = "opening" => OpeningIInv /\ SeedsAreIn

(* A behaviour begins in one of the components.                            *)
LEMMA RecordsInitially == RecordsInit => RecordsIInv
<1>1. Opening!Init => SeedsAreIn
  BY DEF Opening!Init, Opening!Closed, SeedsAreIn
<1> QED
  BY <1>1, CredentialsInit, CatalogInit, OpeningInit DEF RecordsInit, RecordsIInv

(* No step of any component breaks it, and machine stays what it is.       *)
LEMMA RecordsStep ==
  ASSUME RecordsIInv, [RecordsNext]_<<machine, recordVars>>
  PROVE  RecordsIInv'
<1>1. machine' = machine
  BY DEF RecordsNext
<1>2. CASE machine = "credentials"
  <2>1. [Credentials!Next]_crdVars
    BY <1>2 DEF RecordsNext, recordVars
  <2> QED
    BY <1>1, <1>2, <2>1, CredentialsStep DEF RecordsIInv
<1>3. CASE machine = "catalog"
  <2>1. [Catalog!Next]_ctlVars
    BY <1>3 DEF RecordsNext, recordVars
  <2> QED
    BY <1>1, <1>3, <2>1, CatalogStep DEF RecordsIInv
<1>4. CASE machine = "opening"
  <2>1. [Opening!Next]_opnVars
    BY <1>4 DEF RecordsNext, recordVars
  <2> QED
    BY <1>1, <1>4, <2>1, OpeningStep, SeedsStep DEF RecordsIInv, OpeningIInv
<1> QED
  BY <1>1, <1>2, <1>3, <1>4 DEF RecordsIInv

(* Of the credentials: one login at a time waits for its user, what is     *)
(* stored came from one that completed and, unless a settings request      *)
(* wrote over a row that had changed since it read it or a rotated token   *)
(* was lost on its way, no refresh token is used twice and the row keeps   *)
(* one that the issuer takes (refresh, complete).  Of the catalog: names   *)
(* stay unique, references hold and what was deleted stays deleted         *)
(* (UpdateWorkspace, DeleteWorkspace).  Of an opening: a migration of the  *)
(* history was committed once, a store that is open has those of its       *)
(* build, and the default agents if its opener found no file               *)
(* (applyMigration, seedDefaultAgents).  For any number of attempts,       *)
(* refreshes, requests, records, processes and migrations.                 *)
THEOREM RecordsAreAlwaysSound == RecordsSpec => []RecordsAreSound
<1>1. RecordsIInv => RecordsAreSound
  BY CredentialsSafe, OpeningSafe DEF RecordsIInv, RecordsAreSound, CatalogIInv
<1> QED
  BY <1>1, RecordsInitially, RecordsStep, PTL DEF RecordsSpec
=============================================================================
