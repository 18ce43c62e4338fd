--------------------------- MODULE ManagedService ---------------------------
(***************************************************************************)
(* The commands that manage the daemon as a service of the user, on Linux: *)
(* wingman service start, stop and restart (cmd/wingman/service.go, the    *)
(* credentials of internal/daemonstate/service.go) and wingman update      *)
(* (cmd/wingman/update.go), of which several may run at once, and systemd  *)
(* as they use it.                                                         *)
(*                                                                         *)
(* The unit that a start writes is known by the command, whose flags it    *)
(* holds; so are the credentials by the command that generated them.       *)
(***************************************************************************)
EXTENDS Naturals

CONSTANTS Commands,
          Kinds,       \* what they do: "start", "stop", "restart", "update"
          Releases,    \* bound: numbers of the releases, the oldest first
          MaxReboots,  \* bound
          None

VARIABLES binary,      \* the file at executablePath: [release, whole, install]
          config,      \* service.env: the command that generated it, or None
          configLock,  \* holder of .service.lock
          unit,        \* wingman.service: its writer, "partial" or None
          loaded,      \* the unit that systemd goes by
          enabled,     \* ... starts at login
          service,     \* [status, unit, install, release, config]
          command,     \* [does, at, version, release, archive, install, alone, unheard]
          reboots

vars == <<binary, config, configLock, unit, loaded, enabled, service, command, reboots>>
systemd == <<loaded, enabled, service>>

Down == [status |-> "down", unit |-> None, install |-> 0, release |-> 0, config |-> None]
Idle == [does |-> "nothing", at |-> "idle", version |-> 0, release |-> 0, archive |-> "none",
         install |-> 0, alone |-> FALSE, unheard |-> FALSE]
Ended == {"idle", "ok", "failed", "killed"}

(* installed, and never started *)
Init ==
  /\ \E r \in Releases : binary = [release |-> r, whole |-> TRUE, install |-> 0]
  /\ config = None /\ configLock = None
  /\ unit = None /\ loaded = None /\ enabled = FALSE
  /\ service = Down
  /\ command = [c \in Commands |-> Idle]
  /\ reboots = 0

At(c, place) == command[c].at = place
go(c, place) == command' = [command EXCEPT ![c].at = place]
fail(c) == go(c, "failed")

(* The process is of the binary that is installed by now; a command is     *)
(* alone until another one begins.                                         *)
Begin(c, kind) ==
  /\ At(c, "idle")
  /\ command' = [d \in Commands |->
       IF d # c THEN [command[d] EXCEPT !.alone = FALSE]
       ELSE [Idle EXCEPT !.does = kind, !.version = binary.release,
               !.at = CASE kind = "start" -> "lock" [] kind = "stop" -> "disable"
                        [] kind = "restart" -> "restart" [] kind = "update" -> "fetch",
               !.alone = \A e \in Commands : command[e].at \in Ended]]
  /\ UNCHANGED <<binary, config, configLock, unit, systemd, reboots>>

-----------------------------------------------------------------------------
(* systemd.  A process is started from the unit that is loaded, with the   *)
(* credentials and the binary that the files hold at that moment.          *)

Startable == loaded \in Commands /\ config # None

Started == [status |-> "active", unit |-> loaded, install |-> binary.install,
            release |-> binary.release, config |-> config]

(* Restart=on-failure, after two seconds *)
ServiceFails ==
  /\ service.status = "active"
  /\ service' = [Down EXCEPT !.status = "waiting"]
  /\ UNCHANGED <<binary, config, configLock, unit, loaded, enabled, command, reboots>>

StartAgain ==
  /\ service.status = "waiting"
  /\ service' = IF Startable THEN Started ELSE Down
  /\ UNCHANGED <<binary, config, configLock, unit, loaded, enabled, command, reboots>>

(* The machine goes down with all commands; the unit is read at login, and *)
(* started if it was enabled.                                              *)
Reboot ==
  /\ reboots < MaxReboots /\ reboots' = reboots + 1
  /\ command' = [c \in Commands |->
       IF command[c].at \in Ended THEN command[c] ELSE [command[c] EXCEPT !.at = "killed"]]
  /\ configLock' = None
  /\ loaded' = unit
  /\ service' = [Down EXCEPT !.status = IF enabled THEN "waiting" ELSE "down"]
  /\ UNCHANGED <<binary, config, unit, enabled>>

(* systemctl restart fails before it touches the running process, or after *)
(* it has stopped it.                                                      *)
Restart(c, place) ==
  /\ \/ Startable /\ service' = Started /\ go(c, place)
     \/ service' \in {service, Down} /\ fail(c)
  /\ UNCHANGED <<binary, config, configLock, unit, loaded, enabled, reboots>>

-----------------------------------------------------------------------------
(* wingman service start *)

(* flock waits for the holder *)
LockConfig(c) ==
  /\ At(c, "lock") /\ configLock = None
  /\ configLock' = c
  /\ go(c, "credentials")
  /\ UNCHANGED <<binary, config, unit, systemd, reboots>>

ReadConfig(c) ==
  /\ At(c, "credentials")
  /\ IF config = None THEN go(c, "generated") /\ UNCHANGED configLock
     ELSE go(c, "truncate") /\ configLock' = None
  /\ UNCHANGED <<binary, config, unit, systemd, reboots>>

(* a file of its own that is renamed *)
WriteConfig(c) ==
  /\ At(c, "generated")
  /\ configLock' = None
  /\ \/ config' = c /\ go(c, "truncate")
     \/ UNCHANGED config /\ fail(c)
  /\ UNCHANGED <<binary, unit, systemd, reboots>>

(* os.WriteFile truncates the unit before it writes it *)
TruncateUnit(c) ==
  /\ At(c, "truncate")
  /\ unit' = "partial" /\ go(c, "unit")
  /\ UNCHANGED <<binary, config, configLock, systemd, reboots>>

WriteUnit(c) ==
  /\ At(c, "unit")
  /\ \/ unit' = c /\ go(c, "reload")
     \/ UNCHANGED unit /\ fail(c)
  /\ UNCHANGED <<binary, config, configLock, systemd, reboots>>

(* daemon-reload, of a start and of a stop *)
Reload(c) ==
  /\ At(c, "reload")
  /\ \/ loaded' = unit /\ go(c, IF command[c].does = "start" THEN "enable" ELSE "ok")
     \/ UNCHANGED loaded /\ fail(c)
  /\ UNCHANGED <<binary, config, configLock, unit, enabled, service, reboots>>

(* systemctl enable needs the file, and has systemd read it again *)
Enable(c) ==
  /\ At(c, "enable")
  /\ \/ unit \in Commands /\ enabled' = TRUE /\ loaded' = unit /\ go(c, "restart")
     \/ UNCHANGED <<enabled, loaded>> /\ fail(c)
  /\ UNCHANGED <<binary, config, configLock, unit, service, reboots>>

(* of a start, and all of wingman service restart *)
RestartService(c) == At(c, "restart") /\ Restart(c, "ready")

(* WaitReady gives up on a daemon of another version at once, and after 30 *)
(* seconds on any; then the credentials of the environment are imported.   *)
WaitReady(c) ==
  /\ At(c, "ready")
  /\ \/ service.status = "active" /\ service.release = command[c].version /\ go(c, "ok")
     \/ fail(c)
  /\ UNCHANGED <<binary, config, configLock, unit, systemd, reboots>>

-----------------------------------------------------------------------------
(* wingman service stop *)

(* An error of disable --now is printed, and the stop goes on. *)
Disable(c) ==
  /\ At(c, "disable")
  /\ \/ /\ enabled' = FALSE /\ loaded' = unit
        /\ service' = Down
        /\ go(c, "remove")
     \/ /\ command' = [command EXCEPT ![c].at = "remove", ![c].unheard = TRUE]
        /\ UNCHANGED <<enabled, loaded, service>>
  /\ UNCHANGED <<binary, config, configLock, unit, reboots>>

RemoveUnit(c) ==
  /\ At(c, "remove")
  /\ unit' = None /\ go(c, "reload")
  /\ UNCHANGED <<binary, config, configLock, systemd, reboots>>

-----------------------------------------------------------------------------
(* wingman update *)

shouldInstallUpdate(requested, c, r) == requested \/ r > command[c].version

(* the latest release, or the one that was asked for *)
FetchRelease(c) ==
  /\ At(c, "fetch")
  /\ \/ \E r \in Releases, requested \in BOOLEAN :
          command' = [command EXCEPT ![c].release = r, ![c].at =
            IF shouldInstallUpdate(requested, c, r) THEN "download" ELSE "ok"]
     \/ fail(c)
  /\ UNCHANGED <<binary, config, configLock, unit, systemd, reboots>>

(* into a directory of the command's own, beside the binary *)
DownloadFile(c) ==
  /\ At(c, "download")
  /\ \/ \E archive \in {"published", "damaged"} :
          command' = [command EXCEPT ![c].archive = archive, ![c].at = "verify"]
     \/ fail(c)
  /\ UNCHANGED <<binary, config, configLock, unit, systemd, reboots>>

(* the checksum that checksums.txt lists for the archive *)
VerifyChecksum(c) ==
  /\ At(c, "verify")
  /\ IF command[c].archive = "published" THEN go(c, "extract") ELSE fail(c)
  /\ UNCHANGED <<binary, config, configLock, unit, systemd, reboots>>

(* into the directory of the command; it fails without a binary to extract *)
ExtractBinary(c) ==
  /\ At(c, "extract")
  /\ go(c, "replace") \/ fail(c)
  /\ UNCHANGED <<binary, config, configLock, unit, systemd, reboots>>

(* a rename, which leaves the whole file under its name or the old one *)
Replace(c) ==
  /\ At(c, "replace")
  /\ \/ /\ binary' = [release |-> command[c].release, whole |-> command[c].archive = "published",
                      install |-> binary.install + 1]
        /\ command' = [command EXCEPT ![c].at = "active", ![c].install = binary.install + 1]
     \/ fail(c) /\ UNCHANGED binary
  /\ UNCHANGED <<config, configLock, unit, systemd, reboots>>

(* is-active: any error means that there is nothing to restart *)
IsActive(c) ==
  /\ At(c, "active")
  /\ \/ go(c, IF service.status = "active" THEN "renew" ELSE "ok")
     \/ command' = [command EXCEPT ![c].at = "ok", ![c].unheard = TRUE]
  /\ UNCHANGED <<binary, config, configLock, unit, systemd, reboots>>

RestartUpdated(c) == At(c, "renew") /\ Restart(c, "ok")

-----------------------------------------------------------------------------
(* a signal, or a crash of the command; the lock goes with the process *)
Kill(c) ==
  /\ command[c].at \notin Ended
  /\ go(c, "killed")
  /\ configLock' = IF configLock = c THEN None ELSE configLock
  /\ UNCHANGED <<binary, config, unit, systemd, reboots>>

Next ==
  \/ \E c \in Commands :
       \/ \E kind \in Kinds : Begin(c, kind)
       \/ LockConfig(c) \/ ReadConfig(c) \/ WriteConfig(c) \/ TruncateUnit(c) \/ WriteUnit(c)
       \/ Reload(c) \/ Enable(c) \/ RestartService(c) \/ WaitReady(c)
       \/ Disable(c) \/ RemoveUnit(c)
       \/ FetchRelease(c) \/ DownloadFile(c) \/ VerifyChecksum(c) \/ ExtractBinary(c)
       \/ Replace(c) \/ IsActive(c) \/ RestartUpdated(c) \/ Kill(c)
  \/ ServiceFails \/ StartAgain \/ Reboot

Spec == Init /\ [][Next]_vars

-----------------------------------------------------------------------------
(* The binary is one that was published: neither a damaged download nor a  *)
(* command that dies replaces it by another (installRelease).              *)
BinaryIsWhole == binary.whole

(* After an update that has succeeded, no daemon of an older binary runs,  *)
(* whatever is started, fails or is restarted meanwhile, if systemd        *)
(* answered the update (restartManagedService).                            *)
UpdateReachesService == \A c \in Commands :
  At(c, "ok") /\ command[c].install # 0 /\ ~command[c].unheard /\ service.status = "active"
    => service.install >= command[c].install

(* The daemon accepts the credentials that clients read from service.env:  *)
(* however many first starts there are, they are generated once            *)
(* (EnsureServiceConfig).                                                  *)
CredentialsAgree == service.status = "active" => service.config = config

(* A start that met no other command has put its own unit into effect, and *)
(* a stop has removed it, whatever commands that died have left before     *)
(* (runLinuxStart, runLinuxStop).                                          *)
CommandsTakeEffect == \A c \in Commands : At(c, "ok") /\ command[c].alone =>
  /\ command[c].does = "start" =>
       /\ unit = c /\ loaded = c /\ enabled
       /\ service.status = "active" => service.unit = c
  /\ command[c].does = "stop" =>
       /\ unit = None /\ loaded = None
       /\ ~command[c].unheard => service.status = "down" /\ ~enabled

ServiceIsCurrent == /\ BinaryIsWhole /\ UpdateReachesService
                    /\ CredentialsAgree /\ CommandsTakeEffect
=============================================================================
