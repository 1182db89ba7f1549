------------------------------ MODULE HardenVM ------------------------------
(* internal/harden: Harden, its steps and its rollback on one VM.  A command *)
(* may fail or time out, before or after it had its effect.  The external    *)
(* parts are systemd's two ways to run sshd (ssh.socket, hardcoded to port   *)
(* 22, and ssh.service, on the configured port) and UFW, whose default       *)
(* policy denies incoming traffic.                                           *)
EXTENDS Naturals, FiniteSets

CONSTANTS
    NewPorts,       \* valid values of cfg.SSHPort; 0 stands for an invalid one
    OldPorts,       \* the port sshd_config may name at first, in a Port line
    Modes,          \* how the VM runs sshd at first: "socket", "service"
    UfwBefore,      \* whether UFW may be active at first
    FirewallAsked,  \* what cfg.EnableFirewall may be
    MaxFaults,      \* commands that fail in one run of Harden
    MaxRuns         \* runs of Harden

BasePort == 22      \* ssh.socket's port, and sshd's without any Port line

ASSUME HardenAssumption ==
    /\ NewPorts \subseteq Nat \ {0} /\ NewPorts # {}
    /\ OldPorts \subseteq Nat \ {0}
    /\ Modes \subseteq {"socket", "service"}
    /\ UfwBefore \subseteq BOOLEAN
    /\ FirewallAsked \subseteq BOOLEAN
    /\ MaxFaults \in Nat
    /\ MaxRuns \in Nat \ {0}

VARIABLES
    pc,         \* the next command of Harden, or how the last run ended
    cfg,        \* [port, firewall] of the run
    faults,     \* commands that have failed in the run
    runs,       \* runs begun
    rolledBack, \* result.RollbackApplied
    before,     \* UFW was active when the run began (properties only)
    sock,       \* ssh.socket: [active, enabled]
    svc,        \* ssh.service: [active, enabled, ports]
    conf,       \* the port in sshd_config; 0: no Port line, or a comment
    dropin,     \* the port in sshdConfigFile (keys only, no root); 0: no such file
    keys,       \* the VM user has its keys and can use sudo
    ufw,        \* [active, allowed]
    script      \* the emergency rollback script exists

run  == <<cfg, runs, before>>
ssh  == <<sock, svc>>
host == <<sock, svc, conf, dropin, keys, ufw, script>>
vars == <<pc, faults, rolledBack, run, host>>

Ports == NewPorts \cup OldPorts \cup {BasePort}

Request == [port : NewPorts \cup {0}, firewall : FirewallAsked]

Ended == {"ok", "failed", "killed"}

\* The command at label l works and l2 is next.
Ok(l, l2) == pc = l /\ pc' = l2 /\ UNCHANGED faults

\* The command at label l fails and l2 handles it.
Bad(l, l2) == pc = l /\ faults < MaxFaults /\ faults' = faults + 1 /\ pc' = l2

\* The ports sshd takes from sshd_config and its drop-in: Port lines add up.
PortsIn(c, d) == IF c = 0 /\ d = 0 THEN {BasePort} ELSE {c, d} \ {0}

ConfPorts == PortsIn(conf, dropin)

Listening == (IF sock.active THEN {BasePort} ELSE {})
                 \cup (IF svc.active THEN svc.ports ELSE {})

Admits(p) == ufw.active => p \in ufw.allowed
-----------------------------------------------------------------------------
Init ==
    /\ pc = "preflight"
    /\ cfg \in Request
    /\ faults = 0
    /\ runs = 1
    /\ rolledBack = FALSE
    /\ conf \in OldPorts \cup {0}
    /\ dropin = 0
    /\ \E m \in Modes :
        /\ sock = [active |-> m = "socket", enabled |-> m = "socket"]
        /\ svc = [active |-> m = "service", enabled |-> m = "service",
                  ports |-> PortsIn(conf, 0)]
    /\ before \in UfwBefore
    /\ ufw = [active |-> before, allowed |-> IF before THEN Listening ELSE {}]
    /\ keys = FALSE
    /\ script = FALSE

\* preflightChecks and createBackups; a failure changes nothing on the host.
Preflight ==
    /\ \/ cfg.port # 0 /\ Ok("preflight", "user")
       \/ cfg.port = 0 /\ Ok("preflight", "failed")
       \/ Bad("preflight", "failed")
    /\ UNCHANGED <<rolledBack, run, host>>

\* configureUser, up to authorized_keys, which it then truncates: the user, its
\* groups, and its sudoers file, which goes if visudo fails.  No rollback.
ConfigureUser ==
    /\ \/ Ok("user", "keys") /\ keys' = FALSE
       \/ Bad("user", "failed") /\ keys' \in {keys, FALSE}
    /\ UNCHANGED <<rolledBack, run, sock, svc, conf, dropin, ufw, script>>

\* Mutant: hardening goes on without a usable VM user.
WriteKeysBestEffort ==
    /\ \/ Ok("keys", "dropin") /\ keys' = TRUE
       \/ Bad("keys", "dropin") /\ keys' \in BOOLEAN
    /\ UNCHANGED <<rolledBack, run, sock, svc, conf, dropin, ufw, script>>

\* The rest of it writes the keys and tries sudo; it fails with them or without.
WriteKeys ==
    /\ \/ Ok("keys", "dropin") /\ keys' = TRUE
       \/ Bad("keys", "failed") /\ keys' \in BOOLEAN
    /\ UNCHANGED <<rolledBack, run, sock, svc, conf, dropin, ufw, script>>

\* configureSSH writes the drop-in file.
WriteDropin ==
    /\ \/ Ok("dropin", "sshd_t") /\ dropin' = cfg.port
       \/ Bad("dropin", "rollback") /\ dropin' \in {dropin, cfg.port}
    /\ UNCHANGED <<rolledBack, run, sock, svc, conf, keys, ufw, script>>

\* `sshd -t`: an invalid configuration is removed again.
TestConfig ==
    /\ \/ Ok("sshd_t", "is_socket") /\ UNCHANGED dropin
       \/ Bad("sshd_t", "rollback") /\ dropin' = 0
    /\ UNCHANGED <<rolledBack, run, sock, svc, conf, keys, ufw, script>>

\* `systemctl is-active ssh.socket`: an error counts as inactive.
CheckSocket ==
    /\ \/ sock.active /\ Ok("is_socket", "stop_socket")
       \/ ~sock.active /\ Ok("is_socket", "enable_svc")
       \/ Bad("is_socket", "enable_svc")
    /\ UNCHANGED <<rolledBack, run, host>>

StopSocket ==
    LET stopped == [sock EXCEPT !.active = FALSE]
    IN  /\ \/ Ok("stop_socket", "disable_socket") /\ sock' = stopped
           \/ Bad("stop_socket", "rollback") /\ sock' \in {sock, stopped}
        /\ UNCHANGED <<rolledBack, run, svc, conf, dropin, keys, ufw, script>>

DisableSocket ==
    LET disabled == [sock EXCEPT !.enabled = FALSE]
    IN  /\ \/ Ok("disable_socket", "recheck") /\ sock' = disabled
           \/ Bad("disable_socket", "rollback") /\ sock' \in {sock, disabled}
        /\ UNCHANGED <<rolledBack, run, svc, conf, dropin, keys, ufw, script>>

\* The socket must be inactive by now; systemd may have started it again.
RecheckSocket ==
    /\ \/ ~sock.active /\ Ok("recheck", "enable_svc") /\ UNCHANGED sock
       \/ Bad("recheck", "rollback") /\ sock' = [sock EXCEPT !.active = TRUE]
    /\ UNCHANGED <<rolledBack, run, svc, conf, dropin, keys, ufw, script>>

EnableService ==
    LET enabled == [svc EXCEPT !.enabled = TRUE]
    IN  /\ \/ Ok("enable_svc", "restart") /\ svc' = enabled
           \/ Bad("enable_svc", "rollback") /\ svc' \in {svc, enabled}
        /\ UNCHANGED <<rolledBack, run, sock, conf, dropin, keys, ufw, script>>

\* ssh.service restarts on the configured ports, or on the socket's if that is
\* still active; a failed restart may leave the old process, a new one or none.
RestartService ==
    LET up == [svc EXCEPT !.active = TRUE,
                          !.ports = IF sock.active THEN {BasePort} ELSE ConfPorts]
        down == [svc EXCEPT !.active = FALSE]
    IN  /\ \/ Ok("restart", "listening") /\ svc' = up
           \/ Bad("restart", "rollback") /\ svc' \in {svc, up, down}
        /\ UNCHANGED <<rolledBack, run, sock, conf, dropin, keys, ufw, script>>

\* Mutant: the new port is not looked for among the listening ones.
TrustRestart ==
    /\ Ok("listening", IF cfg.firewall THEN "allow_ssh" ELSE "extras")
    /\ UNCHANGED <<rolledBack, run, host>>

\* `ss -tuln`, then `nc` on localhost: either may find no listener on the port.
TestConnection ==
    /\ \/ /\ cfg.port \in Listening
          /\ Ok("listening", IF cfg.firewall THEN "allow_ssh" ELSE "extras")
       \/ cfg.port \notin Listening /\ Ok("listening", "rollback")
       \/ Bad("listening", "rollback")
    /\ UNCHANGED <<rolledBack, run, host>>

\* UFW is enabled; it may also be enabled and the command or a check fail.
EnableAt(l, next) ==
    /\ \/ Ok(l, next) /\ ufw' = [ufw EXCEPT !.active = TRUE]
       \/ Bad(l, "rollback") /\ ufw' \in {ufw, [ufw EXCEPT !.active = TRUE]}
    /\ UNCHANGED <<rolledBack, run, sock, svc, conf, dropin, keys, script>>

\* Mutant: UFW is enabled in the place of the first rule.
EnableUfwFirst == EnableAt("allow_ssh", "extras")

\* configureFirewall installs UFW if need be and allows the SSH port first.
AllowSSH ==
    LET allowed == [ufw EXCEPT !.allowed = @ \cup {cfg.port}]
    IN  /\ \/ Ok("allow_ssh", "enable_ufw") /\ ufw' = allowed
           \/ Bad("allow_ssh", "rollback") /\ ufw' \in {ufw, allowed}
        /\ UNCHANGED <<rolledBack, run, sock, svc, conf, dropin, keys, script>>

\* The web ports and the default policies, then UFW is enabled and checked.
EnableUfw == EnableAt("enable_ufw", "extras")

\* installFail2Ban and enableAutoUpdates, where asked for: no rollback.
Extras ==
    /\ Ok("extras", "script") \/ Bad("extras", "failed")
    /\ UNCHANGED <<rolledBack, run, host>>

\* createRollbackScript: a failure is a warning.
CreateScript ==
    /\ \/ Ok("script", "ok") /\ script' = TRUE
       \/ Bad("script", "ok") /\ UNCHANGED script
    /\ UNCHANGED <<rolledBack, run, sock, svc, conf, dropin, keys, ufw>>
-----------------------------------------------------------------------------
(* rollback(): it stops only if it cannot list the backups.  Restoring       *)
(* sshd_config gives the file the content it has, since no step edits it,    *)
(* but a `cp` that fails may have truncated it.  What follows always ends on *)
(* ssh.socket, however the VM ran sshd and on whichever port.                *)
\* Mutant: the restored sshd_config is taken for the whole configuration.
RestoreKeepingDropin ==
    /\ rolledBack' = TRUE
    /\ Ok("rollback", "rb_enable") \/ Bad("rollback", "failed")
    /\ UNCHANGED <<run, host>>

RestoreConfig ==
    /\ rolledBack' = TRUE
    /\ \/ Ok("rollback", "rb_enable") /\ dropin' = 0 /\ UNCHANGED conf
       \/ Bad("rollback", "rb_enable") /\ dropin' = 0 /\ conf' \in {conf, 0}
       \/ Bad("rollback", "rb_enable") /\ UNCHANGED <<conf, dropin>>
       \/ Bad("rollback", "failed") /\ UNCHANGED <<conf, dropin>>
    /\ UNCHANGED <<run, sock, svc, keys, ufw, script>>

RbEnableSocket ==
    LET enabled == [sock EXCEPT !.enabled = TRUE]
    IN  /\ \/ Ok("rb_enable", "rb_stop") /\ sock' = enabled
           \/ Bad("rb_enable", "rb_stop") /\ sock' \in {sock, enabled}
        /\ UNCHANGED <<rolledBack, run, svc, conf, dropin, keys, ufw, script>>

\* Only a service that stopped makes room for the socket; otherwise rollback
\* turns to sshd.service and to sshd.socket, which these systems do not have.
RbStopService ==
    LET stopped == [svc EXCEPT !.active = FALSE]
    IN  /\ \/ Ok("rb_stop", "rb_start") /\ svc' = stopped
           \/ Bad("rb_stop", "rb_ufw") /\ svc' \in {svc, stopped}
        /\ UNCHANGED <<rolledBack, run, sock, conf, dropin, keys, ufw, script>>

RbStartSocket ==
    LET started == [sock EXCEPT !.active = TRUE]
    IN  /\ \/ Ok("rb_start", "rb_ufw") /\ sock' = started
           \/ Bad("rb_start", "rb_ufw") /\ sock' \in {sock, started}
        /\ UNCHANGED <<rolledBack, run, svc, conf, dropin, keys, ufw, script>>

RbDisableUfw ==
    LET disabled == [ufw EXCEPT !.active = FALSE]
    IN  /\ \/ Ok("rb_ufw", "failed") /\ ufw' = disabled
           \/ Bad("rb_ufw", "failed") /\ ufw' \in {ufw, disabled}
        /\ UNCHANGED <<rolledBack, run, sock, svc, conf, dropin, keys, script>>
-----------------------------------------------------------------------------
\* The agent is killed, and Harden with it.
Crash ==
    /\ pc \notin Ended
    /\ pc' = "killed"
    /\ UNCHANGED <<faults, rolledBack, run, host>>

\* vm.harden once more, on the host as the last run left it.
Again ==
    /\ pc \in Ended
    /\ runs < MaxRuns
    /\ pc' = "preflight"
    /\ cfg' \in Request
    /\ faults' = 0
    /\ runs' = runs + 1
    /\ rolledBack' = FALSE
    /\ before' = ufw.active
    /\ UNCHANGED host

Next ==
    \/ Preflight \/ ConfigureUser \/ WriteKeys \/ WriteDropin \/ TestConfig
    \/ CheckSocket \/ StopSocket \/ DisableSocket \/ RecheckSocket
    \/ EnableService \/ RestartService \/ TestConnection
    \/ AllowSSH \/ EnableUfw \/ Extras \/ CreateScript
    \/ RestoreConfig \/ RbEnableSocket \/ RbStopService \/ RbStartSocket
    \/ RbDisableUfw
    \/ Crash \/ Again

Spec == Init /\ [][Next]_vars
-----------------------------------------------------------------------------
ControlOK ==
    /\ pc \in Ended \cup
          {"preflight", "user", "keys", "dropin", "sshd_t", "is_socket", "stop_socket",
           "disable_socket", "recheck", "enable_svc", "restart", "listening",
           "allow_ssh", "enable_ufw", "extras", "script", "rollback",
           "rb_enable", "rb_stop", "rb_start", "rb_ufw"}
    /\ cfg \in Request
    /\ pc \notin {"preflight", "failed", "killed"} => cfg.port \in NewPorts
    /\ faults \in 0..MaxFaults
    /\ runs \in 1..MaxRuns
    /\ rolledBack \in BOOLEAN
    /\ before \in BOOLEAN

HostOK ==
    /\ sock \in [active : BOOLEAN, enabled : BOOLEAN]
    /\ svc \in [active : BOOLEAN, enabled : BOOLEAN, ports : SUBSET Ports]
    /\ conf \in OldPorts \cup {0, BasePort}
    /\ dropin \in NewPorts \cup {0}
    /\ keys \in BOOLEAN
    /\ ufw \in [active : BOOLEAN, allowed : SUBSET Ports]
    /\ script \in BOOLEAN

TypeOK == ControlOK /\ HostOK

\* Someone can still log in: sshd listens where the firewall lets through, and
\* if it takes keys only, the VM user has them.
DoorOpen ==
    /\ \E p \in Listening : Admits(p)
    /\ dropin # 0 => keys

\* The same after a reboot, when only what is enabled starts.
DoorOpenAfterReboot ==
    \/ sock.enabled /\ Admits(BasePort)
    \/ ~sock.enabled /\ svc.enabled /\ \E p \in ConfPorts : Admits(p)

\* A first run, on a VM without an active firewall, in which at most one command
\* has failed.
OneFaultFirstRun == runs = 1 /\ faults <= 1 /\ ~before

\* "A mistake can lock everyone out [...] harden.go guards against that"
\* (README.md:53): whichever command fails, a first run leaves a way in when it
\* has ended, now and after a reboot.
NoLockout ==
    OneFaultFirstRun /\ pc \in {"ok", "failed"} => DoorOpen /\ DoorOpenAfterReboot

\* With the firewall asked for, a run that succeeds leaves a way in, whatever
\* killed, failed and repeated runs have left behind.
SuccessOpensDoor ==
    pc = "ok" /\ cfg.firewall => DoorOpen

\* "CRITICAL: Add SSH port rule BEFORE enabling UFW" (harden.go:495): at no
\* step of a first run on the way to success does the firewall shut all ports
\* sshd listens on.
FirewallAdmitsSSH ==
    runs = 1 /\ ~before /\ ~rolledBack /\ ufw.active =>
        \E p \in Listening : Admits(p)

\* Root and passwords are locked out only while the VM user has its keys: in a
\* first run always, also when it fails, rolls back or is killed.  A later run
\* takes the keys of an earlier one only until it has written its own, so that
\* it must end in configureUser (harden.go:325, 345) to leave the VM without.
KeysBeforeLock ==
    dropin # 0 /\ ~keys =>
        /\ runs > 1
        /\ ~rolledBack
        /\ pc \in {"preflight", "user", "keys", "failed", "killed"}

\* "rollback attempts to restore the system to its previous state"
\* (harden.go:685).  A first run whose one failing command made it roll back
\* leaves no drop-in, the firewall as it was, and sshd on port 22: where it was
\* if ssh.socket ran it or sshd_config named no other port.
RollbackRestoresFirst ==
    OneFaultFirstRun /\ pc = "failed" /\ rolledBack =>
        /\ dropin = 0
        /\ Listening = {BasePort}
        /\ ufw.active = before
=============================================================================
