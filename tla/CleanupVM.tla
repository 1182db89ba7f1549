------------------------------ MODULE CleanupVM ------------------------------
(* internal/cleanup: Cleanup at its three levels, on the VM as Harden, once  *)
(* or more often, successful or not, has left it.  The steps run in order    *)
(* and stop at the first that fails, except that every error of an `rm`      *)
(* counts as "was not there".  The operator does not run the two at once.    *)
EXTENDS HardenVM

CONSTANTS MaxCleanups   \* runs of Cleanup

ASSUME CleanupAssumption == MaxCleanups \in Nat

VARIABLES
    step,       \* the next step of Cleanup, or how the last one ended
    ask,        \* [level, firewall, port] of the run: cfg.DisableFirewall and
                \* cfg.PreHardeningSSHPort, with 22 for an absent one
    missing,    \* services that are not installed
    cleanups    \* runs begun

job == <<ask, missing, cleanups>>

Levels   == {"minimal", "full", "revert"}
Asked    == [level : Levels, firewall : BOOLEAN, port : OldPorts \cup {BasePort}]
Services == {"nginx", "fail2ban"}
Finished == {"idle", "ok", "failed", "killed"}

\* The step at label s works, or its error is ignored, and s2 is next.
StepOk(s, s2) ==
    step = s /\ step' = s2 /\ UNCHANGED <<pc, faults, rolledBack, run, job>>

StepBad(s, s2) ==
    /\ step = s /\ step' = s2
    /\ faults < MaxFaults /\ faults' = faults + 1
    /\ UNCHANGED <<pc, rolledBack, run, job>>

\* cleanup --config: faults counts those of the cleanup from here on.
BeginCleanup ==
    /\ pc \in Ended /\ step \in Finished /\ cleanups < MaxCleanups
    /\ step' = "files"
    /\ ask' \in Asked
    /\ cleanups' = cleanups + 1
    /\ faults' = 0
    /\ UNCHANGED <<pc, rolledBack, run, host, missing>>

\* The directories of instances, agent, sites and challenges: errors are ignored.
RemoveFiles == StepOk("files", "nginx") /\ UNCHANGED host

\* What follows the steps of all levels, and those of "full".
AfterNginx == IF ask.level = "minimal" THEN "ok" ELSE "jail"
AfterJail  == IF ask.level = "revert" THEN "dropin" ELSE "user"

\* systemctl on a service: systemd says of one that is not installed that it was
\* "not found", which is neither of the messages isIgnorableError looks for.
OnService(s, service, s2) ==
    /\ \/ service \notin missing /\ StepOk(s, s2)
       \/ service \in missing /\ StepOk(s, "failed")
       \/ StepBad(s, "failed")
    /\ UNCHANGED host

ReloadNginx == OnService("nginx", "nginx", AfterNginx)

\* The jail's file is removed, or its error ignored, and fail2ban restarted.
RestartFail2ban == OnService("jail", "fail2ban", AfterJail)

\* `rm -f` of Harden's drop-in file: a failure counts as completed.
RemoveDropin ==
    /\ \/ StepOk("dropin", "sshd_config") /\ dropin' = 0
       \/ StepBad("dropin", "sshd_config") /\ UNCHANGED dropin
    /\ UNCHANGED <<sock, svc, conf, keys, ufw, script>>

\* The edits of sshd_config: Port, which `sed` changes only where there is such
\* a line, then those of PasswordAuthentication and PermitRootLogin.
EditConfig ==
    LET edited == IF conf = 0 THEN 0 ELSE ask.port
    IN  /\ \/ StepOk("sshd_config", "restart") /\ conf' = edited
           \/ StepBad("sshd_config", "failed") /\ conf' \in {conf, edited}
        /\ UNCHANGED <<sock, svc, dropin, keys, ufw, script>>

AfterRestart == IF ask.firewall THEN "firewall" ELSE "user"

\* Mutant: sshd goes on as it is.
NoRestart == StepOk("restart", AfterRestart) /\ UNCHANGED host

\* `systemctl restart sshd`, a name ssh.service has while it is enabled.
RestartSshd ==
    LET up == [svc EXCEPT !.active = TRUE,
                          !.ports = IF sock.active THEN {BasePort} ELSE ConfPorts]
        down == [svc EXCEPT !.active = FALSE]
    IN  /\ \/ svc.enabled /\ StepOk("restart", AfterRestart) /\ svc' = up
           \/ ~svc.enabled /\ StepOk("restart", "failed") /\ UNCHANGED svc
           \/ svc.enabled /\ StepBad("restart", "failed") /\ svc' \in {svc, up, down}
        /\ UNCHANGED <<sock, conf, dropin, keys, ufw, script>>

DisableFirewall ==
    LET disabled == [ufw EXCEPT !.active = FALSE]
    IN  /\ \/ StepOk("firewall", "user") /\ ufw' = disabled
           \/ StepBad("firewall", "failed") /\ ufw' \in {ufw, disabled}
        /\ UNCHANGED <<sock, svc, conf, dropin, keys, script>>

\* userdel: the user may be another one, or in use, which is ignored.
RemoveUser ==
    /\ \/ StepOk("user", "ok") /\ keys' \in {keys, FALSE}
       \/ StepBad("user", "failed") /\ keys' \in {keys, FALSE}
    /\ UNCHANGED <<sock, svc, conf, dropin, ufw, script>>

\* The command is interrupted.
KillCleanup ==
    /\ step \notin Finished
    /\ StepOk(step, "killed")
    /\ UNCHANGED host

Cleanup ==
    \/ BeginCleanup \/ RemoveFiles \/ ReloadNginx \/ RestartFail2ban
    \/ RemoveDropin \/ EditConfig \/ RestartSshd \/ DisableFirewall \/ RemoveUser
    \/ KillCleanup

\* Harden goes on, or is called once more.
HardenStep == step \in Finished /\ Next /\ UNCHANGED <<step, job>>

CleanupInit ==
    /\ Init
    /\ step = "idle"
    /\ ask = [level |-> "minimal", firewall |-> FALSE, port |-> BasePort]
    /\ missing \in SUBSET Services
    /\ cleanups = 0

CleanupSpec == CleanupInit /\ [][HardenStep \/ Cleanup]_<<vars, step, job>>
-----------------------------------------------------------------------------
CleanupTypeOK ==
    /\ TypeOK
    /\ step \in Finished \cup {"files", "nginx", "jail", "dropin", "sshd_config",
                               "restart", "firewall", "user"}
    /\ ask \in Asked
    /\ missing \subseteq Services
    /\ cleanups \in 0..MaxCleanups

\* sshd has the port, now and after a reboot.
Serves(p) ==
    /\ p \in Listening
    /\ IF sock.enabled THEN p = BasePort ELSE svc.enabled /\ p \in ConfPorts

\* The port asked for can be given back: it is 22, or sshd_config has a Port line
\* to edit and ssh.socket does not stand before it.
CanGiveBack ==
    \/ ask.port = BasePort
    \/ conf # 0 /\ ~sock.active /\ ~sock.enabled

\* A revert that reports success and was to disable the firewall leaves a way in,
\* now and after a reboot, on the port it reports (types.go:147) wherever that
\* can be given back: whatever hardenings, failures and crashes came before,
\* unless its `rm` failed unnoticed (cleanup.go:229).
RevertRestoresDoor ==
    [][step # "ok" /\ step' = "ok" /\ ask.level = "revert" /\ ask.firewall /\ dropin = 0
          => /\ (\E p \in Listening : Admits(p))' /\ DoorOpenAfterReboot'
             /\ CanGiveBack => Serves(ask.port)']_<<vars, step, job>>
=============================================================================
