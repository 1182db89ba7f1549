--------------------------- MODULE HardenVMProofs ---------------------------
(* Proofs about HardenVM and CleanupVM, for any number of runs, cleanups,    *)
(* failing commands and crashes and for every set of ports.                  *)
EXTENDS CleanupVM, TLAPS

\* What a restart makes of the service keeps its type.
LEMMA ServiceStates ==
    ASSUME NEW s \in [active : BOOLEAN, enabled : BOOLEAN, ports : SUBSET Ports],
           NEW p \in SUBSET Ports
    PROVE  {s, [s EXCEPT !.active = FALSE], [s EXCEPT !.active = TRUE, !.ports = p]}
             \subseteq [active : BOOLEAN, enabled : BOOLEAN, ports : SUBSET Ports]
<1> DEFINE T == [active : BOOLEAN, enabled : BOOLEAN, ports : SUBSET Ports]
<1>1. [s EXCEPT !.active = FALSE] \in T
  OBVIOUS
<1>2. [s EXCEPT !.active = TRUE, !.ports = p] \in T
  OBVIOUS
<1>3. QED
  BY <1>1, <1>2

\* The types hold at the start.
LEMMA StartTypes == Init => TypeOK
<1> USE HardenAssumption
<1> SUFFICES ASSUME Init PROVE TypeOK
  OBVIOUS
<1>1. ControlOK
  <2>1. before \in BOOLEAN
    BY DEF Init
  <2>2. pc = "preflight" /\ cfg \in Request /\ faults \in 0..MaxFaults
    BY DEF Init
  <2>3. runs \in 1..MaxRuns
    BY DEF Init
  <2>4. rolledBack \in BOOLEAN
    BY DEF Init
  <2>5. QED
    BY <2>1, <2>2, <2>3, <2>4 DEF ControlOK
<1>2. HostOK
  <2>1. PICK m \in Modes :
          /\ sock = [active |-> m = "socket", enabled |-> m = "socket"]
          /\ svc = [active |-> m = "service", enabled |-> m = "service",
                    ports |-> PortsIn(conf, 0)]
    BY DEF Init
  <2>2. (m = "socket") \in BOOLEAN /\ (m = "service") \in BOOLEAN
    OBVIOUS
  <2>3. conf \in OldPorts \cup {0} /\ PortsIn(conf, 0) \in SUBSET Ports
    BY DEF Init, PortsIn, Ports
  <2>4. sock \in [active : BOOLEAN, enabled : BOOLEAN]
    BY <2>1, <2>2
  <2>5. svc \in [active : BOOLEAN, enabled : BOOLEAN,
                 ports : SUBSET Ports]
    BY <2>1, <2>2, <2>3
  <2>6. ufw \in [active : BOOLEAN, allowed : SUBSET Ports]
    <3>1. Listening \in SUBSET Ports
      BY <2>5 DEF Listening, Ports
    <3>2. (IF before THEN Listening ELSE {}) \in SUBSET Ports
      BY <3>1
    <3>3. ufw = [active |-> before, allowed |-> IF before THEN Listening ELSE {}]
      BY DEF Init
    <3>4. before \in BOOLEAN
      BY DEF Init
    <3>5. QED
      BY <3>2, <3>3, <3>4
  <2>7. dropin = 0 /\ keys = FALSE /\ script = FALSE
    BY DEF Init
  <2>8. QED
    BY <2>3, <2>4, <2>5, <2>6, <2>7 DEF HostOK
<1>3. QED
  BY <1>1, <1>2 DEF TypeOK

\* Every step keeps the types.
LEMMA StepTypes == TypeOK /\ [Next]_vars => TypeOK'
<1> USE HardenAssumption
<1> SUFFICES ASSUME TypeOK, [Next]_vars PROVE ControlOK' /\ HostOK'
  BY DEF TypeOK
<1> USE DEF TypeOK, Ok, Bad, run, host
<1>1. CASE Preflight
  <2>1. ControlOK'
    BY <1>1 DEF Preflight, ControlOK, Ended, Request
  <2>2. HostOK'
    BY <1>1 DEF Preflight, HostOK
  <2>3. QED
    BY <2>1, <2>2
<1>2. CASE ConfigureUser \/ WriteKeys
  <2>1. ControlOK'
    <3>1. \/ Ok("user", "keys") \/ Bad("user", "failed")
          \/ Ok("keys", "dropin") \/ Bad("keys", "failed")
      BY <1>2 DEF ConfigureUser, WriteKeys
    <3>2. UNCHANGED <<cfg, runs, before, rolledBack>>
      BY <1>2 DEF ConfigureUser, WriteKeys
    <3>3. QED
      BY <3>1, <3>2 DEF ControlOK, Ended
  <2>2. HostOK'
    BY <1>2 DEF ConfigureUser, WriteKeys, HostOK
  <2>3. QED
    BY <2>1, <2>2
<1>3. CASE WriteDropin
  <2>1. ControlOK'
    <3>1. Ok("dropin", "sshd_t") \/ Bad("dropin", "rollback")
      BY <1>3 DEF WriteDropin
    <3>2. UNCHANGED <<cfg, runs, before, rolledBack>>
      BY <1>3 DEF WriteDropin
    <3>3. QED
      BY <3>1, <3>2 DEF ControlOK, Ended
  <2>2. HostOK'
    <3>1. cfg.port \in NewPorts
      BY <1>3 DEF WriteDropin, ControlOK
    <3>2. QED
      BY <1>3, <3>1 DEF WriteDropin, HostOK
  <2>3. QED
    BY <2>1, <2>2
<1>4. CASE TestConfig
  <2>1. ControlOK'
    BY <1>4 DEF TestConfig, ControlOK, Ended, Request
  <2>2. HostOK'
    BY <1>4 DEF TestConfig, HostOK
  <2>3. QED
    BY <2>1, <2>2
<1>5. CASE CheckSocket
  <2>1. ControlOK'
    BY <1>5 DEF CheckSocket, ControlOK, Ended, Request
  <2>2. HostOK'
    BY <1>5 DEF CheckSocket, HostOK
  <2>3. QED
    BY <2>1, <2>2
<1>6. CASE StopSocket
  <2>1. ControlOK'
    BY <1>6 DEF StopSocket, ControlOK, Ended, Request
  <2>2. HostOK'
    BY <1>6 DEF StopSocket, HostOK
  <2>3. QED
    BY <2>1, <2>2
<1>7. CASE DisableSocket
  <2>1. ControlOK'
    BY <1>7 DEF DisableSocket, ControlOK, Ended, Request
  <2>2. HostOK'
    BY <1>7 DEF DisableSocket, HostOK
  <2>3. QED
    BY <2>1, <2>2
<1>8. CASE RecheckSocket
  <2>1. ControlOK'
    BY <1>8 DEF RecheckSocket, ControlOK, Ended, Request
  <2>2. HostOK'
    BY <1>8 DEF RecheckSocket, HostOK
  <2>3. QED
    BY <2>1, <2>2
<1>9. CASE EnableService
  <2>1. ControlOK'
    BY <1>9 DEF EnableService, ControlOK, Ended, Request
  <2>2. HostOK'
    BY <1>9 DEF EnableService, HostOK
  <2>3. QED
    BY <2>1, <2>2
<1>10. CASE RestartService
  <2>1. ControlOK'
    BY <1>10 DEF RestartService, ControlOK, Ended, Request
  <2>2. ConfPorts \in SUBSET Ports
    BY DEF ConfPorts, PortsIn, Ports, HostOK
  <2>3. PICK p \in SUBSET Ports :
          svc' \in {svc, [svc EXCEPT !.active = FALSE],
                   [svc EXCEPT !.active = TRUE, !.ports = p]}
    <3>1. CASE sock.active
      BY <1>10, <3>1 DEF RestartService, Ports
    <3>2. CASE ~sock.active
      BY <1>10, <2>2, <3>2 DEF RestartService
    <3>3. QED
      BY <3>1, <3>2
  <2>4. svc' \in [active : BOOLEAN, enabled : BOOLEAN, ports : SUBSET Ports]
    <3> DEFINE T == [active : BOOLEAN, enabled : BOOLEAN, ports : SUBSET Ports]
    <3>1. svc \in T
      BY DEF HostOK
    <3>2. {svc, [svc EXCEPT !.active = FALSE], [svc EXCEPT !.active = TRUE, !.ports = p]}
             \subseteq T
      BY <3>1, ServiceStates
    <3> HIDE DEF T
    <3>3. svc' \in T
      BY <2>3, <3>2
    <3>4. QED
      BY <3>3 DEF T
  <2>5. HostOK'
    BY <1>10, <2>4 DEF RestartService, HostOK
  <2>6. QED
    BY <2>1, <2>5
<1>11. CASE TestConnection
  <2>1. ControlOK'
    BY <1>11 DEF TestConnection, ControlOK, Ended, Request
  <2>2. HostOK'
    BY <1>11 DEF TestConnection, HostOK
  <2>3. QED
    BY <2>1, <2>2
<1>12. CASE AllowSSH
  <2>1. ControlOK'
    BY <1>12 DEF AllowSSH, ControlOK, Ended, Request
  <2>2. HostOK'
    BY <1>12 DEF AllowSSH, HostOK, ControlOK, Ports
  <2>3. QED
    BY <2>1, <2>2
<1>13. CASE EnableUfw
  <2>1. ControlOK'
    BY <1>13 DEF EnableUfw, EnableAt, ControlOK, Ended, Request
  <2>2. HostOK'
    BY <1>13 DEF EnableUfw, EnableAt, HostOK
  <2>3. QED
    BY <2>1, <2>2
<1>14. CASE Extras
  <2>1. ControlOK'
    BY <1>14 DEF Extras, ControlOK, Ended, Request
  <2>2. HostOK'
    BY <1>14 DEF Extras, HostOK
  <2>3. QED
    BY <2>1, <2>2
<1>15. CASE CreateScript
  <2>1. ControlOK'
    BY <1>15 DEF CreateScript, ControlOK, Ended, Request
  <2>2. HostOK'
    BY <1>15 DEF CreateScript, HostOK
  <2>3. QED
    BY <2>1, <2>2
<1>16. CASE RestoreConfig
  <2>1. ControlOK'
    BY <1>16 DEF RestoreConfig, ControlOK, Ended, Request
  <2>2. HostOK'
    BY <1>16 DEF RestoreConfig, HostOK
  <2>3. QED
    BY <2>1, <2>2
<1>17. CASE RbEnableSocket
  <2>1. ControlOK'
    BY <1>17 DEF RbEnableSocket, ControlOK, Ended, Request
  <2>2. HostOK'
    BY <1>17 DEF RbEnableSocket, HostOK
  <2>3. QED
    BY <2>1, <2>2
<1>18. CASE RbStopService
  <2>1. ControlOK'
    BY <1>18 DEF RbStopService, ControlOK, Ended, Request
  <2>2. HostOK'
    BY <1>18 DEF RbStopService, HostOK
  <2>3. QED
    BY <2>1, <2>2
<1>19. CASE RbStartSocket
  <2>1. ControlOK'
    BY <1>19 DEF RbStartSocket, ControlOK, Ended, Request
  <2>2. HostOK'
    BY <1>19 DEF RbStartSocket, HostOK
  <2>3. QED
    BY <2>1, <2>2
<1>20. CASE RbDisableUfw
  <2>1. ControlOK'
    BY <1>20 DEF RbDisableUfw, ControlOK, Ended, Request
  <2>2. HostOK'
    BY <1>20 DEF RbDisableUfw, HostOK
  <2>3. QED
    BY <2>1, <2>2
<1>21. CASE Crash
  <2>1. ControlOK'
    BY <1>21 DEF Crash, ControlOK, Ended, Request
  <2>2. HostOK'
    BY <1>21 DEF Crash, HostOK
  <2>3. QED
    BY <2>1, <2>2
<1>22. CASE Again
  <2>1. ControlOK'
    <3>1. before' \in BOOLEAN
      BY <1>22 DEF Again, HostOK
    <3>2. cfg' \in Request /\ pc' = "preflight" /\ faults' \in 0..MaxFaults
      BY <1>22 DEF Again
    <3>3. runs' \in 1..MaxRuns
      BY <1>22 DEF Again, ControlOK
    <3>4. rolledBack' \in BOOLEAN
      BY <1>22 DEF Again
    <3>5. QED
      BY <3>1, <3>2, <3>3, <3>4 DEF ControlOK
  <2>2. HostOK'
    BY <1>22 DEF Again, HostOK
  <2>3. QED
    BY <2>1, <2>2
<1>23. CASE UNCHANGED vars
  BY <1>23 DEF vars, ControlOK, HostOK
<1>24. QED
  BY <1>1, <1>2, <1>3, <1>4, <1>5, <1>6, <1>7, <1>8, <1>9, <1>10, <1>11, <1>12, <1>13, <1>14, <1>15, <1>16, <1>17, <1>18, <1>19, <1>20, <1>21, <1>22, <1>23 DEF Next

\* What has been achieved by the time Harden stands at a label.
Progress ==
    /\ pc \notin {"preflight", "user", "keys", "failed", "killed"} \/ rolledBack => keys
    /\ pc \in {"preflight", "user", "keys"} => ~rolledBack /\ (runs = 1 => dropin = 0)
    /\ runs = 1 /\ dropin # 0 => keys
    /\ pc \in {"allow_ssh", "enable_ufw", "extras", "script", "ok"} =>
            cfg.port \in Listening
    /\ pc = "enable_ufw" => cfg.port \in ufw.allowed
    /\ pc \in {"extras", "script", "ok"} /\ cfg.firewall =>
            cfg.port \in ufw.allowed

\* The inductive invariant: each step of Harden finds what the earlier ones
\* have set up, on whatever host the run began.
THEOREM ProgressInvariance == Spec => [](TypeOK /\ Progress)
<1>1. Init => TypeOK /\ Progress
  BY StartTypes DEF Init, Progress
<1>2. TypeOK /\ [Next]_vars => TypeOK'
  BY StepTypes
<1>3. TypeOK /\ Progress /\ [Next]_vars => Progress'
  <2> SUFFICES ASSUME TypeOK, Progress, [Next]_vars PROVE Progress'
    OBVIOUS
  <2> USE DEF Progress, Ok, Bad, run, host
  <2>1. CASE Preflight
    BY <2>1 DEF Preflight
  <2>2. CASE ConfigureUser \/ WriteKeys
    <3>1. /\ pc \in {"user", "keys"} /\ pc' \in {"keys", "dropin", "failed"}
          /\ UNCHANGED <<runs, rolledBack, dropin>>
      BY <2>2 DEF ConfigureUser, WriteKeys
    <3>2. pc' = "dropin" => keys'
      BY <2>2 DEF ConfigureUser, WriteKeys
    <3>3. QED
      BY <3>1, <3>2
  <2>3. CASE WriteDropin \/ TestConfig
    BY <2>3 DEF WriteDropin, TestConfig
  <2>4. CASE CheckSocket
    BY <2>4 DEF CheckSocket
  <2>5. CASE StopSocket \/ DisableSocket \/ RecheckSocket
    BY <2>5 DEF StopSocket, DisableSocket, RecheckSocket
  <2>6. CASE EnableService \/ RestartService
    BY <2>6 DEF EnableService, RestartService
  <2>7. CASE TestConnection
    BY <2>7 DEF TestConnection, Listening
  <2>8. CASE AllowSSH
    <3>1. cfg' = cfg /\ Listening' = Listening /\ dropin' = dropin /\ keys' = keys
      BY <2>8 DEF AllowSSH, Listening
    <3>2. pc = "allow_ssh"
      BY <2>8 DEF AllowSSH
    <3>3. CASE pc' = "rollback"
      BY <3>1, <3>2, <3>3
    <3>4. CASE pc' = "enable_ufw" /\ ufw' = [ufw EXCEPT !.allowed = @ \cup {cfg.port}]
      BY <3>1, <3>2, <3>4 DEF TypeOK, HostOK
    <3>5. QED
      BY <2>8, <3>3, <3>4 DEF AllowSSH
  <2>9. CASE EnableUfw
    <3>1. cfg' = cfg /\ Listening' = Listening /\ dropin' = dropin /\ keys' = keys
      BY <2>9 DEF EnableUfw, EnableAt, Listening
    <3>2. pc = "enable_ufw"
      BY <2>9 DEF EnableUfw, EnableAt
    <3>3. CASE pc' = "rollback"
      BY <3>1, <3>2, <3>3
    <3>4. CASE pc' = "extras" /\ ufw' = [ufw EXCEPT !.active = TRUE]
      BY <3>1, <3>2, <3>4 DEF TypeOK, HostOK
    <3>5. QED
      BY <2>9, <3>3, <3>4 DEF EnableUfw, EnableAt
  <2>10. CASE Extras \/ CreateScript
    BY <2>10 DEF Extras, CreateScript, Listening
  <2>11. CASE RestoreConfig \/ RbEnableSocket \/ RbStopService
              \/ RbStartSocket \/ RbDisableUfw
    BY <2>11 DEF RestoreConfig, RbEnableSocket, RbStopService, RbStartSocket,
                 RbDisableUfw
  <2>12. CASE Crash \/ Again
    <3>1. Crash => runs' = runs /\ pc' = "killed" /\ UNCHANGED host
      BY DEF Crash
    <3>2. Again => runs' # 1 /\ pc' = "preflight" /\ ~rolledBack'
      BY HardenAssumption DEF Again, TypeOK, ControlOK
    <3>3. QED
      BY <2>12, <3>1, <3>2 DEF Crash
  <2>13. CASE UNCHANGED vars
    BY <2>13 DEF vars, Listening
  <2>14. QED
    BY <2>1, <2>2, <2>3, <2>4, <2>5, <2>6, <2>7, <2>8, <2>9, <2>10, <2>11,
       <2>12, <2>13 DEF Next
<1>4. QED
  BY <1>1, <1>2, <1>3, PTL DEF Spec

\* Every state has the types the module declares, and past the pre-flight
\* checks the port is a valid one.
THEOREM HardenTypes == Spec => []TypeOK
BY ProgressInvariance, PTL

\* Whatever fails and whenever the agent is killed, key-only login without root
\* is configured only where the VM user has its keys: always in a first run, and
\* in a later one unless it ends while it rewrites them.
THEOREM KeysFirst == Spec => []KeysBeforeLock
<1>1. TypeOK /\ Progress => KeysBeforeLock
  BY HardenAssumption DEF Progress, KeysBeforeLock, TypeOK, ControlOK
<1>2. QED
  BY <1>1, ProgressInvariance, PTL

\* A run with the firewall asked for that succeeds leaves sshd listening where
\* the firewall lets through, whatever earlier runs left behind.
THEOREM SuccessIsReachable == Spec => []SuccessOpensDoor
<1>1. TypeOK /\ Progress => SuccessOpensDoor
  <2> SUFFICES ASSUME TypeOK, Progress, pc = "ok", cfg.firewall PROVE DoorOpen
    BY DEF SuccessOpensDoor
  <2>1. cfg.port \in Listening /\ cfg.port \in ufw.allowed
    BY DEF Progress
  <2>2. keys
    BY DEF Progress
  <2>3. QED
    BY <2>1, <2>2 DEF DoorOpen, Admits
<1>2. QED
  BY <1>1, ProgressInvariance, PTL

\* Up to the restart of sshd, and from the check on that it serves the new port.
BeforeCheck == {"preflight", "user", "keys", "dropin", "sshd_t", "is_socket",
                "stop_socket", "disable_socket", "recheck", "enable_svc", "restart",
                "listening"}
AfterCheck  == {"allow_ssh", "enable_ufw", "extras", "script", "ok"}
Rollback    == {"rb_enable", "rb_stop", "rb_start", "rb_ufw"}

\* In any run, what sshd listens on around the check, and what is a rollback.
Checked ==
    /\ pc = "listening" => svc.active /\ (sock.active => svc.ports = {BasePort})
    /\ pc \in AfterCheck =>
            cfg.port \in Listening /\ (sock.active => cfg.port = BasePort)
    /\ pc \in Rollback => rolledBack
    /\ rolledBack => pc \in Rollback \cup {"failed", "killed"}

\* A run on a VM whose firewall was off: it is on only once the port sshd serves
\* is let through, and is not turned on at all unless that was asked for.
Shut ==
    runs = 1 /\ ~before /\ ~rolledBack =>
        /\ pc \in BeforeCheck \cup {"allow_ssh", "enable_ufw"} => ~ufw.active
        /\ ufw.active => cfg.port \in ufw.allowed \cap Listening

LEMMA CheckGoesOn ==
    TypeOK /\ Progress /\ Checked /\ Shut /\ [Next]_vars => Checked' /\ Shut'
<1> USE HardenAssumption
<1> SUFFICES ASSUME TypeOK, Progress, Checked, Shut, [Next]_vars
             PROVE  Checked' /\ Shut'
  OBVIOUS
<1> USE DEF Ok, Bad, run, host
<1>0. HostOK /\ ControlOK
  BY DEF TypeOK
<1>1. CASE Preflight \/ ConfigureUser \/ WriteKeys \/ WriteDropin \/ TestConfig
           \/ CheckSocket
  <2>1. /\ pc \in BeforeCheck /\ pc' \in BeforeCheck \cup {"failed", "rollback"}
        /\ pc' # "listening"
        /\ UNCHANGED <<cfg, runs, before, rolledBack, sock, svc, ufw>>
    BY <1>1 DEF Preflight, ConfigureUser, WriteKeys, WriteDropin, TestConfig,
                CheckSocket, BeforeCheck
  <2>2. QED
    BY <2>1 DEF Checked, Shut, BeforeCheck, AfterCheck, Rollback, Listening
<1>2. CASE StopSocket \/ DisableSocket \/ RecheckSocket \/ EnableService
  <2>1. /\ pc \in BeforeCheck /\ pc' \in BeforeCheck \cup {"rollback"}
        /\ pc' # "listening"
        /\ UNCHANGED <<cfg, runs, before, rolledBack, ufw>>
    BY <1>2 DEF StopSocket, DisableSocket, RecheckSocket, EnableService, BeforeCheck
  <2>2. QED
    BY <2>1 DEF Checked, Shut, BeforeCheck, AfterCheck, Rollback
<1>3. CASE RestartService
  <2>1. /\ pc \in BeforeCheck /\ pc' \in {"listening", "rollback"}
        /\ UNCHANGED <<cfg, runs, before, rolledBack, ufw, sock>>
    BY <1>3 DEF RestartService, BeforeCheck
  <2>2. pc' = "listening" => svc'.active /\ (sock'.active => svc'.ports = {BasePort})
    BY <1>0, <1>3 DEF RestartService, HostOK
  <2>3. QED
    BY <2>1, <2>2 DEF Checked, Shut, BeforeCheck, AfterCheck, Rollback
<1>4. CASE TestConnection
  <2>1. /\ pc = "listening" /\ pc' \in {"allow_ssh", "extras", "rollback"}
        /\ UNCHANGED <<cfg, runs, before, rolledBack, ufw, sock, svc>>
    BY <1>4 DEF TestConnection
  <2>2. pc' # "rollback" => cfg.port \in Listening
    BY <1>4 DEF TestConnection
  <2>3. sock.active => Listening = {BasePort}
    BY <2>1 DEF Checked, Listening
  <2>4. QED
    BY <2>1, <2>2, <2>3 DEF Checked, Shut, BeforeCheck, AfterCheck, Rollback, Listening
<1>5. CASE AllowSSH
  <2>1. /\ pc = "allow_ssh" /\ pc' \in {"enable_ufw", "rollback"}
        /\ UNCHANGED <<cfg, runs, before, rolledBack, sock, svc>>
    BY <1>5 DEF AllowSSH
  <2>2. ufw'.active = ufw.active
    BY <1>0, <1>5 DEF AllowSSH, HostOK
  <2>3. QED
    BY <2>1, <2>2 DEF Checked, Shut, BeforeCheck, AfterCheck, Rollback, Listening
<1>6. CASE EnableUfw
  <2>1. /\ pc = "enable_ufw" /\ pc' \in {"extras", "rollback"}
        /\ UNCHANGED <<cfg, runs, before, rolledBack, sock, svc>>
    BY <1>6 DEF EnableUfw, EnableAt
  <2>2. ufw'.allowed = ufw.allowed /\ cfg.port \in ufw.allowed
    BY <1>0, <1>6, <2>1 DEF EnableUfw, EnableAt, HostOK, Progress
  <2>3. QED
    BY <2>1, <2>2 DEF Checked, Shut, BeforeCheck, AfterCheck, Rollback, Listening
<1>7. CASE Extras \/ CreateScript
  <2>1. /\ pc \in {"extras", "script"} /\ pc' \in {"script", "ok", "failed"}
        /\ UNCHANGED <<cfg, runs, before, rolledBack, sock, svc, ufw>>
    BY <1>7 DEF Extras, CreateScript
  <2>2. QED
    BY <2>1 DEF Checked, Shut, BeforeCheck, AfterCheck, Rollback, Listening
<1>8. CASE RestoreConfig
  BY <1>8 DEF RestoreConfig, Checked, Shut, BeforeCheck, AfterCheck, Rollback, Listening
<1>9. CASE RbEnableSocket \/ RbStopService \/ RbStartSocket \/ RbDisableUfw
  <2>1. /\ pc \in Rollback /\ pc' \in Rollback \cup {"failed"}
        /\ rolledBack' = rolledBack
    BY <1>9 DEF RbEnableSocket, RbStopService, RbStartSocket, RbDisableUfw, Rollback
  <2>2. QED
    BY <2>1 DEF Checked, Shut, BeforeCheck, AfterCheck, Rollback
<1>10. CASE Crash \/ Again
  BY <1>0, <1>10 DEF Crash, Again, Checked, Shut, BeforeCheck, AfterCheck, Rollback, Listening,
     Ended, ControlOK
<1>11. CASE UNCHANGED vars
  BY <1>11 DEF vars, Checked, Shut, Listening
<1>12. QED
  BY <1>1, <1>2, <1>3, <1>4, <1>5, <1>6, <1>7, <1>8, <1>9, <1>10, <1>11 DEF Next

\* The run that NoLockout and RollbackRestoresFirst are about: what it has not
\* touched yet, what it has moved, and what its rollback has brought back.
Untouched ==
    /\ pc \in {"preflight", "user", "keys"} => dropin = 0
    /\ pc \in {"preflight", "user", "keys", "dropin", "sshd_t", "is_socket"} =>
        /\ sock.active <=> sock.enabled
        /\ Listening # {}
        /\ sock.enabled \/ svc.enabled

Moved ==
    /\ pc \in {"sshd_t", "is_socket", "stop_socket", "disable_socket", "recheck",
               "enable_svc", "restart", "listening"} \cup AfterCheck =>
           dropin = cfg.port
    /\ pc \in {"disable_socket", "recheck"} => ~sock.active
    /\ pc = "recheck" => ~sock.enabled
    /\ pc \in {"enable_svc", "restart", "listening"} \cup AfterCheck =>
           (sock.active <=> sock.enabled)
    /\ pc \in {"enable_svc", "restart", "listening"} /\ sock.active => faults = 1
    /\ pc \in {"restart", "listening"} \cup AfterCheck => svc.enabled
    /\ pc = "listening" /\ faults = 0 => cfg.port \in Listening
    /\ pc = "failed" /\ ~rolledBack => DoorOpen /\ DoorOpenAfterReboot

BroughtBack ==
    /\ pc \in Rollback \cup {"rollback"} => faults = 1
    /\ pc \in Rollback => dropin = 0
    /\ pc \in {"rb_stop", "rb_start", "rb_ufw"} => sock.enabled
    /\ pc \in {"rb_start", "rb_ufw"} => ~svc.active
    /\ pc = "rb_ufw" => sock.active
    /\ pc = "failed" /\ rolledBack =>
        dropin = 0 /\ sock.enabled /\ sock.active /\ ~svc.active /\ ~ufw.active

FirstRun == OneFaultFirstRun => Untouched /\ Moved /\ BroughtBack

\* Only a new run starts its count of failures again.
LEMMA SameRun ==
    ASSUME TypeOK, [Next]_vars, OneFaultFirstRun'
    PROVE  OneFaultFirstRun /\ UNCHANGED <<cfg, runs, before>> /\ faults <= faults'
<1>1. faults \in Nat /\ runs \in Nat /\ runs >= 1
  BY HardenAssumption DEF TypeOK, ControlOK
<1>2. ~Again
  BY <1>1 DEF Again, OneFaultFirstRun
<1>3. UNCHANGED <<cfg, runs, before>> /\ (faults' = faults \/ faults' = faults + 1)
  BY <1>2 DEF Next, Preflight, ConfigureUser, WriteKeys, WriteDropin, TestConfig, CheckSocket,
     StopSocket, DisableSocket, RecheckSocket, EnableService, RestartService,
     TestConnection, AllowSSH, EnableUfw, EnableAt, Extras, CreateScript,
     RestoreConfig, RbEnableSocket, RbStopService, RbStartSocket, RbDisableUfw,
     Crash, Ok, Bad, run, host, vars
<1>4. QED
  BY <1>1, <1>3 DEF OneFaultFirstRun

LEMMA FirstRunGoesOn ==
    TypeOK /\ Progress /\ Checked /\ Shut /\ FirstRun /\ [Next]_vars => FirstRun'
<1> USE HardenAssumption
<1> SUFFICES ASSUME TypeOK, Progress, Checked, Shut, FirstRun, [Next]_vars,
                    OneFaultFirstRun'
             PROVE  Untouched' /\ Moved' /\ BroughtBack'
  BY DEF FirstRun
<1>a. OneFaultFirstRun /\ UNCHANGED <<cfg, runs, before>> /\ faults <= faults'
  BY SameRun
<1>b. /\ Untouched /\ Moved /\ BroughtBack /\ faults \in {0, 1} /\ faults' \in {0, 1}
      /\ runs = 1 /\ ~before
  <2>1. faults \in Nat /\ faults' \in Nat
    BY StepTypes DEF TypeOK, ControlOK
  <2>2. QED
    BY <1>a, <2>1 DEF FirstRun, OneFaultFirstRun
<1>c. HostOK /\ ControlOK
  BY DEF TypeOK
<1> USE DEF Ok, Bad, run, host
<1>1. CASE Preflight \/ ConfigureUser \/ WriteKeys
  <2>1. /\ pc \in {"preflight", "user", "keys"}
        /\ pc' \in {"user", "keys", "dropin", "failed"}
        /\ UNCHANGED <<rolledBack, sock, svc, conf, dropin, ufw>>
    BY <1>1 DEF Preflight, ConfigureUser, WriteKeys
  <2>2. /\ ~ufw.active /\ dropin = 0 /\ Listening # {}
        /\ sock.active <=> sock.enabled
        /\ sock.enabled \/ svc.enabled
        /\ ~rolledBack
    BY <1>b, <2>1 DEF Shut, Checked, Untouched, BeforeCheck, Rollback
  <2>3. Listening' = Listening
    BY <2>1 DEF Listening
  <2>4. DoorOpen' /\ DoorOpenAfterReboot'
    BY <2>1, <2>2, <2>3 DEF DoorOpen, DoorOpenAfterReboot, Admits, ConfPorts, PortsIn
  <2>5. QED
    BY <1>b, <2>1, <2>2, <2>3, <2>4
       DEF Untouched, Moved, BroughtBack, AfterCheck, Rollback
<1>2. CASE WriteDropin
  <2>1. /\ pc = "dropin" /\ pc' \in {"sshd_t", "rollback"}
        /\ pc' = "sshd_t" => dropin' = cfg.port
        /\ pc' = "rollback" => faults' = faults + 1
        /\ UNCHANGED <<rolledBack, sock, svc, ufw>>
    BY <1>2 DEF WriteDropin
  <2>2. Listening' = Listening
    BY <2>1 DEF Listening
  <2>3. QED
    BY <1>a, <1>b, <2>1, <2>2 DEF Untouched, Moved, BroughtBack, AfterCheck, Rollback
<1>3. CASE TestConfig
  <2>1. /\ pc = "sshd_t" /\ pc' \in {"is_socket", "rollback"}
        /\ pc' = "is_socket" => dropin' = dropin
        /\ pc' = "rollback" => faults' = faults + 1
        /\ UNCHANGED <<rolledBack, sock, svc, ufw>>
    BY <1>3 DEF TestConfig
  <2>2. Listening' = Listening
    BY <2>1 DEF Listening
  <2>3. QED
    BY <1>a, <1>b, <2>1, <2>2 DEF Untouched, Moved, BroughtBack, AfterCheck, Rollback
<1>4. CASE CheckSocket
  <2>1. /\ pc = "is_socket" /\ pc' \in {"stop_socket", "enable_svc"}
        /\ pc' = "enable_svc" => ~sock.active \/ faults' = faults + 1
        /\ UNCHANGED <<rolledBack, sock, svc, dropin, ufw>>
    BY <1>4 DEF CheckSocket
  <2>2. QED
    BY <1>a, <1>b, <2>1 DEF Untouched, Moved, BroughtBack, AfterCheck, Rollback
<1>5. CASE StopSocket
  <2>1. /\ pc = "stop_socket" /\ pc' \in {"disable_socket", "rollback"}
        /\ pc' = "rollback" => faults' = faults + 1
        /\ UNCHANGED <<rolledBack, svc, dropin, ufw>>
    BY <1>5 DEF StopSocket
  <2>2. pc' = "disable_socket" => ~sock'.active
    BY <1>5, <1>c DEF StopSocket, HostOK
  <2>3. QED
    BY <1>a, <1>b, <2>1, <2>2 DEF Untouched, Moved, BroughtBack, AfterCheck, Rollback
<1>6. CASE DisableSocket
  <2>1. /\ pc = "disable_socket" /\ pc' \in {"recheck", "rollback"}
        /\ pc' = "rollback" => faults' = faults + 1
        /\ UNCHANGED <<rolledBack, svc, dropin, ufw>>
    BY <1>6 DEF DisableSocket
  <2>2. pc' = "recheck" => ~sock'.enabled /\ sock'.active = sock.active
    BY <1>6, <1>c DEF DisableSocket, HostOK
  <2>3. QED
    BY <1>a, <1>b, <2>1, <2>2 DEF Untouched, Moved, BroughtBack, AfterCheck, Rollback
<1>7. CASE RecheckSocket
  <2>1. /\ pc = "recheck" /\ pc' \in {"enable_svc", "rollback"}
        /\ pc' = "rollback" => faults' = faults + 1
        /\ pc' = "enable_svc" => sock' = sock
        /\ UNCHANGED <<rolledBack, svc, dropin, ufw>>
    BY <1>7 DEF RecheckSocket
  <2>2. QED
    BY <1>a, <1>b, <2>1 DEF Untouched, Moved, BroughtBack, AfterCheck, Rollback
<1>8. CASE EnableService
  <2>1. /\ pc = "enable_svc" /\ pc' \in {"restart", "rollback"}
        /\ pc' = "rollback" => faults' = faults + 1
        /\ pc' = "restart" => faults' = faults
        /\ UNCHANGED <<rolledBack, sock, dropin, ufw>>
    BY <1>8 DEF EnableService
  <2>2. pc' = "restart" => svc'.enabled
    BY <1>8, <1>c DEF EnableService, HostOK
  <2>3. QED
    BY <1>a, <1>b, <2>1, <2>2 DEF Untouched, Moved, BroughtBack, AfterCheck, Rollback
<1>9. CASE RestartService
  <2>1. /\ pc = "restart" /\ pc' \in {"listening", "rollback"}
        /\ pc' = "rollback" => faults' = faults + 1
        /\ pc' = "listening" => faults' = faults
        /\ UNCHANGED <<rolledBack, sock, dropin, ufw>>
    BY <1>9 DEF RestartService
  <2>2. cfg.port \in ConfPorts
    BY <1>b, <1>c, <2>1 DEF Moved, ConfPorts, PortsIn, ControlOK
  <2>3. pc' = "listening" =>
           /\ svc'.enabled /\ svc'.active
           /\ ~sock.active => cfg.port \in svc'.ports
    BY <1>9, <1>b, <1>c, <2>1, <2>2 DEF RestartService, HostOK, Moved
  <2>4. pc' = "listening" /\ faults' = 0 => cfg'.port \in Listening'
    BY <1>a, <1>b, <2>1, <2>3 DEF Moved, Listening
  <2>5. QED
    BY <1>a, <1>b, <2>1, <2>3, <2>4
       DEF Untouched, Moved, BroughtBack, AfterCheck, Rollback
<1>10. CASE TestConnection
  <2>1. /\ pc = "listening" /\ pc' \in {"allow_ssh", "extras", "rollback"}
        /\ pc' = "rollback" => cfg.port \notin Listening \/ faults' = faults + 1
        /\ UNCHANGED <<rolledBack, sock, svc, dropin, ufw>>
    BY <1>10 DEF TestConnection
  <2>2. pc' = "rollback" => faults' = 1
    BY <1>a, <1>b, <2>1 DEF Moved
  <2>3. QED
    BY <1>a, <1>b, <2>1, <2>2 DEF Untouched, Moved, BroughtBack, AfterCheck, Rollback
<1>11. CASE AllowSSH \/ EnableUfw
  <2>1. /\ pc \in {"allow_ssh", "enable_ufw"}
        /\ pc' \in {"enable_ufw", "extras", "rollback"}
        /\ pc' = "rollback" => faults' = faults + 1
        /\ UNCHANGED <<rolledBack, sock, svc, dropin>>
    BY <1>11 DEF AllowSSH, EnableUfw, EnableAt
  <2>2. QED
    BY <1>a, <1>b, <2>1 DEF Untouched, Moved, BroughtBack, AfterCheck, Rollback
<1>12. CASE Extras \/ CreateScript
  <2>1. /\ pc \in {"extras", "script"} /\ pc' \in {"script", "ok", "failed"}
        /\ UNCHANGED <<rolledBack, sock, svc, conf, dropin, keys, ufw>>
    BY <1>12 DEF Extras, CreateScript
  <2>2. /\ ~rolledBack /\ Admits(cfg.port) /\ dropin = cfg.port /\ keys
        /\ cfg.port \in Listening /\ (sock.active => cfg.port = BasePort)
    BY <1>b, <2>1 DEF Checked, Shut, Moved, AfterCheck, Rollback, Admits, Progress
  <2>3. DoorOpen /\ DoorOpenAfterReboot
    <3>1. DoorOpen
      BY <2>2 DEF DoorOpen
    <3>2. CASE sock.enabled
      BY <1>b, <2>1, <2>2, <3>1, <3>2 DEF Moved, AfterCheck, DoorOpenAfterReboot
    <3>3. CASE ~sock.enabled
      <4>1. svc.enabled
        BY <1>b, <2>1 DEF Moved, AfterCheck
      <4>2. cfg.port \in ConfPorts
        BY <1>c, <2>1, <2>2 DEF ConfPorts, PortsIn, ControlOK
      <4>3. QED
        BY <2>2, <3>1, <3>3, <4>1, <4>2 DEF DoorOpenAfterReboot
    <3>4. QED
      BY <3>1, <3>2, <3>3
  <2>4. DoorOpen' /\ DoorOpenAfterReboot'
    BY <2>1, <2>3 DEF DoorOpen, DoorOpenAfterReboot, Admits, Listening, ConfPorts
  <2>5. QED
    BY <1>a, <1>b, <2>1, <2>2, <2>4
       DEF Untouched, Moved, BroughtBack, AfterCheck, Rollback
<1>13. CASE RestoreConfig
  <2>1. /\ pc = "rollback" /\ faults = 1 /\ faults' = 1
        /\ pc' = "rb_enable" /\ dropin' = 0 /\ rolledBack'
    BY <1>13, <1>a, <1>b DEF RestoreConfig, BroughtBack
  <2>2. QED
    BY <1>b, <2>1 DEF Untouched, Moved, BroughtBack, AfterCheck, Rollback
<1>14. CASE RbEnableSocket
  <2>1. /\ pc = "rb_enable" /\ faults = 1 /\ faults' = 1 /\ pc' = "rb_stop"
        /\ sock' = [sock EXCEPT !.enabled = TRUE]
        /\ UNCHANGED <<rolledBack, dropin>>
    BY <1>14, <1>a, <1>b DEF RbEnableSocket, BroughtBack, Rollback
  <2>2. sock'.enabled
    BY <1>c, <2>1 DEF HostOK
  <2>3. QED
    BY <1>b, <2>1, <2>2 DEF Untouched, Moved, BroughtBack, AfterCheck, Rollback
<1>15. CASE RbStopService
  <2>1. /\ pc = "rb_stop" /\ faults = 1 /\ faults' = 1 /\ pc' = "rb_start"
        /\ svc' = [svc EXCEPT !.active = FALSE]
        /\ UNCHANGED <<rolledBack, dropin, sock>>
    BY <1>15, <1>a, <1>b DEF RbStopService, BroughtBack, Rollback
  <2>2. ~svc'.active
    BY <1>c, <2>1 DEF HostOK
  <2>3. QED
    BY <1>b, <2>1, <2>2 DEF Untouched, Moved, BroughtBack, AfterCheck, Rollback
<1>16. CASE RbStartSocket
  <2>1. /\ pc = "rb_start" /\ faults = 1 /\ faults' = 1 /\ pc' = "rb_ufw"
        /\ sock' = [sock EXCEPT !.active = TRUE]
        /\ UNCHANGED <<rolledBack, dropin, svc>>
    BY <1>16, <1>a, <1>b DEF RbStartSocket, BroughtBack, Rollback
  <2>2. sock'.active /\ sock'.enabled
    BY <1>b, <1>c, <2>1 DEF HostOK, BroughtBack
  <2>3. QED
    BY <1>b, <2>1, <2>2 DEF Untouched, Moved, BroughtBack, AfterCheck, Rollback
<1>17. CASE RbDisableUfw
  <2>1. /\ pc = "rb_ufw" /\ faults = 1 /\ faults' = 1 /\ pc' = "failed"
        /\ ufw' = [ufw EXCEPT !.active = FALSE]
        /\ UNCHANGED <<rolledBack, dropin, svc, sock>>
    BY <1>17, <1>a, <1>b DEF RbDisableUfw, BroughtBack, Rollback
  <2>2. ~ufw'.active /\ rolledBack
    BY <1>c, <2>1 DEF HostOK, Checked, Rollback
  <2>3. QED
    BY <1>b, <2>1, <2>2 DEF Untouched, Moved, BroughtBack, AfterCheck, Rollback
<1>18. CASE Crash
  BY <1>18, <1>b DEF Crash, Untouched, Moved, BroughtBack, AfterCheck, Rollback
<1>19. CASE Again
  BY <1>19, <1>a, <1>b, <1>c DEF Again, ControlOK
<1>20. CASE UNCHANGED vars
  BY <1>20, <1>b DEF vars, Untouched, Moved, BroughtBack, AfterCheck, Rollback, Listening,
     DoorOpen, DoorOpenAfterReboot, Admits, ConfPorts
<1>21. QED
  BY <1>1, <1>2, <1>3, <1>4, <1>5, <1>6, <1>7, <1>8, <1>9, <1>10, <1>11, <1>12,
     <1>13, <1>14, <1>15, <1>16, <1>17, <1>18, <1>19, <1>20 DEF Next

LEMMA FirstRunStarts == Init => Checked /\ Shut /\ FirstRun
<1> SUFFICES ASSUME Init PROVE Checked /\ Shut /\ FirstRun
  OBVIOUS
<1>1. pc = "preflight" /\ faults = 0 /\ ~rolledBack /\ dropin = 0
  BY DEF Init
<1>2. before <=> ufw.active
  BY DEF Init
<1>3. PICK m \in Modes :
        /\ sock = [active |-> m = "socket", enabled |-> m = "socket"]
        /\ svc = [active |-> m = "service", enabled |-> m = "service",
                  ports |-> PortsIn(conf, 0)]
  BY DEF Init
<1>4. m = "socket" \/ m = "service"
  BY HardenAssumption
<1>5. Listening # {} /\ (sock.active <=> sock.enabled)
      /\ (sock.enabled \/ svc.enabled)
  BY <1>3, <1>4 DEF Listening, PortsIn
<1>6. Checked
  BY <1>1 DEF Checked, AfterCheck, Rollback
<1>7. Shut
  BY <1>1, <1>2 DEF Shut
<1>8. FirstRun
  BY <1>1, <1>2, <1>5
     DEF FirstRun, Untouched, Moved, BroughtBack, AfterCheck, Rollback
<1>9. QED
  BY <1>6, <1>7, <1>8

LEMMA RunInvariance == Spec => [](TypeOK /\ Progress /\ Checked /\ Shut /\ FirstRun)
<1>1. Spec => [](Checked /\ Shut)
  BY FirstRunStarts, CheckGoesOn, ProgressInvariance, PTL DEF Spec
<1>2. Spec => []FirstRun
  BY <1>1, FirstRunStarts, FirstRunGoesOn, ProgressInvariance, PTL DEF Spec
<1>3. QED
  BY <1>1, <1>2, ProgressInvariance, PTL

\* On a VM without a firewall, at no step of a first run on its way to success
\* are all ports that sshd listens on shut, whatever fails and whenever it is
\* killed.
THEOREM FirewallAdmits == Spec => []FirewallAdmitsSSH
<1>1. Shut => FirewallAdmitsSSH
  BY DEF Shut, FirewallAdmitsSSH, Admits
<1>2. QED
  BY <1>1, RunInvariance, PTL

\* Whichever one command fails, a first run leaves a way in when it has ended,
\* now and after a reboot: for every port, and socket-activated or not.
THEOREM NoOneLockedOut == Spec => []NoLockout
<1>1. TypeOK /\ Progress /\ Checked /\ Shut /\ FirstRun => NoLockout
  <2> USE HardenAssumption
  <2> SUFFICES ASSUME TypeOK, Progress, Checked, Shut, FirstRun, OneFaultFirstRun,
                      pc \in {"ok", "failed"}
               PROVE  DoorOpen /\ DoorOpenAfterReboot
    BY DEF NoLockout
  <2>1. Untouched /\ Moved /\ BroughtBack /\ runs = 1 /\ ~before
    BY DEF FirstRun, OneFaultFirstRun
  <2>2. CASE pc = "ok"
    <3>1. /\ ~rolledBack /\ dropin = cfg.port /\ Admits(cfg.port) /\ keys
          /\ cfg.port \in Listening /\ (sock.active => cfg.port = BasePort)
      BY <2>1, <2>2 DEF Checked, Shut, Moved, AfterCheck, Rollback, Admits, Progress
    <3>2. cfg.port \in ConfPorts
      BY <2>2, <3>1 DEF ConfPorts, PortsIn, TypeOK, ControlOK, Ended
    <3>3. DoorOpen
      BY <3>1 DEF DoorOpen
    <3>4. CASE sock.enabled
      BY <2>1, <2>2, <3>1, <3>3, <3>4 DEF Moved, AfterCheck, DoorOpenAfterReboot
    <3>5. CASE ~sock.enabled
      BY <2>1, <2>2, <3>1, <3>2, <3>3, <3>5 DEF Moved, AfterCheck, DoorOpenAfterReboot
    <3>6. QED
      BY <3>4, <3>5
  <2>3. CASE pc = "failed" /\ rolledBack
    BY <2>1, <2>3 DEF BroughtBack, DoorOpen, DoorOpenAfterReboot, Listening, Admits
  <2>4. CASE pc = "failed" /\ ~rolledBack
    BY <2>1, <2>4 DEF Moved
  <2>5. QED
    BY <2>2, <2>3, <2>4
<1>2. QED
  BY <1>1, RunInvariance, PTL

\* A first run rolled back because of its one failure has given the VM back its
\* firewall and a way in without the drop-in: on port 22, however it was before.
THEOREM RollbackRestores == Spec => []RollbackRestoresFirst
<1>1. TypeOK /\ FirstRun => RollbackRestoresFirst
  <2> SUFFICES ASSUME TypeOK, FirstRun, OneFaultFirstRun, pc = "failed", rolledBack
               PROVE  dropin = 0 /\ Listening = {BasePort} /\ ufw.active = before
    BY DEF RollbackRestoresFirst
  <2>1. ~before /\ dropin = 0 /\ sock.active /\ ~svc.active /\ ~ufw.active
    BY DEF FirstRun, OneFaultFirstRun, BroughtBack
  <2>2. Listening = {BasePort}
    BY <2>1 DEF Listening
  <2>3. ufw.active = FALSE /\ before = FALSE
    BY <2>1 DEF TypeOK, HostOK, ControlOK
  <2>4. QED
    BY <2>1, <2>2, <2>3
<1>2. QED
  BY <1>1, RunInvariance, PTL
-----------------------------------------------------------------------------
(* CleanupVM: cleaning up keeps the types of the VM that Harden and its      *)
(* rollback keep, for any number of hardenings and cleanups.                 *)

\* What Cleanup keeps of itself.
JobOK ==
    /\ step \in Finished \cup {"files", "nginx", "jail", "dropin", "sshd_config",
                               "restart", "firewall", "user"}
    /\ ask \in Asked
    /\ missing \subseteq Services
    /\ cleanups \in 0..MaxCleanups

LEMMA Split == CleanupTypeOK <=> TypeOK /\ JobOK
BY DEF CleanupTypeOK, JobOK

\* A step that works or fails leaves Harden's run as it is.
LEMMA Stepping ==
    ASSUME NEW s, NEW s2, CleanupTypeOK, StepOk(s, s2) \/ StepBad(s, s2),
           s2 \in Finished \cup {"files", "nginx", "jail", "dropin", "sshd_config",
                                 "restart", "firewall", "user"}
    PROVE  ControlOK' /\ JobOK'
<1> USE HardenAssumption, CleanupAssumption
<1>1. UNCHANGED <<pc, rolledBack, cfg, runs, before>> /\ faults' \in 0..MaxFaults
  BY DEF StepOk, StepBad, run, CleanupTypeOK, TypeOK, ControlOK
<1>2. ControlOK'
  BY <1>1 DEF CleanupTypeOK, TypeOK, ControlOK
<1>3. step' = s2 /\ UNCHANGED <<ask, missing, cleanups>>
  BY DEF StepOk, StepBad, job
<1>4. JobOK'
  BY <1>3 DEF CleanupTypeOK, JobOK
<1>5. QED
  BY <1>2, <1>4

\* Each step of Cleanup keeps the types.
LEMMA CleanupKeeps == CleanupTypeOK /\ Cleanup => TypeOK' /\ JobOK'
<1> SUFFICES ASSUME CleanupTypeOK, Cleanup PROVE TypeOK' /\ JobOK'
  OBVIOUS
<1> USE HardenAssumption, CleanupAssumption
<1>0. HostOK
  BY DEF CleanupTypeOK, TypeOK
<1>1. CASE BeginCleanup
  <2>1. /\ UNCHANGED <<pc, rolledBack, cfg, runs, before>> /\ faults' = 0
        /\ UNCHANGED <<sock, svc, conf, dropin, keys, ufw, script>>
    BY <1>1 DEF BeginCleanup, run, host
  <2>2. ControlOK' /\ HostOK'
    BY <1>0, <2>1 DEF CleanupTypeOK, TypeOK, ControlOK, HostOK
  <2>3. JobOK'
    BY <1>1 DEF BeginCleanup, JobOK, CleanupTypeOK
  <2>4. QED
    BY <2>2, <2>3 DEF TypeOK
<1>2. CASE RemoveFiles \/ ReloadNginx \/ RestartFail2ban \/ KillCleanup
  <2>1. UNCHANGED <<sock, svc, conf, dropin, keys, ufw, script>>
    BY <1>2 DEF RemoveFiles, ReloadNginx, RestartFail2ban, OnService, KillCleanup, host
  <2>2. HostOK'
    BY <1>0, <2>1 DEF HostOK
  <2>3. \E s, s2 : /\ StepOk(s, s2) \/ StepBad(s, s2)
                   /\ s2 \in {"nginx", "ok", "jail", "dropin", "user", "failed",
                              "killed"}
    BY <1>2 DEF RemoveFiles, ReloadNginx, RestartFail2ban, OnService, KillCleanup,
                AfterNginx, AfterJail
  <2>4. ControlOK' /\ JobOK'
    BY <2>3, Stepping DEF Finished
  <2>5. QED
    BY <2>2, <2>4 DEF TypeOK
<1>3. CASE RemoveDropin \/ EditConfig
  <2>1. ControlOK' /\ JobOK'
    BY <1>3, Stepping DEF RemoveDropin, EditConfig, Finished
  <2>2. conf' \in OldPorts \cup {0, BasePort}
    BY <1>0, <1>3 DEF RemoveDropin, EditConfig, HostOK, CleanupTypeOK, Asked
  <2>3. HostOK'
    BY <1>0, <1>3, <2>2 DEF RemoveDropin, EditConfig, HostOK
  <2>4. QED
    BY <2>1, <2>3 DEF TypeOK
<1>4. CASE RestartSshd
  <2>1. AfterRestart \in {"firewall", "user"}
    BY DEF AfterRestart
  <2>2. ControlOK' /\ JobOK'
    BY <1>4, <2>1, Stepping DEF RestartSshd, Finished
  <2>3. ConfPorts \in SUBSET Ports
    BY <1>0 DEF ConfPorts, PortsIn, Ports, HostOK
  <2>4. PICK p \in SUBSET Ports :
          svc' \in {svc, [svc EXCEPT !.active = FALSE],
                    [svc EXCEPT !.active = TRUE, !.ports = p]}
    <3>1. CASE sock.active
      BY <1>4, <3>1 DEF RestartSshd, Ports
    <3>2. CASE ~sock.active
      BY <1>4, <2>3, <3>2 DEF RestartSshd
    <3>3. QED
      BY <3>1, <3>2
  <2>5. svc' \in [active : BOOLEAN, enabled : BOOLEAN, ports : SUBSET Ports]
    <3> DEFINE T == [active : BOOLEAN, enabled : BOOLEAN, ports : SUBSET Ports]
    <3>1. svc \in T
      BY <1>0 DEF HostOK
    <3>2. {svc, [svc EXCEPT !.active = FALSE], [svc EXCEPT !.active = TRUE, !.ports = p]}
             \subseteq T
      BY <3>1, ServiceStates
    <3> HIDE DEF T
    <3>3. svc' \in T
      BY <2>4, <3>2
    <3>4. QED
      BY <3>3 DEF T
  <2>6. HostOK'
    BY <1>0, <1>4, <2>5 DEF RestartSshd, HostOK
  <2>7. QED
    BY <2>2, <2>6 DEF TypeOK
<1>5. CASE DisableFirewall
  <2>1. ControlOK' /\ JobOK'
    BY <1>5, Stepping DEF DisableFirewall, Finished
  <2>2. HostOK'
    BY <1>0, <1>5 DEF DisableFirewall, HostOK
  <2>3. QED
    BY <2>1, <2>2 DEF TypeOK
<1>6. CASE RemoveUser
  <2>1. ControlOK' /\ JobOK'
    BY <1>6, Stepping DEF RemoveUser, Finished
  <2>2. HostOK'
    BY <1>0, <1>6 DEF RemoveUser, HostOK
  <2>3. QED
    BY <2>1, <2>2 DEF TypeOK
<1>7. QED
  BY <1>1, <1>2, <1>3, <1>4, <1>5, <1>6 DEF Cleanup

\* However often the VM is hardened and cleaned up, with whatever failures and
\* kills, its state keeps the types Harden gives it (Spec's own HardenTypes is
\* about Harden alone).
THEOREM CleanupTypes == CleanupSpec => []CleanupTypeOK
<1> USE HardenAssumption, CleanupAssumption
<1>1. CleanupInit => CleanupTypeOK
  <2> SUFFICES ASSUME CleanupInit PROVE TypeOK /\ JobOK
    BY Split
  <2>1. TypeOK
    BY StartTypes DEF CleanupInit
  <2>2. JobOK
    BY DEF CleanupInit, JobOK, Finished, Asked, Levels
  <2>3. QED
    BY <2>1, <2>2
<1>2. ASSUME CleanupTypeOK, [HardenStep \/ Cleanup]_<<vars, step, job>>
      PROVE  CleanupTypeOK'
  <2> SUFFICES TypeOK' /\ JobOK'
    BY DEF CleanupTypeOK, JobOK
  <2>1. CASE HardenStep
    <3>1. TypeOK'
      BY <1>2, <2>1, StepTypes DEF HardenStep, CleanupTypeOK
    <3>2. JobOK'
      BY <1>2, <2>1 DEF HardenStep, CleanupTypeOK, JobOK, job
    <3>3. QED
      BY <3>1, <3>2
  <2>2. CASE Cleanup
    BY <1>2, <2>2, CleanupKeeps
  <2>3. CASE UNCHANGED <<vars, step, job>>
    <3>1. TypeOK'
      BY <1>2, <2>3, StepTypes DEF CleanupTypeOK
    <3>2. JobOK'
      BY <1>2, <2>3 DEF CleanupTypeOK, JobOK, job
    <3>3. QED
      BY <3>1, <3>2
  <2>4. QED
    BY <1>2, <2>1, <2>2, <2>3
<1>3. QED
  BY <1>1, <1>2, PTL DEF CleanupSpec

\* Where a revert stands: a Port line of sshd_config names the port asked for, past
\* the restart sshd serves it, and by the time the user goes the firewall is open
\* if that was asked for.
RevertProgress ==
    ask.level = "revert" /\ dropin = 0 =>
        /\ step \in {"restart", "firewall", "user"} => conf \in {0, ask.port}
        /\ step \in {"firewall", "user"} =>
               /\ svc.active /\ svc.enabled
               /\ svc.ports = (IF sock.active THEN {BasePort} ELSE ConfPorts)
        /\ step = "user" /\ ask.firewall => ~ufw.active

LEMMA RevertGoesOn ==
    CleanupTypeOK /\ RevertProgress /\ [HardenStep \/ Cleanup]_<<vars, step, job>>
        => RevertProgress'
<1> SUFFICES ASSUME CleanupTypeOK, RevertProgress,
                    [HardenStep \/ Cleanup]_<<vars, step, job>>
             PROVE  RevertProgress'
  OBVIOUS
<1>0. HostOK
  BY DEF CleanupTypeOK, TypeOK
<1>1. CASE HardenStep
  BY <1>1 DEF HardenStep, RevertProgress, Finished
<1>2. CASE BeginCleanup \/ RemoveFiles \/ ReloadNginx \/ RestartFail2ban
  <2>1. \/ step' \in {"files", "nginx", "jail", "dropin", "ok", "failed"}
        \/ step' = "user" /\ ask'.level # "revert"
    BY <1>2 DEF BeginCleanup, RemoveFiles, ReloadNginx, RestartFail2ban, OnService,
                StepOk, StepBad, AfterNginx, AfterJail, job, CleanupTypeOK, Asked, Levels
  <2>2. QED
    BY <2>1 DEF RevertProgress
<1>3. CASE RemoveDropin \/ EditConfig \/ KillCleanup
  <2>1. ask' = ask
    BY <1>3 DEF RemoveDropin, EditConfig, KillCleanup, StepOk, StepBad, job
  <2>2. CASE step' = "restart"
    BY <1>3, <2>1, <2>2 DEF RemoveDropin, EditConfig, KillCleanup, StepOk, StepBad,
       RevertProgress, Finished
  <2>3. CASE step' # "restart"
    BY <1>3, <2>3 DEF RemoveDropin, EditConfig, KillCleanup, StepOk, StepBad,
       RevertProgress
  <2>4. QED
    BY <2>2, <2>3
<1>4. CASE RestartSshd
  <2>1. /\ step = "restart" /\ step' \in {"firewall", "user", "failed"}
        /\ UNCHANGED <<ask, sock, conf, dropin>>
    BY <1>4 DEF RestartSshd, StepOk, StepBad, AfterRestart, job
  <2>2. step' = "user" => ~ask.firewall
    BY <1>4 DEF RestartSshd, StepOk, StepBad, AfterRestart
  <2>3. ASSUME step' # "failed"
        PROVE  /\ svc'.active /\ svc'.enabled
               /\ svc'.ports = (IF sock.active THEN {BasePort} ELSE ConfPorts)
    <3>1. svc.enabled /\ svc' = [svc EXCEPT !.active = TRUE,
                                  !.ports = IF sock.active THEN {BasePort} ELSE ConfPorts]
      BY <1>4, <2>3 DEF RestartSshd, StepOk, StepBad
    <3>2. QED
      BY <1>0, <3>1 DEF HostOK
  <2>4. ConfPorts' = ConfPorts
    BY <2>1 DEF ConfPorts
  <2>5. QED
    BY <2>1, <2>2, <2>3, <2>4 DEF RevertProgress
<1>5. CASE DisableFirewall
  <2>1. /\ step = "firewall" /\ UNCHANGED <<ask, sock, svc, conf, dropin>>
        /\ \/ step' = "failed"
           \/ step' = "user" /\ ufw' = [ufw EXCEPT !.active = FALSE]
    BY <1>5 DEF DisableFirewall, StepOk, StepBad, job
  <2>2. step' = "user" => ~ufw'.active
    BY <1>0, <2>1 DEF HostOK
  <2>3. ConfPorts' = ConfPorts
    BY <2>1 DEF ConfPorts
  <2>4. QED
    BY <2>1, <2>2, <2>3 DEF RevertProgress
<1>6. CASE RemoveUser
  BY <1>6 DEF RemoveUser, StepOk, StepBad, RevertProgress
<1>7. CASE UNCHANGED <<vars, step, job>>
  BY <1>7 DEF vars, host, job, RevertProgress, ConfPorts
<1>8. QED
  BY <1>1, <1>2, <1>3, <1>4, <1>5, <1>6, <1>7 DEF Cleanup

\* A revert that reports success and was to disable the firewall has given the
\* VM back a way in, now and after a reboot, and on the port it reports wherever
\* it can, whatever was done to the VM and went wrong before.
THEOREM RevertRestores == CleanupSpec => RevertRestoresDoor
<1>1. CleanupInit => RevertProgress
  BY DEF CleanupInit, RevertProgress
<1>2. ASSUME CleanupTypeOK, RevertProgress, [HardenStep \/ Cleanup]_<<vars, step, job>>
      PROVE  [step # "ok" /\ step' = "ok" /\ ask.level = "revert" /\ ask.firewall
                   /\ dropin = 0
                => /\ (\E p \in Listening : Admits(p))' /\ DoorOpenAfterReboot'
                   /\ CanGiveBack => Serves(ask.port)']_<<vars, step, job>>
  <2> SUFFICES ASSUME step # "ok", step' = "ok", ask.level = "revert", ask.firewall,
                      dropin = 0
               PROVE  /\ (\E p \in Listening : Admits(p))' /\ DoorOpenAfterReboot'
                      /\ CanGiveBack => Serves(ask.port)'
    OBVIOUS
  <2>1. step = "user" /\ UNCHANGED <<sock, svc, conf, dropin, ufw, ask>>
    <3>1. ~HardenStep /\ ~BeginCleanup
      BY DEF HardenStep, BeginCleanup
    <3>2. ~RemoveFiles /\ ~ReloadNginx /\ ~RestartFail2ban
      BY DEF RemoveFiles, ReloadNginx, RestartFail2ban, OnService, StepOk, StepBad,
             AfterNginx, AfterJail
    <3>3. ~RemoveDropin /\ ~EditConfig /\ ~KillCleanup
      BY DEF RemoveDropin, EditConfig, KillCleanup, StepOk, StepBad
    <3>4. ~RestartSshd /\ ~DisableFirewall
      BY DEF RestartSshd, DisableFirewall, StepOk, StepBad, AfterRestart
    <3>5. step' # step
      OBVIOUS
    <3>6. RemoveUser
      BY <1>2, <3>1, <3>2, <3>3, <3>4, <3>5 DEF Cleanup
    <3>7. QED
      BY <3>6 DEF RemoveUser, StepOk, StepBad, job
  <2>2. /\ svc.active /\ svc.enabled /\ ~ufw.active /\ conf \in {0, ask.port}
        /\ svc.ports = (IF sock.active THEN {BasePort} ELSE ConfPorts)
    BY <1>2, <2>1 DEF RevertProgress
  <2>3. ConfPorts = IF conf = 0 THEN {BasePort} ELSE {ask.port}
    BY <2>2 DEF ConfPorts, PortsIn
  <2>4. Listening = (IF sock.active THEN {BasePort} ELSE ConfPorts)
    BY <2>2 DEF Listening
  <2>5. Listening' = Listening /\ ConfPorts' = ConfPorts
    BY <2>1 DEF Listening, ConfPorts
  <2>6. (\E p \in Listening : Admits(p))' /\ DoorOpenAfterReboot'
    BY <2>1, <2>2, <2>3, <2>4, <2>5 DEF Admits, DoorOpenAfterReboot
  <2>7. ASSUME CanGiveBack PROVE Serves(ask.port)'
    <3>1. ask.port \in Listening
      BY <2>2, <2>3, <2>4, <2>7 DEF CanGiveBack
    <3>2. IF sock.enabled THEN ask.port = BasePort
                          ELSE svc.enabled /\ ask.port \in ConfPorts
      BY <2>2, <2>3, <2>7 DEF CanGiveBack
    <3>3. QED
      BY <2>1, <2>5, <3>1, <3>2 DEF Serves
  <2>8. QED
    BY <2>6, <2>7
<1>3. CleanupSpec => []RevertProgress
  BY <1>1, RevertGoesOn, CleanupTypes, PTL DEF CleanupSpec
<1>4. QED
  BY <1>2, <1>3, CleanupTypes, PTL DEF CleanupSpec, RevertRestoresDoor
=============================================================================
