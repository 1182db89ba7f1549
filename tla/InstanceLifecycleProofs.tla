----------------------- MODULE InstanceLifecycleProofs -----------------------
(* Proofs about InstanceLifecycle for any number of workers, versions,       *)
(* credentials, jobs and failing commands.                                   *)
EXTENDS InstanceLifecycle, TLAPS

DeployLabels == {"d_docker", "d_nginx", "d_dir", "d_write", "d_down", "d_wipe",
                 "d_pull", "d_pg", "d_up", "d_roles", "d_again", "d_wait", "d_health",
                 "d_site"}
DestroyLabels == {"x_stop", "x_volumes", "x_site", "x_dir", "x_orphans", "x_port"}
SweepLabels == {"z_prune", "zf_prune", "z_ufw", "zf_ufw"}
UpgradeLabels == {"u_check", "u_bak", "u_write", "u_env", "u_undo", "u_stop", "u_up",
                  "u_health", "r_stop", "r_copy", "r_up"}
RotateLabels == {"c_check", "c_read", "c_write", "c_restart", "c_verify"}

\* What a worker does agrees with where it is.
Agrees(p, j) ==
    \/ p \in Idle
    \/ p \in DeployLabels /\ j \in DeployJobs
    \/ p \in DestroyLabels /\ j \in DestroyJobs \cup {ResetJob}
    \/ p \in SweepLabels /\ j = ResetJob
    \/ p \in UpgradeLabels /\ j \in UpgradeJobs
    \/ p \in RotateLabels /\ j \in RotateJobs

KindInv == \A w \in Workers : Agrees(pc[w], job[w])

\* A job that has run alone so far is the only one.
Solo(w) == alone[w] /\ pc[w] \notin Idle

SoloInv == \A w, v \in Workers : Solo(w) /\ v # w => pc[v] \in Idle

\* What a lone deployment has achieved where it is.
DeployInv(w) ==
    /\ pc[w] \in DeployLabels \ {"d_docker", "d_nginx", "d_dir", "d_write"} =>
           dir /\ yml = job[w].ver /\ env = Rendered(w) /\ mount[yml] = "file"
    /\ pc[w] \in {"d_roles", "d_again", "d_wait", "d_health", "d_site"} =>
           stack = Created("all")
    /\ pc[w] \in {"d_again", "d_wait", "d_health", "d_site"} => data = job[w].key
    /\ faults[w] = 0 =>
           /\ pc[w] = "d_wipe" => stack = NoStack
           /\ pc[w] \in {"d_pull", "d_pg"} => stack = NoStack /\ data = None
           /\ pc[w] \in {"d_up", "d_roles"} => data = job[w].key

\* ... and a lone destroy or reset.
DestroyInv(w) ==
    /\ pc[w] \in {"x_stop", "x_volumes"} =>
           dir = start[w].dir /\ yml = start[w].yml
    /\ start[w].dir =>
           /\ pc[w] \in {"x_site", "x_dir", "x_orphans", "x_port", "z_prune", "z_ufw"}
                  => stack = NoStack
           /\ pc[w] \in {"x_dir", "x_orphans", "x_port", "z_prune", "z_ufw"} => ~site
           /\ pc[w] \in {"x_orphans", "x_port", "z_prune", "z_ufw"}
                  => ~dir /\ data = None

LoneInv == \A w \in Workers : Solo(w) => DeployInv(w) /\ DestroyInv(w)
-----------------------------------------------------------------------------
Stacks == [st : {"none", "some", "all", "stopped"}, ver : Files, cred : Envs]
Mounts == [Versions -> {"none", "file", "dir"}]

HostOK ==
    /\ dir \in BOOLEAN /\ site \in BOOLEAN /\ port \in BOOLEAN
    /\ yml \in Files /\ bak \in Files /\ env \in Envs
    /\ stack \in Stacks
    /\ data \in Keys \cup {None}
    /\ mount \in Mounts

Starts == [yml : Files, env : Envs, dir : BOOLEAN, whole : BOOLEAN]

ControlOK ==
    /\ pc \in [Workers -> Labels]
    /\ job \in [Workers -> Jobs]
    /\ held \in [Workers -> Envs]
    /\ jobs \in 0..MaxJobs
    /\ faults \in [Workers -> 0..MaxFaults]
    /\ alone \in [Workers -> BOOLEAN]
    /\ start \in [Workers -> Starts]

\* A step of worker w that goes on with its job or ends it.
Going(w) ==
    /\ pc[w] \notin Idle
    /\ \A v \in Workers \ {w} :
          /\ pc'[v] = pc[v] /\ job'[v] = job[v] /\ faults'[v] = faults[v]
          /\ alone'[v] = alone[v] /\ start'[v] = start[v]
    /\ pc'[w] \notin Idle =>
          job'[w] = job[w] /\ alone'[w] = alone[w] /\ start'[w] = start[w]
    /\ faults'[w] = 0 => faults[w] = 0

\* The control part of one command keeps its types and touches no other worker.
LEMMA Control ==
    ASSUME ControlOK, NEW w \in Workers, NEW l \in Labels \ Idle, NEW l2 \in Labels,
           Ok(w, l, l2) \/ Bad(w, l, l2)
    PROVE  ControlOK' /\ Going(w) /\ pc[w] = l /\ pc'[w] = l2
<1>1. Proceed(w, l, l2)
  BY DEF Ok, Bad
<1>2. NoJob \in Jobs /\ NoStart \in Starts /\ None \in Envs
  BY DEF Jobs, NoStart, Starts, Files, Envs
<1>3. pc' = [pc EXCEPT ![w] = l2] /\ jobs' = jobs
  BY <1>1 DEF Proceed
<1>4. job' \in [Workers -> Jobs] /\ held' \in [Workers -> Envs]
      /\ alone' \in [Workers -> BOOLEAN]
  BY <1>1, <1>2 DEF Proceed, ControlOK
<1>5. start' \in [Workers -> Starts]
  BY <1>1, <1>2 DEF Proceed, ControlOK
<1>6. faults' \in [Workers -> 0..MaxFaults]
  BY HostAssumption DEF Ok, Bad, ControlOK
<1>7. ControlOK'
  BY <1>3, <1>4, <1>5, <1>6 DEF ControlOK
<1>8. Going(w)
  BY <1>1, HostAssumption DEF Proceed, Ok, Bad, Going, ControlOK
<1> QED
  BY <1>1, <1>3, <1>7, <1>8 DEF Proceed, ControlOK

\* A job that begins keeps the types too.
LEMMA Beginning ==
    ASSUME HostOK, ControlOK, NEW w \in Workers, NEW j \in Jobs, NEW l \in Labels,
           Begin(w, j, l)
    PROVE  ControlOK' /\ HostOK'
<1>1. jobs' \in 0..MaxJobs /\ job' \in [Workers -> Jobs]
      /\ pc' \in [Workers -> Labels] /\ held' \in [Workers -> Envs]
  BY HostAssumption DEF Begin, ControlOK
<1>2. faults' \in [Workers -> 0..MaxFaults]
  BY HostAssumption DEF Begin, ControlOK
<1>3. alone' \in [Workers -> BOOLEAN]
  BY DEF Begin, ControlOK
<1>4. [yml |-> yml, env |-> env, dir |-> dir,
       whole |-> dir /\ yml \in Versions /\ mount[yml] = "file"
                 /\ stack = Created("all") /\ Serving] \in Starts
  BY DEF HostOK, Starts
<1>5. start' \in [Workers -> Starts]
  BY <1>4 DEF Begin, ControlOK
<1>6. ControlOK'
  BY <1>1, <1>2, <1>3, <1>5 DEF ControlOK
<1>7. HostOK'
  BY DEF Begin, HostOK, host, files, texts
<1> QED
  BY <1>6, <1>7

\* What `up` makes of the containers, the database and the mounted files, whether
\* it works or fails.
LEMMA Upping ==
    ASSUME HostOK, yml \in Versions,
           \/ Up \/ UpPostgres
           \/ mount' \in {mount, Mounted} /\ UNCHANGED <<stack, data>>
    PROVE  /\ stack' \in Stacks /\ data' \in Keys \cup {None} /\ mount' \in Mounts
           /\ mount[yml] = "file" => mount' = mount
           /\ \A v \in Versions : mount[v] = "file" => mount'[v] = "file"
           /\ data # None => data' = data
<1>1. Created("all") \in Stacks /\ Created("some") \in Stacks
  BY DEF Created, Stacks, HostOK
<1>2. stack' \in Stacks
  BY <1>1 DEF Up, UpPostgres, HostOK
<1>3. Mounted \in Mounts /\ mount' \in {mount, Mounted}
  BY DEF Up, UpPostgres, Mounted, Mounts, HostOK
<1>4. env \in Creds => env["pg"] \in Keys
  BY DEF Creds, Parts
<1>5. data' \in Keys \cup {None} /\ (data # None => data' = data)
  BY <1>4 DEF Up, UpPostgres, Initialise, HostOK
<1>6. /\ mount[yml] = "file" => mount' = mount
      /\ \A v \in Versions : mount[v] = "file" => mount'[v] = "file"
  BY <1>3 DEF Mounted, Mounts, HostOK
<1> QED
  BY <1>2, <1>3, <1>5, <1>6 DEF HostOK

LEMMA UpFailing ==
    ASSUME HostOK, yml \in Versions, NEW w \in Workers, NEW l, NEW l2, UpFails(w, l, l2)
    PROVE  /\ Bad(w, l, l2) \/ (Ok(w, l, l2) /\ mount'[yml] = "dir")
           /\ stack' \in Stacks /\ data' \in Keys \cup {None} /\ mount' \in Mounts
           /\ mount[yml] = "file" => mount' = mount
           /\ \A v \in Versions : mount[v] = "file" => mount'[v] = "file"
           /\ data # None => data' = data
  BY Upping DEF UpFails
-----------------------------------------------------------------------------
\* The arguments of the jobs, and a worker's job from where it is.
LEMMA Arguments ==
    /\ \A j \in DeployJobs : j.kind = "deploy" /\ j.ver \in Versions /\ j.key \in Keys
    /\ \A j \in DestroyJobs : j.kind = "destroy" /\ j.port \in BOOLEAN
    /\ ResetJob.kind = "reset" /\ ResetJob.port = FALSE
    /\ \A j \in UpgradeJobs : j.kind = "upgrade" /\ j.ver \in Versions
                             /\ j.key \in Keys \cup {None}
    /\ \A j \in RotateJobs : j.kind = "rotate" /\ j.key \in Keys /\ j.part \in Parts
  BY DEF DeployJobs, DestroyJobs, ResetJob, UpgradeJobs, RotateJobs, JobsOf, NoJob

\* A step of w that stays among the labels L of its job, or ends it.
Within(w, L) ==
    HostOK' /\ ControlOK' /\ Going(w) /\ pc[w] \in L /\ pc'[w] \in L \cup Idle

FirstLabels == {"d_docker", "x_stop", "z_prune", "zf_prune", "u_check", "c_check"}

Starting(w, J) ==
    \E j \in J, l \in FirstLabels :
        Begin(w, j, l) /\ Agrees(l, j) /\ (l = "z_prune" => ~dir)

LEMMA DeploySteps ==
    ASSUME HostOK, ControlOK, KindInv, NEW w \in Workers, DeployStep(w)
    PROVE  Starting(w, DeployJobs) \/ Within(w, DeployLabels)
<1> USE DEF Within, DeployLabels, Labels, Idle, FirstLabels
<1>j. pc[w] \in DeployLabels => job[w].ver \in Versions /\ job[w].key \in Keys
  BY Arguments DEF KindInv, Agrees, DestroyLabels, SweepLabels, UpgradeLabels, RotateLabels
<1>r. pc[w] \in DeployLabels => Rendered(w) \in Envs
  BY <1>j DEF Rendered, Envs, Creds
<1>s. Created("all") \in Stacks
      /\ Created("some") \in Stacks
      /\ NoStack \in Stacks
  BY DEF Created, NoStack, HostOK, Files, Envs, Stacks
<1>1. CASE BeginDeploy(w)
  BY <1>1 DEF BeginDeploy, Starting, Agrees
<1>2. CASE MakeDirectories(w)
  <2>1. ControlOK' /\ Going(w) /\ pc[w] = "d_dir" /\ pc'[w] \in {"d_write", "failed"}
    BY <1>2, Control DEF MakeDirectories
  <2>2. dir' \in BOOLEAN
    BY <1>2 DEF MakeDirectories, HostOK
  <2> QED
    BY <1>2, <2>1, <2>2 DEF MakeDirectories, HostOK
<1>3. CASE WriteConfig(w)
  <2>1. ControlOK' /\ Going(w) /\ pc[w] = "d_write" /\ pc'[w] \in {"d_down", "failed"}
    BY <1>3, Control DEF WriteConfig
  <2>2. dir' \in BOOLEAN
    BY <1>3 DEF WriteConfig, Written, HostOK
  <2>3. yml' \in Files /\ env' \in Envs
    BY <1>3, <2>1, <1>j, <1>r DEF WriteConfig, Written, HostOK, Files, Envs
  <2>4. mount' \in Mounts
    BY <1>3, <2>1, <1>j DEF WriteConfig, MountsWritten, Mounts, HostOK
  <2> QED
    BY <1>3, <2>1, <2>2, <2>3, <2>4 DEF WriteConfig, HostOK
<1>4. CASE TearDown(w)
  BY <1>4, <1>s, Control DEF TearDown, HostOK, files, texts
<1>5. CASE WipeDatabase(w)
  BY <1>5, Control DEF WipeDatabase, HostOK, files, texts
<1>6. CASE Pull(w)
  BY <1>6, Control DEF Pull, HostOK, host, files, texts
<1>7. CASE StartPostgres(w)
  <2>1. ControlOK' /\ Going(w) /\ pc[w] = "d_pg" /\ pc'[w] \in {"d_up", "failed"}
    BY <1>7, UpFailing, Control DEF StartPostgres, CanCompose
  <2>2. stack' \in Stacks /\ data' \in Keys \cup {None} /\ mount' \in Mounts
    BY <1>7, Upping, UpFailing DEF StartPostgres, CanCompose, HostOK
  <2> QED
    BY <1>7, <2>1, <2>2 DEF StartPostgres, HostOK, texts
<1>8. ASSUME NEW l \in {"d_up", "d_again"}, NEW l2 \in {"d_roles", "d_wait"},
             StartAll(w, l, l2)
      PROVE  Within(w, DeployLabels)
  <2>1. ControlOK' /\ Going(w) /\ pc[w] = l /\ pc'[w] \in {l2, "failed"}
    BY <1>8, UpFailing, Control DEF StartAll, CanCompose
  <2>2. stack' \in Stacks /\ data' \in Keys \cup {None} /\ mount' \in Mounts
    BY <1>8, Upping, UpFailing DEF StartAll, CanCompose, HostOK
  <2> QED
    BY <1>8, <2>1, <2>2 DEF StartAll, HostOK, texts
<1>9. CASE SetRoles(w)
  BY <1>9, Control DEF SetRoles, HostOK, host, files, texts
<1>10. CASE InstallDocker(w) \/ InstallNginx(w) \/ AwaitContainers(w) \/ AwaitHealthy(w)
  BY <1>10, Control DEF InstallDocker, InstallNginx, AwaitContainers, AwaitHealthy,
                        Healthy, Unhealthy, HostOK, host, files, texts
<1>11. CASE ConfigureSite(w)
  <2>1. ControlOK' /\ Going(w) /\ pc[w] = "d_site" /\ pc'[w] \in {"ok", "failed"}
    BY <1>11, Control DEF ConfigureSite
  <2>2. site' \in BOOLEAN
    BY <1>11 DEF ConfigureSite, SiteCreated, SiteNotCreated
  <2> QED
    BY <1>11, <2>1, <2>2 DEF ConfigureSite, HostOK, files, texts
<1> QED
  BY <1>1, <1>2, <1>3, <1>4, <1>5, <1>6, <1>7, <1>8, <1>9, <1>10, <1>11 DEF DeployStep

LEMMA DestroySteps ==
    ASSUME HostOK, ControlOK, KindInv, NEW w \in Workers, DestroyStep(w)
    PROVE  \/ Starting(w, DestroyJobs \cup {ResetJob})
           \/ Within(w, DestroyLabels \cup SweepLabels)
<1> USE DEF Within, DestroyLabels, SweepLabels, Labels, Idle, FirstLabels
<1>s. NoStack \in Stacks
      /\ Stopped \in Stacks
  BY DEF NoStack, Stopped, HostOK, Files, Envs, Stacks
<1>f. Failed(w) \in {"zf_prune", "failed"}
  BY DEF Failed
<1>1. CASE BeginDestroy(w)
  BY <1>1 DEF BeginDestroy, Starting, Agrees
<1>2. CASE BeginReset(w)
  BY <1>2 DEF BeginReset, Starting, Agrees
<1>3. CASE StopContainers(w)
  BY <1>3, <1>s, <1>f, Control DEF StopContainers, HostOK, files, texts
<1>4. CASE RemoveVolumes(w)
  BY <1>4, <1>s, <1>f, Control DEF RemoveVolumes, HostOK, files, texts
<1>5. CASE RemoveSite(w)
  <2>1. ControlOK' /\ Going(w) /\ pc[w] = "x_site"
        /\ pc'[w] \in {"x_dir", "zf_prune", "failed"}
    BY <1>5, <1>f, Control DEF RemoveSite
  <2>2. site' \in BOOLEAN
    BY <1>5 DEF RemoveSite, SiteRemoved, SiteNotRemoved, HostOK
  <2> QED
    BY <1>5, <2>1, <2>2 DEF RemoveSite, HostOK, files, texts
<1>6. CASE RemoveDirectory(w)
  <2>1. ControlOK' /\ Going(w) /\ pc[w] = "x_dir"
        /\ pc'[w] \in {"x_orphans", "zf_prune", "failed"}
    BY <1>6, <1>f, Control DEF RemoveDirectory
  <2>2. dir' \in BOOLEAN
    BY <1>6 DEF RemoveDirectory, HostOK
  <2>3. yml' \in Files /\ bak' \in Files /\ env' \in Envs /\ data' \in Keys \cup {None}
    BY <1>6 DEF RemoveDirectory, HostOK, Files, Envs
  <2>4. mount' \in Mounts
    BY <1>6 DEF RemoveDirectory, HostOK, Mounts, NoMounts
  <2> QED
    BY <1>6, <2>1, <2>2, <2>3, <2>4 DEF RemoveDirectory, HostOK
<1>7. CASE CleanupOrphans(w)
  BY <1>7, Control DEF CleanupOrphans, HostOK, host, files, texts
<1>8. CASE ClosePort(w)
  <2>1. ControlOK' /\ Going(w) /\ pc[w] = "x_port"
        /\ pc'[w] \in {"ok", "z_prune", "failed"}
    BY <1>8, Control DEF ClosePort
  <2>2. port' \in BOOLEAN
    <3>1. port \in BOOLEAN
      BY DEF HostOK
    <3>2. port' = port \/ port' = (port /\ ~job[w].port)
      BY <1>8, Zenon DEF ClosePort
    <3> QED BY <3>1, <3>2, Zenon
  <2> QED
    BY <1>8, <2>1, <2>2 DEF ClosePort, HostOK, files, texts
<1>9. CASE PruneDocker(w)
  BY <1>9, Control DEF PruneDocker, HostOK, host, files, texts
<1>10. CASE ResetUfw(w)
  <2>1. PICK l \in {"z_ufw", "zf_ufw"}, r \in {"ok", "failed"} :
            Ok(w, l, r) \/ Bad(w, l, r)
    BY <1>10 DEF ResetUfw
  <2>a. ControlOK' /\ Going(w) /\ pc[w] \in {"z_ufw", "zf_ufw"}
        /\ pc'[w] \in {"ok", "failed"}
    BY <2>1, Control
  <2>2. port' \in BOOLEAN
    <3>1. port \in BOOLEAN
      BY DEF HostOK
    <3>2. port' \in {port, FALSE}
      BY <1>10 DEF ResetUfw
    <3> QED BY <3>1, <3>2
  <2> QED
    BY <1>10, <2>a, <2>2 DEF ResetUfw, HostOK, files, texts
<1> QED
  BY <1>1, <1>2, <1>3, <1>4, <1>5, <1>6, <1>7, <1>8, <1>9, <1>10 DEF DestroyStep

\* Only a reset comes to the sweep, and it does not come back from there.
LEMMA SweepTurns ==
    ASSUME ControlOK, KindInv, NEW w \in Workers, DestroyStep(w),
           Within(w, DestroyLabels \cup SweepLabels)
    PROVE  /\ pc'[w] \in SweepLabels => job[w] = ResetJob
           /\ pc'[w] \in DestroyLabels => pc[w] \in DestroyLabels
<1> USE DEF DestroyLabels, SweepLabels, Labels, Idle
<1>1. job[w] \in DestroyJobs \cup {ResetJob} /\ (pc[w] \in SweepLabels => job[w] = ResetJob)
  BY DEF KindInv, Agrees, Within, DeployLabels, UpgradeLabels, RotateLabels
<1>2. job[w].kind = "reset" => job[w] = ResetJob
  BY <1>1, Arguments
<1>3. pc[w] \notin Idle
  BY DEF Within
<1>4. CASE BeginDestroy(w) \/ BeginReset(w)
  BY <1>3, <1>4 DEF BeginDestroy, BeginReset, Begin
<1>5. CASE StopContainers(w)
  BY <1>2, <1>5, Control DEF StopContainers, Failed
<1>6. CASE RemoveVolumes(w)
  BY <1>2, <1>6, Control DEF RemoveVolumes, Failed
<1>7. CASE RemoveSite(w)
  <2>1. Ok(w, "x_site", "x_dir") \/ Bad(w, "x_site", Failed(w))
    BY <1>7 DEF RemoveSite
  <2> QED
    BY <1>2, <2>1, Control DEF Failed
<1>8. CASE RemoveDirectory(w)
  BY <1>2, <1>8, Control DEF RemoveDirectory, Failed
<1>9. CASE CleanupOrphans(w)
  BY <1>9, Control DEF CleanupOrphans
<1>10. CASE ClosePort(w)
  BY <1>2, <1>10, Control DEF ClosePort
<1>11. CASE PruneDocker(w)
  BY <1>1, <1>11, Control DEF PruneDocker
<1>12. CASE ResetUfw(w)
  <2>1. \/ Ok(w, "z_ufw", "ok") \/ Ok(w, "zf_ufw", "failed")
        \/ Bad(w, "z_ufw", "failed") \/ Bad(w, "zf_ufw", "failed")
    BY <1>12 DEF ResetUfw
  <2> QED
    BY <1>1, <2>1, Control
<1> QED
  BY <1>4, <1>5, <1>6, <1>7, <1>8, <1>9, <1>10, <1>11, <1>12 DEF DestroyStep

LEMMA UpgradeSteps ==
    ASSUME HostOK, ControlOK, KindInv, NEW w \in Workers, UpgradeStep(w)
    PROVE  Starting(w, UpgradeJobs) \/ Within(w, UpgradeLabels)
<1> USE DEF Within, UpgradeLabels, Labels, Idle, FirstLabels
<1>j. pc[w] \in UpgradeLabels =>
          job[w].ver \in Versions /\ job[w].key \in Keys \cup {None}
  BY Arguments DEF KindInv, Agrees, DeployLabels, DestroyLabels, SweepLabels, RotateLabels
<1>s. Created("all") \in Stacks
      /\ Created("some") \in Stacks
      /\ Stopped \in Stacks
  BY DEF Created, Stopped, HostOK, Files, Envs, Stacks
<1>b. CopyBack(w) \in {"u_undo", "failed"} /\ RollBack(w) \in {"r_stop", "failed"}
  BY DEF CopyBack, RollBack
<1>1. CASE BeginUpgrade(w)
  BY <1>1 DEF BeginUpgrade, Starting, Agrees
<1>2. CASE Precheck(w)
  BY <1>2, Control DEF Precheck, Healthy, Unhealthy, HostOK, host, files, texts
<1>3. CASE BackUpFile(w)
  BY <1>3, Control DEF BackUpFile, HostOK, Files
<1>4. CASE WriteNewFile(w)
  BY <1>4, <1>j, <1>b, Control DEF WriteNewFile, HostOK, Files
<1>5. CASE WriteNewEnv(w)
  <2>1. ControlOK' /\ Going(w) /\ pc[w] = "u_env"
        /\ pc'[w] \in {"u_stop", "u_undo", "failed"}
    BY <1>5, <1>b, Control DEF WriteNewEnv
  <2>2. job[w].key # None => [p \in Parts |-> job[w].key] \in Creds
    BY <1>j, <2>1 DEF Creds
  <2>3. env' \in Envs
    BY <1>5, <2>2 DEF WriteNewEnv, HostOK, Envs
  <2> QED
    BY <1>5, <2>1, <2>3 DEF WriteNewEnv, HostOK
<1>6. CASE UndoFile(w) \/ CopyOld(w)
  BY <1>6, Control DEF UndoFile, CopyOld, RestoreFile, HostOK, Files
<1>7. CASE StopOld(w)
  BY <1>7, <1>s, <1>b, Control DEF StopOld, HostOK, files, texts
<1>8. CASE StartNew(w)
  <2>1. ControlOK' /\ Going(w) /\ pc[w] = "u_up"
        /\ pc'[w] \in {"u_health", "r_stop", "failed"}
    BY <1>8, <1>b, UpFailing, Control DEF StartNew, CanCompose
  <2>2. stack' \in Stacks /\ data' \in Keys \cup {None} /\ mount' \in Mounts
    BY <1>8, Upping, UpFailing DEF StartNew, CanCompose, HostOK
  <2> QED
    BY <1>8, <2>1, <2>2 DEF StartNew, HostOK, texts
<1>9. CASE CheckNew(w)
  BY <1>9, <1>b, Control DEF CheckNew, Healthy, Unhealthy, HostOK, Files
<1>10. CASE StopNew(w)
  BY <1>10, <1>s, Control DEF StopNew, HostOK, files, texts
<1>11. CASE StartOld(w)
  <2>1. ControlOK' /\ Going(w) /\ pc[w] = "r_up" /\ pc'[w] = "failed"
    BY <1>11, UpFailing, Control DEF StartOld, CanCompose
  <2>2. stack' \in Stacks /\ data' \in Keys \cup {None} /\ mount' \in Mounts
    BY <1>11, Upping, UpFailing DEF StartOld, CanCompose, HostOK
  <2> QED
    BY <1>11, <2>1, <2>2 DEF StartOld, HostOK, texts
<1> QED
  BY <1>1, <1>2, <1>3, <1>4, <1>5, <1>6, <1>7, <1>8, <1>9, <1>10, <1>11 DEF UpgradeStep

LEMMA RotateSteps ==
    ASSUME HostOK, ControlOK, KindInv, NEW w \in Workers, RotateStep(w)
    PROVE  Starting(w, RotateJobs) \/ Within(w, RotateLabels)
<1> USE DEF Within, RotateLabels, Labels, Idle, FirstLabels
<1>j. pc[w] \in RotateLabels => job[w].key \in Keys
  BY Arguments DEF KindInv, Agrees, DeployLabels, DestroyLabels, SweepLabels, UpgradeLabels
<1>1. CASE BeginRotate(w)
  BY <1>1 DEF BeginRotate, Starting, Agrees
<1>2. CASE ValidateInstance(w)
  BY <1>2, Control DEF ValidateInstance, HostOK, host, files, texts
<1>3. CASE ReadEnv(w)
  <2>1. CASE env = None /\ Ok(w, "c_read", "failed")
    BY <1>3, <2>1, Control DEF ReadEnv, HostOK, host, files, texts
  <2>2. CASE pc[w] = "c_read" /\ pc' = [pc EXCEPT ![w] = "c_write"]
             /\ held' = [held EXCEPT ![w] = env]
             /\ UNCHANGED <<job, jobs, faults, alone, start>>
    <3>1. ControlOK'
      BY <2>2 DEF ControlOK, HostOK
    <3> QED
      BY <1>3, <2>2, <3>1 DEF ReadEnv, HostOK, host, files, texts, Going, ControlOK
  <2> QED
    BY <1>3, <2>1, <2>2 DEF ReadEnv
<1>4. CASE WriteEnv(w)
  <2>1. ControlOK' /\ Going(w) /\ pc[w] = "c_write" /\ pc'[w] \in {"c_restart", "failed"}
    BY <1>4, Control DEF WriteEnv
  <2>2. Updated(w) \in Envs
    BY <1>j, <2>1 DEF Updated, Envs, Creds
  <2>3. env' \in Envs
    BY <1>4, <2>2 DEF WriteEnv, HostOK, Envs
  <2> QED
    BY <1>4, <2>1, <2>3 DEF WriteEnv, HostOK
<1>5. CASE RestartContainers(w)
  <2>1. ControlOK' /\ Going(w) /\ pc[w] = "c_restart" /\ pc'[w] \in {"c_verify", "failed"}
    BY <1>5, Control DEF RestartContainers
  <2>2. stack' \in Stacks
    BY <1>5 DEF RestartContainers, Restarted, Stopped, HostOK, Stacks
  <2> QED
    BY <1>5, <2>1, <2>2 DEF RestartContainers, HostOK, files, texts
<1>6. CASE VerifyContainers(w)
  BY <1>6, Control DEF VerifyContainers, HostOK, host, files, texts
<1> QED
  BY <1>1, <1>2, <1>3, <1>4, <1>5, <1>6 DEF RotateStep
-----------------------------------------------------------------------------
\* A step of w leaves no other worker running alone, unless it does nothing.
LEMMA OthersNotSolo ==
    ASSUME ControlOK, SoloInv, NEW w \in Workers,
           NEW v \in Workers, v # w,
           Going(w) \/ \E j \in Jobs, l \in Labels \ Idle : Begin(w, j, l)
    PROVE  ~Solo(v)'
<1>1. CASE Going(w)
  BY <1>1 DEF Going, Solo, SoloInv
<1>2. ASSUME NEW j \in Jobs, NEW l \in Labels \ Idle, Begin(w, j, l)
      PROVE  ~Solo(v)'
  <2>1. pc'[v] = pc[v]
    BY <1>2 DEF Begin, ControlOK
  <2>2. alone'[v] => pc[v] \in Idle
    BY <1>2 DEF Begin, ControlOK
  <2> QED
    BY <2>1, <2>2 DEF Solo
<1> QED
  BY <1>1, <1>2

\* Where the job of the next step comes from.
LEMMA Steps ==
    ASSUME HostOK, ControlOK, KindInv, Next
    PROVE  \E w \in Workers :
              \/ Starting(w, Jobs)
              \/ Within(w, DeployLabels) /\ DeployStep(w)
              \/ Within(w, DestroyLabels \cup SweepLabels) /\ DestroyStep(w)
              \/ Within(w, UpgradeLabels) /\ UpgradeStep(w)
              \/ Within(w, RotateLabels) /\ RotateStep(w)
  BY DeploySteps, DestroySteps, UpgradeSteps, RotateSteps DEF Next, Starting, Jobs

ControlInv == HostOK /\ ControlOK /\ KindInv /\ SoloInv

LEMMA ControlStep == ASSUME ControlInv, Next PROVE ControlInv'
<1> USE DEF ControlInv
<1>1. PICK w \in Workers :
              \/ Starting(w, Jobs)
              \/ Within(w, DeployLabels) /\ DeployStep(w)
              \/ Within(w, DestroyLabels \cup SweepLabels) /\ DestroyStep(w)
              \/ Within(w, UpgradeLabels) /\ UpgradeStep(w)
              \/ Within(w, RotateLabels) /\ RotateStep(w)
  BY Steps
<1>2. CASE Starting(w, Jobs)
  <2>1. PICK j \in Jobs, l \in Labels \ Idle : Begin(w, j, l) /\ Agrees(l, j)
    BY <1>2 DEF Starting, FirstLabels, Labels, Idle
  <2>2. HostOK' /\ ControlOK'
    BY <2>1, Beginning
  <2>3. pc' = [pc EXCEPT ![w] = l] /\ job' = [job EXCEPT ![w] = j]
    BY <2>1 DEF Begin
  <2>4. KindInv'
    BY <2>1, <2>3 DEF KindInv, ControlOK
  <2>5. ASSUME NEW v \in Workers, NEW u \in Workers, Solo(v)', u # v
        PROVE  pc'[u] \in Idle
    <3>1. v = w
      BY <2>1, <2>5, OthersNotSolo
    <3> QED
      BY <2>1, <2>5, <3>1 DEF Begin, Solo, ControlOK
  <2>6. SoloInv'
    BY <2>5 DEF SoloInv
  <2> QED
    BY <2>2, <2>4, <2>6
<1>3. ASSUME \/ Within(w, DeployLabels)
             \/ Within(w, DestroyLabels \cup SweepLabels) /\ DestroyStep(w)
             \/ Within(w, UpgradeLabels) \/ Within(w, RotateLabels)
      PROVE  ControlInv'
  <2>1. HostOK' /\ ControlOK' /\ Going(w)
    BY <1>3 DEF Within
  <2>2. Agrees(pc'[w], job'[w])
    <3>1. CASE Within(w, DeployLabels)
      BY <3>1 DEF Within, Going, KindInv, Agrees, Idle, DeployLabels, DestroyLabels,
                  SweepLabels, UpgradeLabels, RotateLabels
    <3>2. CASE Within(w, DestroyLabels \cup SweepLabels) /\ DestroyStep(w)
      <4>1. /\ pc'[w] \in SweepLabels => job[w] = ResetJob
            /\ pc'[w] \in DestroyLabels => pc[w] \in DestroyLabels
        BY <3>2, SweepTurns
      <4>2. pc[w] \in DestroyLabels => job[w] \in DestroyJobs \cup {ResetJob}
        BY DEF KindInv, Agrees, Idle, DeployLabels, DestroyLabels,
               SweepLabels, UpgradeLabels, RotateLabels
      <4> QED
        BY <3>2, <4>1, <4>2 DEF Within, Going, Agrees
    <3>3. CASE Within(w, UpgradeLabels)
      BY <3>3 DEF Within, Going, KindInv, Agrees, Idle, DeployLabels, DestroyLabels,
                  SweepLabels, UpgradeLabels, RotateLabels
    <3>4. CASE Within(w, RotateLabels)
      BY <3>4 DEF Within, Going, KindInv, Agrees, Idle, DeployLabels, DestroyLabels,
                  SweepLabels, UpgradeLabels, RotateLabels
    <3> QED
      BY <1>3, <3>1, <3>2, <3>3, <3>4
  <2>3. KindInv'
    BY <2>1, <2>2 DEF KindInv, Going
  <2>4. SoloInv'
    <3> SUFFICES ASSUME NEW v \in Workers, NEW u \in Workers, Solo(v)', u # v
                 PROVE  pc'[u] \in Idle
      BY DEF SoloInv
    <3>1. v = w
      BY <2>1, OthersNotSolo
    <3> QED
      BY <2>1, <3>1 DEF SoloInv, Solo, Going
  <2> QED
    BY <2>1, <2>3, <2>4
<1> QED
  BY <1>1, <1>2, <1>3
-----------------------------------------------------------------------------
\* What a lone deployment has achieved grows with each of its steps.
LEMMA DeployKeeps ==
    ASSUME ControlInv, NEW w \in Workers, DeployInv(w), DeployStep(w),
           Within(w, DeployLabels), pc'[w] \notin Idle
    PROVE  DeployInv(w)'
<1> USE DEF ControlInv, Labels, Idle, DeployLabels
<1>1. /\ pc[w] \notin Idle /\ job'[w] = job[w] /\ Rendered(w)' = Rendered(w)
      /\ faults'[w] = 0 => faults[w] = 0
  BY DEF Within, Going, Rendered
<1>2. job[w].ver \in Versions /\ job[w].key \in Keys
  BY Arguments DEF Within, KindInv, Agrees, DestroyLabels, SweepLabels, UpgradeLabels,
                   RotateLabels
<1>3. Rendered(w) \in Creds /\ Rendered(w)["pg"] = job[w].key /\ job[w].key # None
  BY <1>2, HostAssumption DEF Rendered, Creds, Parts
<1>4. CASE BeginDeploy(w)
  BY <1>1, <1>4 DEF BeginDeploy, Begin
<1>5. CASE MakeDirectories(w)
  <2>1. pc'[w] = "d_write"
    BY <1>5, Control DEF MakeDirectories
  <2> QED
    BY <2>1 DEF DeployInv
<1>6. CASE WriteConfig(w)
  <2>1. /\ pc[w] = "d_write" /\ pc'[w] = "d_down"
        /\ Written(w) /\ mount' = MountsWritten(w)
    BY <1>6, Control DEF WriteConfig
  <2>2. mount'[job[w].ver] = "file"
    BY <1>2, <2>1 DEF MountsWritten, HostOK, Mounts
  <2> QED
    BY <1>1, <2>1, <2>2 DEF Written, DeployInv
<1>b. \A l \in Labels \ Idle, l2 \in Labels : Bad(w, l, l2) => faults'[w] # 0
  BY HostAssumption DEF Bad, ControlOK
<1>7. CASE TearDown(w)
  <2>1. pc[w] = "d_down" /\ pc'[w] = "d_wipe"
    BY <1>7, Control DEF TearDown
  <2>2. dir /\ yml = job[w].ver /\ env = Rendered(w) /\ CanCompose
    BY <1>2, <2>1 DEF DeployInv, CanCompose
  <2>3. faults'[w] = 0 => stack' = NoStack
    BY <1>7, <1>b, <2>2 DEF TearDown
  <2> QED
    BY <1>1, <1>7, <2>1, <2>2, <2>3 DEF TearDown, DeployInv, files, texts
<1>8. CASE WipeDatabase(w)
  <2>1. pc[w] = "d_wipe" /\ pc'[w] = "d_pull"
    BY <1>8, Control DEF WipeDatabase
  <2>2. faults'[w] = 0 => data' = None
    BY <1>8, <1>b DEF WipeDatabase
  <2> QED
    BY <1>1, <1>8, <2>1, <2>2 DEF WipeDatabase, DeployInv, files, texts
<1>9. CASE Pull(w)
  BY <1>1, <1>9, Control DEF Pull, DeployInv, host, files, texts
<1>10. CASE StartPostgres(w)
  <2>0. pc[w] = "d_pg" /\ pc'[w] = "d_up" /\ UpPostgres /\ UNCHANGED texts /\ CanCompose
    BY <1>10, UpFailing, Control DEF StartPostgres, CanCompose
  <2>1. pc[w] = "d_pg" /\ pc'[w] = "d_up" /\ UpPostgres /\ UNCHANGED files
    BY <2>0, Upping DEF DeployInv, CanCompose, files, texts
  <2>2. NoStack # Created("some")
    BY DEF NoStack, Created
  <2>3. faults'[w] = 0 => data' = job[w].key
    BY <1>1, <1>3, <2>1, <2>2 DEF DeployInv, UpPostgres, Initialise, NoStack, Created
  <2> QED
    BY <1>1, <2>1, <2>3 DEF DeployInv, files, texts
<1>11. CASE StartAll(w, "d_up", "d_roles")
  <2>0. pc[w] = "d_up" /\ pc'[w] = "d_roles" /\ Up /\ UNCHANGED texts /\ CanCompose
    BY <1>11, UpFailing, Control DEF StartAll, CanCompose
  <2>1. /\ pc[w] = "d_up" /\ pc'[w] = "d_roles" /\ Up /\ UNCHANGED files
        /\ stack' = Created("all")
    BY <2>0, Upping DEF DeployInv, CanCompose, files, texts, Up
  <2>2. faults'[w] = 0 => data' = job[w].key
    BY <1>1, <1>3, <2>1 DEF DeployInv, Up, Initialise
  <2> QED
    BY <1>1, <2>1, <2>2 DEF DeployInv, files, texts, Up, Created
<1>12. CASE SetRoles(w)
  BY <1>1, <1>12, Control DEF SetRoles, DeployInv, host, files, texts, Created
<1>13. CASE StartAll(w, "d_again", "d_wait")
  <2>0. pc[w] = "d_again" /\ pc'[w] = "d_wait" /\ Up /\ UNCHANGED texts /\ CanCompose
    BY <1>13, UpFailing, Control DEF StartAll, CanCompose
  <2>1. /\ pc[w] = "d_again" /\ pc'[w] = "d_wait" /\ Up /\ UNCHANGED files
        /\ stack' = Created("all")
    BY <2>0, Upping DEF DeployInv, CanCompose, files, texts, Up
  <2>2. data' = job[w].key
    BY <1>3, <2>1 DEF DeployInv, Up, Initialise
  <2> QED
    BY <1>1, <2>1, <2>2 DEF DeployInv, files, texts, Up, Created
<1>14. CASE InstallDocker(w) \/ InstallNginx(w) \/ AwaitContainers(w) \/ AwaitHealthy(w)
  BY <1>1, <1>14, Control DEF InstallDocker, InstallNginx, AwaitContainers, AwaitHealthy,
                              Healthy, Unhealthy, DeployInv, host, files, texts, Created
<1>15. CASE ConfigureSite(w)
  <2>1. Ok(w, "d_site", "ok") \/ Bad(w, "d_site", "failed")
    BY <1>15 DEF ConfigureSite
  <2> QED
    BY <1>1, <2>1, Control
<1> QED
  BY <1>4, <1>5, <1>6, <1>7, <1>8, <1>9, <1>10, <1>11, <1>12, <1>13, <1>14, <1>15
     DEF DeployStep

\* ... as does what a lone destroy or reset has taken away.
LEMMA DestroyKeeps ==
    ASSUME ControlInv, NEW w \in Workers, DestroyInv(w), DestroyStep(w),
           Within(w, DestroyLabels \cup SweepLabels), pc'[w] \notin Idle
    PROVE  DestroyInv(w)'
<1> USE DEF ControlInv, Labels, Idle, DestroyLabels, SweepLabels
<1>1. pc[w] \notin Idle /\ start'[w] = start[w]
  BY DEF Within, Going
<1>2. Failed(w) \in {"zf_prune", "failed"}
  BY DEF Failed
<1>3. CASE BeginDestroy(w) \/ BeginReset(w)
  BY <1>1, <1>3 DEF BeginDestroy, BeginReset, Begin
<1>4. CASE StopContainers(w)
  BY <1>1, <1>2, <1>4, Control DEF StopContainers, DestroyInv, files, texts
<1>5. CASE RemoveVolumes(w)
  BY <1>1, <1>2, <1>5, Control DEF RemoveVolumes, DestroyInv, files, texts
<1>6. CASE RemoveSite(w)
  <2>1. Ok(w, "x_site", "x_dir") \/ Bad(w, "x_site", Failed(w))
    BY <1>6 DEF RemoveSite
  <2>2. pc[w] = "x_site" /\ pc'[w] \in {"x_dir", "zf_prune", "failed"}
    BY <1>2, <2>1, Control
  <2>3. CASE pc'[w] = "x_dir"
    <3>1. site' = FALSE
      BY <1>2, <1>6, <2>3, Control DEF RemoveSite, SiteRemoved
    <3> QED
      BY <1>1, <1>6, <2>2, <2>3, <3>1 DEF RemoveSite, DestroyInv, files, texts
  <2> QED
    BY <2>2, <2>3 DEF DestroyInv
<1>7. CASE RemoveDirectory(w)
  BY <1>1, <1>2, <1>7, Control DEF RemoveDirectory, DestroyInv
<1>8. CASE CleanupOrphans(w)
  BY <1>1, <1>8, Control DEF CleanupOrphans, DestroyInv, host, files, texts
<1>9. CASE ClosePort(w)
  BY <1>1, <1>9, Control DEF ClosePort, DestroyInv, files, texts
<1>10. CASE PruneDocker(w)
  BY <1>1, <1>10, Control DEF PruneDocker, DestroyInv, host, files, texts
<1>11. CASE ResetUfw(w)
  <2>1. \/ Ok(w, "z_ufw", "ok") \/ Ok(w, "zf_ufw", "failed")
        \/ Bad(w, "z_ufw", "failed") \/ Bad(w, "zf_ufw", "failed")
    BY <1>11 DEF ResetUfw
  <2> QED
    BY <2>1, Control
<1> QED
  BY <1>3, <1>4, <1>5, <1>6, <1>7, <1>8, <1>9, <1>10, <1>11 DEF DestroyStep

LEMMA LoneStep == ASSUME ControlInv, LoneInv, Next PROVE LoneInv'
<1> USE DEF ControlInv
<1>1. PICK w \in Workers :
              \/ Starting(w, Jobs)
              \/ Within(w, DeployLabels) /\ DeployStep(w)
              \/ Within(w, DestroyLabels \cup SweepLabels) /\ DestroyStep(w)
              \/ Within(w, UpgradeLabels) /\ UpgradeStep(w)
              \/ Within(w, RotateLabels) /\ RotateStep(w)
  BY Steps
<1> SUFFICES ASSUME NEW v \in Workers, Solo(v)'
             PROVE  DeployInv(v)' /\ DestroyInv(v)'
  BY DEF LoneInv
<1>2. v = w
  BY <1>1, OthersNotSolo DEF Starting, FirstLabels, Labels, Idle, Within
<1>3. CASE Starting(w, Jobs)
  <2>1. PICK j \in Jobs, l \in FirstLabels : Begin(w, j, l) /\ (l = "z_prune" => ~dir)
    BY <1>3 DEF Starting
  <2>2. /\ pc'[w] = l
        /\ start'[w].dir = dir /\ start'[w].yml = yml /\ dir' = dir /\ yml' = yml
    BY <2>1 DEF Begin, ControlOK, host, files, texts
  <2> QED
    BY <1>2, <2>1, <2>2 DEF FirstLabels, DeployInv, DestroyInv, DeployLabels
<1>4. Solo(w) \/ Starting(w, Jobs)
  BY <1>1, <1>2 DEF Within, Going, Solo
<1>5. CASE Solo(w) /\ Within(w, DeployLabels) /\ DeployStep(w)
  <2>1. DeployInv(w)'
    BY <1>2, <1>5, DeployKeeps DEF LoneInv, Solo
  <2>2. pc'[w] \in DeployLabels
    BY <1>2, <1>5 DEF Within, Solo
  <2> QED
    BY <1>2, <2>1, <2>2 DEF DestroyInv, DeployLabels
<1>6. CASE Solo(w) /\ Within(w, DestroyLabels \cup SweepLabels) /\ DestroyStep(w)
  <2>1. DestroyInv(w)'
    BY <1>2, <1>6, DestroyKeeps DEF LoneInv, Solo
  <2>2. pc'[w] \in DestroyLabels \cup SweepLabels
    BY <1>2, <1>6 DEF Within, Solo
  <2> QED
    BY <1>2, <2>1, <2>2 DEF DeployInv, DeployLabels, DestroyLabels, SweepLabels
<1>7. CASE Within(w, UpgradeLabels) \/ Within(w, RotateLabels)
  <2>1. pc'[w] \in UpgradeLabels \cup RotateLabels
    BY <1>2, <1>7 DEF Within, Solo
  <2> QED
    BY <1>2, <2>1 DEF DeployInv, DestroyInv, DeployLabels, UpgradeLabels, RotateLabels
<1> QED
  BY <1>1, <1>3, <1>4, <1>5, <1>6, <1>7

\* A step changes nothing when no variable changes.
LEMMA Stutter == ASSUME ControlInv, LoneInv, UNCHANGED vars PROVE ControlInv' /\ LoneInv'
<1> USE DEF vars, host, files, texts
<1>1. HostOK'
  BY DEF ControlInv, HostOK
<1>2. ControlOK' /\ KindInv' /\ SoloInv'
  BY DEF ControlInv, ControlOK, KindInv, SoloInv, Solo
<1>3. \A w \in Workers : Solo(w)' = Solo(w) /\ DeployInv(w)' = DeployInv(w)
                        /\ DestroyInv(w)' = DestroyInv(w)
  BY DEF Solo, DeployInv, DestroyInv, Rendered, Created
<1> QED
  BY <1>1, <1>2, <1>3 DEF ControlInv, LoneInv

LEMMA Initially == ASSUME Init PROVE ControlInv /\ LoneInv
<1>1. HostOK
  <2>1. CASE Fresh
    BY <2>1 DEF Init, Fresh, HostOK, Files, Envs, NoStack, Stacks, NoMounts, Mounts
  <2>2. ASSUME NEW v \in Versions, NEW k \in Keys, Deployed(v, k) PROVE HostOK
    <3>1. env \in Creds
      BY <2>2 DEF Deployed, Creds
    <3> QED
      BY <2>2, <3>1 DEF Init, Deployed, HostOK, Files, Envs, Stacks, Mounts
  <2> QED
    BY <2>1, <2>2 DEF Init
<1>2. ControlOK
  BY HostAssumption DEF Init, ControlOK, Labels, Idle, Jobs, Envs, Files, Starts, NoStart
<1>3. \A w \in Workers : pc[w] \in Idle
  BY DEF Init, Idle
<1> QED
  BY <1>1, <1>2, <1>3 DEF ControlInv, KindInv, Agrees, SoloInv, LoneInv, Solo

LEMMA Invariance == Spec => [](ControlInv /\ LoneInv)
<1>1. Init => ControlInv /\ LoneInv
  BY Initially
<1>2. ControlInv /\ LoneInv /\ [Next]_vars => (ControlInv /\ LoneInv)'
  BY ControlStep, LoneStep, Stutter
<1> QED
  BY <1>1, <1>2, PTL DEF Spec

\* Every variable of the instance and of its jobs keeps its type, for any number
\* of workers, versions, credentials, operations and failing commands.
THEOREM InstanceTypes == Spec => []TypeOK
<1>1. ControlInv => TypeOK
  BY DEF ControlInv, HostOK, ControlOK, TypeOK, Starts, Stacks, Mounts
<1> QED
  BY <1>1, Invariance, PTL
-----------------------------------------------------------------------------
\* The worker that goes on is the one whose step it is.
LEMMA WhoMoves ==
    ASSUME ControlInv, Next, NEW v \in Workers, pc[v] \notin Idle, pc'[v] # pc[v]
    PROVE  /\ job[v].kind = "deploy" => DeployStep(v) /\ Within(v, DeployLabels)
           /\ job[v].kind \in {"destroy", "reset"} =>
                  DestroyStep(v) /\ Within(v, DestroyLabels \cup SweepLabels)
           /\ job[v].kind = "upgrade" => UpgradeStep(v) /\ Within(v, UpgradeLabels)
           /\ job[v].kind = "rotate" => RotateStep(v) /\ Within(v, RotateLabels)
<1> USE DEF ControlInv
<1>1. PICK w \in Workers :
              \/ Starting(w, Jobs)
              \/ Within(w, DeployLabels) /\ DeployStep(w)
              \/ Within(w, DestroyLabels \cup SweepLabels) /\ DestroyStep(w)
              \/ Within(w, UpgradeLabels) /\ UpgradeStep(w)
              \/ Within(w, RotateLabels) /\ RotateStep(w)
  BY Steps
<1>2. ~Starting(w, Jobs)
  BY DEF Starting, Begin, ControlOK
<1>3. w = v
  BY <1>1, <1>2 DEF Within, Going
<1>4. /\ pc[v] \in DeployLabels => job[v].kind = "deploy"
      /\ pc[v] \in DestroyLabels \cup SweepLabels => job[v].kind \in {"destroy", "reset"}
      /\ pc[v] \in UpgradeLabels => job[v].kind = "upgrade"
      /\ pc[v] \in RotateLabels => job[v].kind = "rotate"
  BY Arguments DEF KindInv, Agrees, Idle, DeployLabels, DestroyLabels, SweepLabels,
                   UpgradeLabels, RotateLabels
<1> QED
  BY <1>1, <1>2, <1>3, <1>4 DEF Within

LEMMA DeployEnds ==
    ASSUME ControlInv, LoneInv, NEW w \in Workers, Solo(w), DeployStep(w),
           Within(w, DeployLabels), pc'[w] \in Idle
    PROVE  /\ pc'[w] = "ok" =>
                  /\ Serving' /\ site' /\ yml' = job[w].ver /\ stack'.ver = yml'
                  /\ stack'.cred = env' /\ env' = Rendered(w)
           /\ pc'[w] = "failed" => faults'[w] > 0 \/ mount[job[w].ver] = "dir"
<1> USE DEF ControlInv, Labels, Idle, DeployLabels
<1>1. pc[w] \notin Idle /\ (faults'[w] = 0 => faults[w] = 0) /\ faults'[w] \in Nat
  BY HostAssumption DEF Within, Going, ControlOK
<1>2. job[w].ver \in Versions /\ job[w].key \in Keys
  BY Arguments DEF Within, KindInv, Agrees, DestroyLabels, SweepLabels, UpgradeLabels,
                   RotateLabels
<1>3. Rendered(w) \in Creds /\ Rendered(w)["pg"] = job[w].key /\ job[w].key # None
  BY <1>2, HostAssumption DEF Rendered, Creds, Parts
<1>4. DeployInv(w)
  BY DEF LoneInv
<1>b. \A l \in Labels \ Idle, l2 \in Labels : Bad(w, l, l2) => faults'[w] > 0
  BY HostAssumption DEF Bad, ControlOK
<1>5. CASE BeginDeploy(w)
  BY <1>1, <1>5 DEF BeginDeploy, Begin
<1>6. CASE MakeDirectories(w)
  <2>1. Ok(w, "d_dir", "d_write") \/ Bad(w, "d_dir", "failed")
    BY <1>6 DEF MakeDirectories
  <2> QED
    BY <1>b, <2>1, Control
<1>7. CASE WriteConfig(w)
  <2>1. \/ Ok(w, "d_write", "d_down") \/ Bad(w, "d_write", "failed")
        \/ Ok(w, "d_write", "failed") /\ MountBlocked(w)
    BY <1>7 DEF WriteConfig
  <2> QED
    BY <1>b, <2>1, Control DEF MountBlocked
<1>8. CASE TearDown(w) \/ WipeDatabase(w)
  BY <1>8, Control DEF TearDown, WipeDatabase
<1>9. CASE Pull(w)
  BY <1>2, <1>4, <1>b, <1>9, Control DEF Pull, DeployInv, CanCompose
<1>10. CASE StartPostgres(w)
  <2>1. CASE UpFails(w, "d_pg", "failed")
    <3>1. pc[w] = "d_pg" /\ pc'[w] = "failed"
      BY <1>10, <2>1, UpFailing, Control DEF StartPostgres, CanCompose, UpFails
    <3>2. yml \in Versions /\ mount[yml] = "file"
      BY <1>2, <1>4, <3>1 DEF DeployInv
    <3>3. Bad(w, "d_pg", "failed")
      BY <2>1, <3>2, UpFailing
    <3> QED
      BY <1>b, <3>1, <3>3
  <2>2. ASSUME UpPostgres, Ok(w, "d_pg", IF data' # None THEN "d_up" ELSE "failed")
        PROVE  faults'[w] > 0
    <3>1. pc[w] = "d_pg" /\ data' = None /\ pc'[w] = "failed"
      BY <2>2, Control
    <3>2. NoStack # Created("some")
      BY DEF NoStack, Created
    <3>3. faults[w] # 0
      BY <1>3, <1>4, <2>2, <3>1, <3>2 DEF DeployInv, UpPostgres, Initialise, NoStack, Created
    <3> QED
      BY <1>1, <3>3
  <2>0. pc[w] = "d_pg"
    BY <1>10, Control DEF StartPostgres, UpFails
  <2>3. CanCompose
    BY <1>2, <1>4, <2>0 DEF DeployInv, CanCompose
  <2> QED
    BY <1>10, <2>1, <2>2, <2>3, Control DEF StartPostgres
<1>11. ASSUME NEW l \in {"d_up", "d_again"}, NEW l2 \in {"d_roles", "d_wait"},
              StartAll(w, l, l2)
       PROVE  pc'[w] = "failed" /\ faults'[w] > 0
  <2>1. pc[w] = l
    BY <1>11, Control DEF StartAll, UpFails
  <2>2. CanCompose /\ yml \in Versions /\ mount[yml] = "file"
    BY <1>2, <1>4, <2>1 DEF DeployInv, CanCompose
  <2>3. Ok(w, l, l2) \/ Bad(w, l, "failed")
    BY <1>11, <2>2, UpFailing DEF StartAll
  <2> QED
    BY <1>b, <2>3, Control
<1>12. CASE SetRoles(w)
  BY <1>1, <1>2, <1>4, <1>b, <1>12, Control
     DEF SetRoles, AllRunning, DeployInv, CanCompose, Created
<1>13. CASE InstallDocker(w) \/ InstallNginx(w) \/ AwaitContainers(w) \/ AwaitHealthy(w)
  BY <1>3, <1>4, <1>b, <1>13, Control
     DEF InstallDocker, InstallNginx, AwaitContainers, AwaitHealthy, Healthy, Unhealthy,
         AllRunning, DeployInv, Created, Serving
<1>14. CASE ConfigureSite(w)
  <2>1. CASE Bad(w, "d_site", "failed")
    BY <1>b, <2>1, Control
  <2>2. CASE Ok(w, "d_site", "ok") /\ site' = TRUE
    <3>1. pc[w] = "d_site" /\ pc'[w] = "ok"
      BY <2>2, Control
    <3> QED
      BY <1>3, <1>4, <1>14, <2>2, <3>1
         DEF ConfigureSite, DeployInv, Created, Serving, files, texts
  <2> QED
    BY <1>14, <2>1, <2>2 DEF ConfigureSite, SiteCreated
<1> QED
  BY <1>5, <1>6, <1>7, <1>8, <1>9, <1>10, <1>11, <1>12, <1>13, <1>14 DEF DeployStep

\* A deployment that nothing interleaved with and that reports success leaves the
\* instance running from its files with services that can log in to the database.
THEOREM DeployServes == Spec => DeploySuccessServes
<1>1. ASSUME ControlInv, LoneInv, Next, NEW w \in Workers, Ends(w, "deploy", "ok")
      PROVE  /\ Serving' /\ site' /\ yml' = job[w].ver /\ stack'.ver = yml'
             /\ stack'.cred = env' /\ env' = Rendered(w)
  BY <1>1, WhoMoves, DeployEnds DEF Ends, Solo, Idle
<1>2. ControlInv /\ LoneInv /\ [Next]_vars =>
          [\A w \in Workers : Ends(w, "deploy", "ok") =>
             /\ Serving' /\ site' /\ yml' = job[w].ver /\ stack'.ver = yml'
             /\ stack'.cred = env' /\ env' = Rendered(w)]_vars
  BY <1>1
<1> QED
  BY <1>2, Invariance, PTL DEF Spec, DeploySuccessServes

\* No leftover but a directory in place of a mounted file makes a deployment fail
\* that nothing interleaved with and none of whose commands failed.
THEOREM RedeployWorks == Spec => RedeployAlwaysWorks
<1>1. ASSUME ControlInv, LoneInv, Next, NEW w \in Workers, Ends(w, "deploy", "failed")
      PROVE  faults'[w] > 0 \/ mount[job[w].ver] = "dir"
  BY <1>1, WhoMoves, DeployEnds DEF Ends, Solo, Idle
<1>2. ControlInv /\ LoneInv /\ [Next]_vars =>
          [\A w \in Workers : Ends(w, "deploy", "failed") =>
              faults'[w] > 0 \/ mount[job[w].ver] = "dir"]_vars
  BY <1>1
<1> QED
  BY <1>2, Invariance, PTL DEF Spec, RedeployAlwaysWorks

LEMMA DestroyEnds ==
    ASSUME ControlInv, LoneInv, NEW w \in Workers, DestroyStep(w),
           Within(w, DestroyLabels \cup SweepLabels), pc'[w] \in Idle
    PROVE  /\ alone[w] /\ pc'[w] = "ok" /\ start[w].dir =>
                  Gone /\ (job[w].kind = "reset" \/ job[w].port => ~port')
           /\ alone[w] /\ pc'[w] = "failed" /\ faults'[w] = 0 /\ job[w].kind = "destroy" =>
                  start[w].dir /\ start[w].yml \notin Versions
<1> USE DEF ControlInv, Labels, Idle, DestroyLabels, SweepLabels
<1>1. pc[w] \notin Idle /\ (alone[w] => DestroyInv(w))
  BY DEF Within, LoneInv, Solo
<1>2. /\ job[w].kind = "destroy" => Failed(w) = "failed"
      /\ job[w].kind = "reset" => Failed(w) = "zf_prune"
      /\ Failed(w) \in {"zf_prune", "failed"}
  BY DEF Failed
<1>3. /\ job[w].kind \in {"destroy", "reset"}
      /\ pc[w] \in SweepLabels => job[w].kind = "reset"
      /\ job[w].kind = "reset" => job[w].port = FALSE
  <2>1. /\ job[w] \in DestroyJobs \cup {ResetJob}
        /\ pc[w] \in SweepLabels => job[w] = ResetJob
    BY DEF Within, KindInv, Agrees, DeployLabels, UpgradeLabels, RotateLabels
  <2> QED
    BY <2>1, Arguments
<1>b. \A l \in Labels \ Idle, l2 \in Labels : Bad(w, l, l2) => faults'[w] # 0
  BY HostAssumption DEF Bad, ControlOK
<1>4. CASE BeginDestroy(w) \/ BeginReset(w)
  BY <1>1, <1>4 DEF BeginDestroy, BeginReset, Begin
<1>5. CASE StopContainers(w)
  BY <1>1, <1>2, <1>3, <1>b, <1>5, HostAssumption, Control
     DEF StopContainers, DestroyInv
<1>6. CASE RemoveVolumes(w)
  BY <1>1, <1>2, <1>3, <1>b, <1>6, Control DEF RemoveVolumes, DestroyInv, CanCompose
<1>7. CASE RemoveSite(w)
  <2>1. Ok(w, "x_site", "x_dir") \/ Bad(w, "x_site", Failed(w))
    BY <1>7 DEF RemoveSite
  <2> QED
    BY <1>2, <1>3, <1>b, <2>1, Control
<1>8. CASE RemoveDirectory(w)
  <2>1. Ok(w, "x_dir", "x_orphans") \/ Bad(w, "x_dir", Failed(w))
    BY <1>8 DEF RemoveDirectory
  <2> QED
    BY <1>2, <1>3, <1>b, <2>1, Control
<1>9. CASE CleanupOrphans(w)
  BY <1>9, Control DEF CleanupOrphans
<1>10. CASE ClosePort(w)
  <2>1. \/ job[w].kind = "destroy" /\ Ok(w, "x_port", "ok") /\ port' = (port /\ ~job[w].port)
        \/ job[w].kind = "reset" /\ Ok(w, "x_port", "z_prune")
        \/ job[w].port /\ Bad(w, "x_port", "failed")
    BY <1>10 DEF ClosePort
  <2>2. UNCHANGED <<dir, stack, data, site>>
    BY <1>10 DEF ClosePort, files, texts
  <2>3. CASE job[w].kind = "reset" /\ Ok(w, "x_port", "z_prune")
    BY <2>3, Control
  <2>4. CASE job[w].port /\ Bad(w, "x_port", "failed")
    BY <1>3, <1>b, <2>4, Control
  <2>5. CASE job[w].kind = "destroy" /\ Ok(w, "x_port", "ok")
             /\ port' = (port /\ ~job[w].port)
    <3>1. pc[w] = "x_port" /\ pc'[w] = "ok"
      BY <2>5, Control
    <3>2. job[w].port => ~port'
      BY <2>5
    <3>3. alone[w] /\ start[w].dir => Gone
      BY <1>1, <2>2, <3>1 DEF DestroyInv, Gone
    <3> QED
      BY <2>5, <3>1, <3>2, <3>3
  <2> QED
    BY <2>1, <2>3, <2>4, <2>5
<1>11. CASE PruneDocker(w)
  BY <1>11, Control DEF PruneDocker
<1>12. CASE ResetUfw(w)
  <2>1. CASE port' = FALSE /\ (Ok(w, "z_ufw", "ok") \/ Ok(w, "zf_ufw", "failed"))
    <3>1. pc[w] \in {"z_ufw", "zf_ufw"} /\ (pc'[w] = "ok" => pc[w] = "z_ufw")
      BY <2>1, Control
    <3>2. job[w].kind = "reset"
      BY <1>3, <3>1
    <3>3. UNCHANGED <<dir, stack, data, site>>
      BY <1>12 DEF ResetUfw, files, texts
    <3>4. alone[w] /\ pc'[w] = "ok" /\ start[w].dir => Gone
      BY <1>1, <3>1, <3>3 DEF DestroyInv, Gone
    <3> QED
      BY <2>1, <3>1, <3>2, <3>4
  <2>2. CASE Bad(w, "z_ufw", "failed") \/ Bad(w, "zf_ufw", "failed")
    BY <1>3, <1>b, <2>2, Control
  <2> QED
    BY <1>12, <2>1, <2>2 DEF ResetUfw
<1> QED
  BY <1>4, <1>5, <1>6, <1>7, <1>8, <1>9, <1>10, <1>11, <1>12 DEF DestroyStep

\* A destroy or reset that nothing interleaved with, of an instance with a
\* directory, and that reports success has left nothing of it.
THEOREM NothingLeft == Spec => RemovalLeavesNothing
<1>1. ASSUME ControlInv, LoneInv, Next, NEW w \in Workers,
             Ends(w, "destroy", "ok") \/ Ends(w, "reset", "ok"), start[w].dir
      PROVE  Gone /\ (job[w].kind = "reset" \/ job[w].port => ~port')
  BY <1>1, WhoMoves, DestroyEnds DEF Ends, Idle
<1>2. ControlInv /\ LoneInv /\ [Next]_vars =>
          [\A w \in Workers :
             (Ends(w, "destroy", "ok") \/ Ends(w, "reset", "ok")) /\ start[w].dir =>
                 Gone /\ (job[w].kind = "reset" \/ job[w].port => ~port')]_vars
  BY <1>1
<1> QED
  BY <1>2, Invariance, PTL DEF Spec, RemovalLeavesNothing

\* A destroy that nothing interleaved with and none of whose commands failed fails
\* only on a directory without a docker-compose.yml that can be read.
THEOREM DestroyIdempotent == Spec => DestroyIsIdempotent
<1>1. ASSUME ControlInv, LoneInv, Next, NEW w \in Workers,
             Ends(w, "destroy", "failed"), faults'[w] = 0
      PROVE  start[w].dir /\ start[w].yml \notin Versions
  BY <1>1, WhoMoves, DestroyEnds DEF Ends, Idle
<1>2. ControlInv /\ LoneInv /\ [Next]_vars =>
          [\A w \in Workers : Ends(w, "destroy", "failed") /\ faults'[w] = 0 =>
              start[w].dir /\ start[w].yml \notin Versions]_vars
  BY <1>1
<1> QED
  BY <1>2, Invariance, PTL DEF Spec, DestroyIsIdempotent
-----------------------------------------------------------------------------
\* What a lone upgrade, of a running instance whose database password it does not
\* change, finds at each of its steps ...
SamePassword(w) == start[w].whole /\ job[w].key \in {None, start[w].env["pg"]}

OldStack(w) == [st |-> "all", ver |-> start[w].yml, cred |-> start[w].env]

UpgradeInv(w) ==
    pc[w] \in UpgradeLabels /\ SamePassword(w) =>
        /\ dir /\ start[w].yml \in Versions /\ start[w].env \in Creds
        /\ data = start[w].env["pg"]
        /\ pc[w] \in {"u_check", "u_bak", "u_write", "u_env", "u_undo"} =>
               stack = OldStack(w)
        /\ pc[w] \in {"u_check", "u_bak", "u_write"} => yml = start[w].yml
        /\ pc[w] \notin {"u_check", "u_bak"} => bak = start[w].yml
        /\ pc[w] \in {"u_env", "u_stop", "u_up", "u_health", "r_stop"} =>
               yml = job[w].ver
        /\ pc[w] # "u_undo" => env \in Creds /\ env["pg"] = start[w].env["pg"]
        /\ pc[w] = "u_health" =>
               stack = Created("all") \/ (stack = Created("some") /\ mount[yml] = "dir")
        /\ pc[w] = "r_up" => yml = start[w].yml
        /\ mount[start[w].yml] = "file"
        /\ pc[w] = "u_undo" => faults[w] > 0
        /\ pc[w] \in {"r_stop", "r_copy", "r_up"} =>
               faults[w] > 0 \/ mount[job[w].ver] = "dir"

\* ... and a lone rotation.
RotateInv(w) ==
    pc[w] \in RotateLabels =>
        /\ start[w].whole => dir /\ yml \in Versions /\ Serving
        /\ pc[w] \in {"c_check", "c_read", "c_write"} => env = start[w].env
        /\ pc[w] = "c_write" => held[w] = start[w].env
        /\ pc[w] \in {"c_restart", "c_verify"} /\ start[w].env \in Creds =>
               env = [start[w].env EXCEPT ![job[w].part] = job[w].key]

RunningInv == \A w \in Workers : Solo(w) => UpgradeInv(w) /\ RotateInv(w)

\* The first step of a rotation or an upgrade.
LEMMA RunningStarts ==
    ASSUME ControlInv, NEW w \in Workers, NEW j \in Jobs, NEW l \in FirstLabels,
           Begin(w, j, l)
    PROVE  UpgradeInv(w)' /\ RotateInv(w)'
<1> USE DEF ControlInv
<1>1. /\ pc'[w] = l /\ job'[w] = j
      /\ start'[w] = [yml |-> yml, env |-> env, dir |-> dir,
                      whole |-> /\ dir /\ yml \in Versions /\ mount[yml] = "file"
                                /\ stack = Created("all") /\ Serving]
      /\ UNCHANGED <<dir, yml, bak, env, mount, stack, data>>
  BY DEF Begin, ControlOK, host, files, texts
<1>2. start'[w].whole =>
          /\ dir /\ yml \in Versions /\ mount[yml] = "file"
          /\ stack = Created("all") /\ Serving
  BY <1>1
<1>3. start'[w].yml = yml /\ start'[w].env = env
  BY <1>1
<1>4. start'[w].whole => /\ env \in Creds /\ data = env["pg"]
                         /\ stack = [st |-> "all", ver |-> yml, cred |-> env]
  BY <1>2 DEF Created, Serving
<1>5. UpgradeInv(w)'
  <2>1. CASE l = "u_check"
    <3> SUFFICES ASSUME start'[w].whole PROVE UpgradeInv(w)'
      BY <1>1, <2>1 DEF UpgradeInv, SamePassword
    <3>1. OldStack(w)' = [st |-> "all", ver |-> yml, cred |-> env]
      BY <1>3 DEF OldStack
    <3>2. /\ dir' /\ yml' = yml /\ yml \in Versions /\ env' = env /\ env \in Creds
          /\ data' = env["pg"] /\ stack' = OldStack(w)'
          /\ mount'[start'[w].yml] = "file"
      BY <1>1, <1>2, <1>3, <1>4, <3>1
    <3> QED
      BY <1>1, <1>3, <2>1, <3>2 DEF UpgradeInv
  <2>2. CASE l # "u_check"
    BY <1>1, <2>2 DEF UpgradeInv, FirstLabels, UpgradeLabels
  <2> QED
    BY <2>1, <2>2
<1>6. RotateInv(w)'
  <2>1. Serving' = Serving
    BY <1>1 DEF Serving
  <2> QED
    BY <1>1, <1>2, <1>3, <1>4, <2>1 DEF RotateInv, FirstLabels
<1> QED
  BY <1>5, <1>6

LEMMA RotateKeeps ==
    ASSUME ControlInv, NEW w \in Workers, RotateInv(w), RotateStep(w),
           Within(w, RotateLabels)
    PROVE  /\ pc'[w] \notin Idle => RotateInv(w)'
           /\ pc'[w] \in Idle /\ start[w].whole /\ pc[w] # "c_restart" => Serving'
           /\ pc'[w] = "ok" /\ start[w].env \in Creds =>
                  env' = [start[w].env EXCEPT ![job[w].part] = job[w].key]
<1> USE DEF ControlInv, Labels, Idle, RotateLabels
<1>1. /\ pc[w] \notin Idle
      /\ pc'[w] \notin Idle => job'[w] = job[w] /\ start'[w] = start[w]
  BY DEF Within, Going
<1>s. UNCHANGED <<stack, data>> => Serving' = Serving
  BY DEF Serving
<1>2. CASE BeginRotate(w)
  BY <1>1, <1>2 DEF BeginRotate, Begin
<1>3. CASE ValidateInstance(w)
  <2>1. pc[w] = "c_check" /\ pc'[w] \in {"c_read", "failed"} /\ UNCHANGED host
    BY <1>3, Control DEF ValidateInstance
  <2> QED
    BY <1>1, <1>s, <2>1 DEF RotateInv, host, files, texts
<1>4. CASE ReadEnv(w)
  <2>1. CASE Ok(w, "c_read", "failed")
    <3>1. pc[w] = "c_read" /\ pc'[w] = "failed" /\ UNCHANGED host
      BY <1>4, <2>1, Control DEF ReadEnv
    <3> QED
      BY <1>s, <3>1 DEF RotateInv, host, files, texts
  <2>2. CASE pc[w] = "c_read" /\ pc' = [pc EXCEPT ![w] = "c_write"]
             /\ held' = [held EXCEPT ![w] = env]
    <3>1. pc'[w] = "c_write" /\ held'[w] = env /\ UNCHANGED host
      BY <1>4, <2>2 DEF ReadEnv, ControlOK
    <3> QED
      BY <1>1, <1>s, <2>2, <3>1 DEF RotateInv, host, files, texts
  <2> QED
    BY <1>4, <2>1, <2>2 DEF ReadEnv
<1>5. CASE WriteEnv(w)
  <2>1. /\ pc[w] = "c_write" /\ pc'[w] \in {"c_restart", "failed"}
        /\ UNCHANGED <<dir, yml, stack, data>>
        /\ pc'[w] = "c_restart" => env' = Updated(w)
    BY <1>5, Control DEF WriteEnv
  <2>2. held[w] = start[w].env
    BY <2>1 DEF RotateInv
  <2>3. start[w].env \in Creds =>
            Updated(w) = [start[w].env EXCEPT ![job[w].part] = job[w].key]
    BY <2>2 DEF Updated
  <2> QED
    BY <1>1, <1>s, <2>1, <2>3 DEF RotateInv
<1>6. CASE RestartContainers(w)
  <2>1. /\ pc[w] = "c_restart" /\ pc'[w] \in {"c_verify", "failed"}
        /\ UNCHANGED <<dir, yml, env, data>>
        /\ pc'[w] = "c_verify" => stack' = Restarted
    BY <1>6, Control DEF RestartContainers, files, texts
  <2>2. Serving /\ pc'[w] = "c_verify" => Serving'
    BY <2>1 DEF Restarted, Serving
  <2> QED
    BY <1>1, <2>1, <2>2 DEF RotateInv
<1>7. CASE VerifyContainers(w)
  <2>1. pc[w] = "c_verify" /\ pc'[w] \in {"ok", "failed"} /\ UNCHANGED host
    BY <1>7, Control DEF VerifyContainers
  <2> QED
    BY <1>s, <2>1 DEF RotateInv, host, files, texts
<1> QED
  BY <1>2, <1>3, <1>4, <1>5, <1>6, <1>7 DEF RotateStep

\* The result of an upgrade that left through label l with the stack it means.
UpgradeResult(w) ==
    /\ pc'[w] = "ok" => Serving' /\ stack'.ver = job[w].ver /\ yml' = job[w].ver
    /\ pc'[w] = "failed" /\ job[w].undo /\ OneFailure(w) =>
           Serving' /\ stack'.ver = start[w].yml /\ yml' = start[w].yml

LEMMA UpgradeKeeps ==
    ASSUME ControlInv, NEW w \in Workers, UpgradeInv(w), UpgradeStep(w),
           Within(w, UpgradeLabels), SamePassword(w)
    PROVE  /\ pc'[w] \notin Idle => UpgradeInv(w)'
           /\ UpgradeResult(w)
<1> USE DEF ControlInv, Labels, Idle, UpgradeLabels
<1>1. /\ pc[w] \in UpgradeLabels /\ pc[w] \notin Idle
      /\ pc'[w] \notin Idle => job'[w] = job[w] /\ start'[w] = start[w]
      /\ faults[w] \in Nat
  BY HostAssumption DEF Within, Going, ControlOK
<1>2. /\ job[w].ver \in Versions /\ job[w].key \in Keys \cup {None}
      /\ job[w].ver # None /\ job[w].ver # Broken
  BY Arguments, HostAssumption
     DEF Within, KindInv, Agrees, DeployLabels, DestroyLabels, SweepLabels, RotateLabels
<1>3. /\ dir /\ start[w].yml \in Versions /\ start[w].env \in Creds
      /\ data = start[w].env["pg"] /\ data \in Keys /\ data # None
      /\ start[w].yml # None
  BY <1>1, HostAssumption DEF UpgradeInv, Creds, Parts
<1>4. \A l \in Labels \ Idle, l2 \in Labels : Bad(w, l, l2) => faults'[w] = faults[w] + 1
  BY DEF Bad, ControlOK
<1>5. \A l \in Labels \ Idle, l2 \in Labels : Ok(w, l, l2) => faults'[w] = faults[w]
  BY DEF Ok
<1>6. CASE BeginUpgrade(w)
  BY <1>1, <1>6 DEF BeginUpgrade, Begin
<1>7. CASE Precheck(w)
  <2>1. /\ pc[w] = "u_check" /\ pc'[w] \in {"u_bak", "failed"} /\ UNCHANGED host
    BY <1>7, Control DEF Precheck, Healthy, Unhealthy
  <2>2. stack = OldStack(w) /\ yml = start[w].yml /\ env \in Creds
        /\ env["pg"] = start[w].env["pg"]
    BY <2>1 DEF UpgradeInv
  <2>3. Serving'
    BY <1>3, <2>1, <2>2 DEF Serving, OldStack, host, files, texts
  <2> QED
    BY <1>1, <1>3, <2>1, <2>2, <2>3
       DEF UpgradeInv, UpgradeResult, OneFailure, OldStack, host, files, texts
<1>8. CASE BackUpFile(w)
  <2>1. /\ pc[w] = "u_bak" /\ pc'[w] \in {"u_write", "failed"}
        /\ UNCHANGED <<dir, yml, env, mount, stack, data>>
        /\ pc'[w] = "u_write" => bak' = yml
    BY <1>8, Control DEF BackUpFile
  <2>2. stack = OldStack(w) /\ yml = start[w].yml /\ env \in Creds
        /\ env["pg"] = start[w].env["pg"]
    BY <2>1 DEF UpgradeInv
  <2>3. Serving'
    BY <1>3, <2>1, <2>2 DEF Serving, OldStack
  <2> QED
    BY <1>1, <1>3, <2>1, <2>2, <2>3 DEF UpgradeInv, UpgradeResult, OneFailure, OldStack
<1>9. CASE WriteNewFile(w)
  <2>1. /\ pc[w] = "u_write" /\ pc'[w] \in {"u_env", "u_undo", "failed"}
        /\ UNCHANGED <<dir, bak, env, mount, stack, data>>
        /\ pc'[w] = "u_env" => yml' = job[w].ver
        /\ pc'[w] # "u_env" => faults'[w] = faults[w] + 1
        /\ pc'[w] = "failed" => ~job[w].undo
    BY <1>3, <1>4, <1>9, Control DEF WriteNewFile, CopyBack
  <2>2. stack = OldStack(w) /\ env \in Creds /\ bak = start[w].yml
        /\ env["pg"] = start[w].env["pg"]
    BY <2>1 DEF UpgradeInv
  <2> QED
    BY <1>1, <1>3, <2>1, <2>2 DEF UpgradeInv, UpgradeResult, OneFailure, OldStack
<1>10. CASE WriteNewEnv(w)
  <2>1. /\ pc[w] = "u_env" /\ pc'[w] \in {"u_stop", "u_undo", "failed"}
        /\ UNCHANGED <<dir, yml, bak, mount, stack, data>>
        /\ pc'[w] = "u_stop" => env' = env \/ env' = [p \in Parts |-> job[w].key]
        /\ pc'[w] = "u_stop" /\ job[w].key = None => env' = env
        /\ pc'[w] # "u_stop" => faults'[w] = faults[w] + 1
        /\ pc'[w] = "failed" => ~job[w].undo
    BY <1>3, <1>4, <1>10, Control DEF WriteNewEnv, CopyBack
  <2>2. stack = OldStack(w) /\ env \in Creds /\ bak = start[w].yml
        /\ env["pg"] = start[w].env["pg"] /\ yml = job[w].ver
    BY <2>1 DEF UpgradeInv
  <2>3. job[w].key # None => /\ [p \in Parts |-> job[w].key] \in Creds
                             /\ [p \in Parts |-> job[w].key]["pg"] = start[w].env["pg"]
    BY <1>2 DEF SamePassword, Creds, Parts
  <2>4. pc'[w] = "u_stop" => env' \in Creds /\ env'["pg"] = start[w].env["pg"]
    BY <2>1, <2>2, <2>3
  <2> QED
    BY <1>1, <1>3, <2>1, <2>2, <2>4 DEF UpgradeInv, UpgradeResult, OneFailure, OldStack
<1>11. CASE UndoFile(w)
  <2>0. pc[w] = "u_undo" /\ pc'[w] = "failed"
    BY <1>11, Control DEF UndoFile, RestoreFile
  <2>1. stack = OldStack(w) /\ bak = start[w].yml /\ faults[w] > 0
    BY <2>0 DEF UpgradeInv
  <2>2. /\ UNCHANGED <<dir, env, mount, stack, data>>
        /\ yml' = bak \/ faults'[w] = faults[w] + 1
    BY <1>3, <1>4, <1>11, <2>1 DEF UndoFile, RestoreFile
  <2>3. Serving'
    BY <1>3, <2>1, <2>2 DEF Serving, OldStack
  <2> QED
    BY <1>1, <1>3, <2>0, <2>1, <2>2, <2>3 DEF UpgradeResult, OneFailure, OldStack
<1>12. CASE StopOld(w) \/ StartNew(w) \/ CheckNew(w)
  <2>0. pc[w] \in {"u_stop", "u_up", "u_health"}
    BY <1>12, Control DEF StopOld, StartNew, CheckNew, Healthy, Unhealthy, RollBack, UpFails
  <2>1. /\ yml = job[w].ver /\ env \in Creds /\ env["pg"] = start[w].env["pg"]
        /\ bak = start[w].yml /\ CanCompose
    BY <1>2, <1>3, <2>0 DEF UpgradeInv, CanCompose
  <2>2. CASE StopOld(w)
    <3>1. /\ pc[w] = "u_stop" /\ pc'[w] \in {"u_up", "r_stop", "failed"}
          /\ UNCHANGED <<files, data>>
          /\ pc'[w] # "u_up" => faults'[w] = faults[w] + 1
          /\ pc'[w] = "failed" => ~job[w].undo
      BY <1>4, <2>1, <2>2, Control DEF StopOld, RollBack
    <3> QED
      BY <1>1, <1>3, <2>1, <3>1 DEF UpgradeInv, UpgradeResult, OneFailure, files, texts
  <2>3. CASE StartNew(w)
    <3>1. /\ data' = data /\ UNCHANGED texts
          /\ mount'[start[w].yml] = "file"
      <4>1. mount[start[w].yml] = "file"
        BY <1>1 DEF UpgradeInv
      <4> QED
        BY <1>2, <1>3, <2>1, <2>3, <4>1, Upping, UpFailing DEF StartNew
    <3>2. \/ Ok(w, "u_up", "u_health") /\ Up
          \/ Bad(w, "u_up", RollBack(w))
          \/ Ok(w, "u_up", RollBack(w)) /\ mount'[job[w].ver] = "dir"
      BY <1>2, <2>1, <2>3, UpFailing DEF StartNew
    <3>3. /\ pc[w] = "u_up" /\ pc'[w] \in {"u_health", "r_stop", "failed"}
          /\ pc'[w] = "u_health" => Up
          /\ pc'[w] # "u_health" =>
                 faults'[w] = faults[w] + 1 \/ mount'[job[w].ver] = "dir"
          /\ pc'[w] = "failed" => ~job[w].undo
      BY <1>4, <3>2, Control DEF RollBack
    <3>4. pc'[w] = "u_health" =>
              \/ stack' = Created("all")'
              \/ (stack' = Created("some")' /\ mount'[yml] = "dir")
      BY <3>1, <3>3 DEF Up, Created, texts
    <3> QED
      BY <1>1, <1>3, <2>1, <3>1, <3>3, <3>4 DEF UpgradeInv, UpgradeResult, OneFailure, texts
  <2>4. CASE CheckNew(w)
    <3>0. pc[w] = "u_health"
      BY <2>4, Control DEF CheckNew, Healthy, Unhealthy, RollBack
    <3>1. \/ stack = Created("all") /\ Serving
          \/ stack = Created("some") /\ mount[yml] = "dir"
      BY <1>3, <2>1, <3>0 DEF UpgradeInv, Serving, Created
    <3>2. /\ pc'[w] \in {"ok", "r_stop", "failed"}
          /\ UNCHANGED <<dir, yml, env, mount, stack, data>>
          /\ pc'[w] = "ok" => AllRunning
          /\ pc'[w] # "ok" => bak' = bak /\ (~Serving \/ faults'[w] = faults[w] + 1)
          /\ pc'[w] = "failed" => ~job[w].undo
      BY <1>4, <2>4, Control DEF CheckNew, Healthy, Unhealthy, RollBack
    <3>3. pc'[w] = "ok" => Serving' /\ stack'.ver = job[w].ver /\ yml' = job[w].ver
      BY <2>1, <3>1, <3>2 DEF Serving, Created, AllRunning
    <3> QED
      BY <1>1, <1>3, <2>1, <3>1, <3>2, <3>3 DEF UpgradeInv, UpgradeResult, OneFailure
  <2> QED
    BY <1>12, <2>2, <2>3, <2>4
<1>13. CASE StopNew(w)
  <2>1. /\ pc[w] = "r_stop" /\ pc'[w] = "r_copy" /\ UNCHANGED <<texts, mount, data>>
        /\ faults'[w] = faults[w] \/ faults'[w] = faults[w] + 1
    BY <1>4, <1>5, <1>13, Control DEF StopNew, files
  <2> QED
    BY <1>1, <1>3, <2>1 DEF UpgradeInv, UpgradeResult, OneFailure, files, texts
<1>14. CASE CopyOld(w)
  <2>0. pc[w] = "r_copy" /\ pc'[w] \in {"r_up", "failed"}
    BY <1>14, Control DEF CopyOld, RestoreFile
  <2>1. bak = start[w].yml /\ (faults[w] > 0 \/ mount[job[w].ver] = "dir")
        /\ env \in Creds /\ env["pg"] = start[w].env["pg"]
    BY <2>0 DEF UpgradeInv
  <2>2. /\ UNCHANGED <<dir, bak, env, mount, stack, data>>
        /\ pc'[w] = "r_up" => yml' = bak /\ faults'[w] = faults[w]
        /\ pc'[w] = "failed" => faults'[w] = faults[w] + 1
    BY <1>3, <1>4, <1>5, <1>14, <2>1, Control DEF CopyOld, RestoreFile
  <2> QED
    BY <1>1, <1>3, <2>0, <2>1, <2>2 DEF UpgradeInv, UpgradeResult, OneFailure
<1>15. CASE StartOld(w)
  <2>0. pc[w] = "r_up" /\ pc'[w] = "failed"
    BY <1>15, Control DEF StartOld, UpFails
  <2>1. /\ yml = start[w].yml /\ mount[yml] = "file"
        /\ faults[w] > 0 \/ mount[job[w].ver] = "dir"
        /\ env \in Creds /\ env["pg"] = start[w].env["pg"] /\ CanCompose
    BY <1>3, <2>0 DEF UpgradeInv, CanCompose
  <2>2. /\ UNCHANGED files
        /\ Up \/ faults'[w] = faults[w] + 1
    BY <1>3, <1>4, <1>15, <2>1, Upping, UpFailing DEF StartOld, files
  <2>3. ASSUME Up PROVE Serving' /\ stack'.ver = start[w].yml /\ yml' = start[w].yml
    <3>1. data' = data
      BY <1>3, <2>1, <2>3, Upping
    <3>2. stack' = Created("all")
      BY <2>1, <2>2, <2>3 DEF Up, files
    <3> QED
      BY <1>3, <2>1, <2>2, <3>1, <3>2 DEF Serving, Created, files, texts
  <2>4. faults'[w] \in {faults[w], faults[w] + 1}
    BY <1>4, <1>5, <1>15 DEF StartOld, UpFails
  <2> QED
    BY <1>1, <2>0, <2>1, <2>2, <2>3, <2>4 DEF UpgradeResult, OneFailure, files
<1> QED
  BY <1>6, <1>7, <1>8, <1>9, <1>10, <1>11, <1>12, <1>13, <1>14, <1>15 DEF UpgradeStep

LEMMA RunningStep == ASSUME ControlInv, RunningInv, Next PROVE RunningInv'
<1> USE DEF ControlInv
<1>1. PICK w \in Workers :
              \/ Starting(w, Jobs)
              \/ Within(w, DeployLabels) /\ DeployStep(w)
              \/ Within(w, DestroyLabels \cup SweepLabels) /\ DestroyStep(w)
              \/ Within(w, UpgradeLabels) /\ UpgradeStep(w)
              \/ Within(w, RotateLabels) /\ RotateStep(w)
  BY Steps
<1> SUFFICES ASSUME NEW v \in Workers, Solo(v)'
             PROVE  UpgradeInv(v)' /\ RotateInv(v)'
  BY DEF RunningInv
<1>2. v = w
  BY <1>1, OthersNotSolo DEF Starting, FirstLabels, Labels, Idle, Within
<1>3. CASE Starting(w, Jobs)
  BY <1>2, <1>3, RunningStarts DEF Starting, ControlInv
<1>4. Solo(w) \/ Starting(w, Jobs)
  BY <1>1, <1>2 DEF Within, Going, Solo
<1>5. CASE Within(w, DeployLabels) \/ Within(w, DestroyLabels \cup SweepLabels)
  <2>1. pc'[w] \notin UpgradeLabels \cup RotateLabels
    BY <1>2, <1>5 DEF Within, DeployLabels, DestroyLabels, SweepLabels, UpgradeLabels,
                      RotateLabels, Idle
  <2> QED
    BY <1>2, <2>1 DEF UpgradeInv, RotateInv
<1>6. CASE Solo(w) /\ Within(w, UpgradeLabels) /\ UpgradeStep(w)
  <2>1. pc'[w] \in UpgradeLabels /\ pc'[w] \notin RotateLabels /\ pc'[w] \notin Idle
    BY <1>2, <1>6 DEF Within, Solo, UpgradeLabels, RotateLabels, Idle
  <2>2. SamePassword(w)' = SamePassword(w)
    BY <1>6, <2>1 DEF Within, Going, SamePassword
  <2>3. UpgradeInv(w)'
    BY <1>6, <2>1, <2>2, UpgradeKeeps DEF RunningInv, UpgradeInv, ControlInv
  <2> QED
    BY <1>2, <2>1, <2>3 DEF RotateInv
<1>7. CASE Solo(w) /\ Within(w, RotateLabels) /\ RotateStep(w)
  <2>1. pc'[w] \in RotateLabels /\ pc'[w] \notin UpgradeLabels /\ pc'[w] \notin Idle
    BY <1>2, <1>7 DEF Within, Solo, UpgradeLabels, RotateLabels, Idle
  <2>2. RotateInv(w)'
    BY <1>7, <2>1, RotateKeeps DEF RunningInv, ControlInv
  <2> QED
    BY <1>2, <2>1, <2>2 DEF UpgradeInv
<1> QED
  BY <1>1, <1>3, <1>4, <1>5, <1>6, <1>7

LEMMA RunningInvariance == Spec => []RunningInv
<1>1. Init => RunningInv
  BY DEF Init, RunningInv, Solo, Idle
<1>2. ControlInv /\ RunningInv /\ [Next]_vars => RunningInv'
  <2>1. ASSUME RunningInv, UNCHANGED vars PROVE RunningInv'
    BY <2>1 DEF RunningInv, Solo, UpgradeInv, RotateInv, SamePassword, OldStack, Created,
               Serving, vars, host, files, texts
  <2> QED
    BY <2>1, RunningStep
<1> QED
  BY <1>1, <1>2, Invariance, PTL DEF Spec

\* An upgrade that nothing interleaved with, of a running instance whose database
\* password it keeps, ends with every container running: from the new file, or,
\* with RollbackOnFailure and one failing command, from the old one.
THEOREM UpgradeAllOrNothing == Spec => UpgradeIsAllOrNothing
<1>1. ASSUME ControlInv, RunningInv, Next, NEW w \in Workers, SamePassword(w),
             NEW r, Ends(w, "upgrade", r), r \in {"ok", "failed"}
      PROVE  UpgradeResult(w)
  <2>1. UpgradeStep(w) /\ Within(w, UpgradeLabels)
    BY <1>1, WhoMoves DEF Ends, Idle
  <2> QED
    BY <1>1, <2>1, UpgradeKeeps DEF RunningInv, Solo, Ends
<1>2. ControlInv /\ RunningInv /\ [Next]_vars =>
    [\A w \in Workers :
          start[w].whole /\ job[w].key \in {None, start[w].env["pg"]} =>
          /\ Ends(w, "upgrade", "ok") =>
                 Serving' /\ stack'.ver = job[w].ver /\ yml' = job[w].ver
          /\ Ends(w, "upgrade", "failed") /\ job[w].undo /\ OneFailure(w) =>
                 Serving' /\ stack'.ver = start[w].yml /\ yml' = start[w].yml]_vars
  BY <1>1 DEF SamePassword, UpgradeResult, Ends
<1> QED
  BY <1>2, Invariance, RunningInvariance, PTL DEF Spec, UpgradeIsAllOrNothing

\* A rotation that nothing interleaved with changes its own credential in .env and
\* nothing else, and unless the restart itself fails leaves the services of a
\* running instance able to log in, however it ends.
THEOREM RotationSpares == Spec => RotationSparesTheRest
<1>1. ASSUME ControlInv, RunningInv, Next, NEW w \in Workers,
             NEW r, Ends(w, "rotate", r), r \in {"ok", "failed"}
      PROVE  /\ start[w].whole /\ pc[w] # "c_restart" => Serving'
             /\ r = "ok" /\ start[w].env \in Creds =>
                    env' = [start[w].env EXCEPT ![job[w].part] = job[w].key]
  <2>1. RotateStep(w) /\ Within(w, RotateLabels)
    BY <1>1, WhoMoves DEF Ends, Idle
  <2> QED
    BY <1>1, <2>1, RotateKeeps DEF RunningInv, Solo, Ends, Idle
<1>2. ControlInv /\ RunningInv /\ [Next]_vars =>
    [\A w \in Workers :
          /\ Ends(w, "rotate", "ok") /\ start[w].env \in Creds =>
                 env' = [start[w].env EXCEPT ![job[w].part] = job[w].key]
          /\ \A r \in {"ok", "failed"} :
                 Ends(w, "rotate", r) /\ start[w].whole /\ pc[w] # "c_restart" =>
                     Serving']_vars
  BY <1>1
<1> QED
  BY <1>2, Invariance, RunningInvariance, PTL DEF Spec, RotationSparesTheRest
=============================================================================
