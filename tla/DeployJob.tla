------------------------------ MODULE DeployJob ------------------------------
(* internal/deploy: Deploy on one instance, with the files internal/files    *)
(* writes.  It stops at the first failing step and takes nothing back.       *)
EXTENDS InstanceHost

DeployJobs == JobsOf("deploy", Versions, Keys, {"pg"}, {FALSE}, {FALSE})

\* The .env the backend rendered, one credential standing for all of it.
Rendered(w) == [p \in Parts |-> job[w].key]

BeginDeploy(w) == \E j \in DeployJobs : Begin(w, j, "d_docker")

\* Docker and its compose plugin are there or get installed.
InstallDocker(w) ==
    /\ Ok(w, "d_docker", "d_nginx") \/ Bad(w, "d_docker", "failed")
    /\ UNCHANGED host

\* nginx.Install: Nginx is there or gets installed, with its configuration.
InstallNginx(w) ==
    /\ Ok(w, "d_nginx", "d_dir") \/ Bad(w, "d_nginx", "failed")
    /\ UNCHANGED host

\* CreateDirectoryStructure: existing directories are kept with what is in them.
MakeDirectories(w) ==
    /\ \/ Ok(w, "d_dir", "d_write") /\ dir' = TRUE
       \/ Bad(w, "d_dir", "failed") /\ dir' \in {dir, TRUE}
    /\ UNCHANGED <<yml, bak, env, mount, stack, data, site, port>>

\* Both texts are written, and the files the version mounts; no write makes a file
\* of a directory docker has put there, which is removed for init SQL only.
Written(w) == dir' = TRUE /\ yml' = job[w].ver /\ env' = Rendered(w)
MountsWritten(w) == [mount EXCEPT ![job[w].ver] = "file"]
MountBlocked(w) == mount[job[w].ver] = "dir"

\* WriteAllConfigFiles writes docker-compose.yml, then .env, then the files to be
\* mounted, and creates a directory that is missing; what a failed write leaves is
\* cut short.
WriteConfig(w) ==
    /\ \/ Ok(w, "d_write", "d_down") /\ Written(w)
          /\ ~MountBlocked(w) /\ mount' = MountsWritten(w)
       \/ Ok(w, "d_write", "failed") /\ Written(w)
          /\ MountBlocked(w) /\ UNCHANGED mount
       \/ Bad(w, "d_write", "failed") /\ Written(w)
          /\ \/ UNCHANGED mount
             \/ ~MountBlocked(w) /\ mount' = MountsWritten(w)
       \/ Bad(w, "d_write", "failed") /\ UNCHANGED <<dir, yml, env, mount>>
       \/ Bad(w, "d_write", "failed") /\ dir' = TRUE /\ UNCHANGED mount /\
          \/ yml' = Broken /\ UNCHANGED env
          \/ yml' = job[w].ver /\ env' \in {env, Broken}
    /\ UNCHANGED <<bak, stack, data, site, port>>

\* Down: its error is ignored.
TearDown(w) ==
    /\ \/ CanCompose /\ Ok(w, "d_down", "d_wipe") /\ stack' = NoStack
       \/ ~CanCompose /\ Ok(w, "d_down", "d_wipe") /\ UNCHANGED stack
       \/ Bad(w, "d_down", "d_wipe") /\ UNCHANGED stack
    /\ UNCHANGED <<files, data, site, port>>

\* Mutant: the database files of an earlier deployment are kept.
KeepDatabase(w) == Ok(w, "d_wipe", "d_pull") /\ UNCHANGED host

\* RemoveAll of volumes/db/data: its error is ignored, too.
WipeDatabase(w) ==
    /\ \/ Ok(w, "d_wipe", "d_pull") /\ data' = None
       \/ Bad(w, "d_wipe", "d_pull") /\ UNCHANGED data
    /\ UNCHANGED <<files, stack, site, port>>

\* `compose config`, then pull.
Pull(w) ==
    /\ \/ CanCompose /\ Ok(w, "d_pull", "d_pg")
       \/ ~CanCompose /\ Ok(w, "d_pull", "failed")
       \/ Bad(w, "d_pull", "failed")
    /\ UNCHANGED host

\* Postgres alone comes up and has its roles before waitForPostgres gives up.
StartPostgres(w) ==
    /\ \/ /\ CanCompose /\ UpPostgres
          /\ Ok(w, "d_pg", IF data' # None THEN "d_up" ELSE "failed")
       \/ CanCompose /\ UpFails(w, "d_pg", "failed")
       \/ ~CanCompose /\ Ok(w, "d_pg", "failed") /\ UNCHANGED <<mount, stack, data>>
    /\ UNCHANGED <<texts, site, port>>

\* Up, before the roles are set and once more after it.
StartAll(w, l, l2) ==
    /\ \/ CanCompose /\ Up /\ Ok(w, l, l2)
       \/ CanCompose /\ UpFails(w, l, "failed")
       \/ ~CanCompose /\ Ok(w, l, "failed") /\ UNCHANGED <<mount, stack, data>>
    /\ UNCHANGED <<texts, site, port>>

\* Mutant: an error from psql is not looked at.
SetRolesUnchecked(w) == Ok(w, "d_roles", "d_again") /\ UNCHANGED host

\* ALTER USER, logged in with the password it sets.
SetRoles(w) ==
    /\ LET worked == CanCompose /\ AllRunning /\ data = job[w].key
       IN  \/ worked /\ Ok(w, "d_roles", "d_again")
           \/ ~worked /\ Ok(w, "d_roles", "failed")
           \/ Bad(w, "d_roles", "failed")
    /\ UNCHANGED host

\* WaitForContainers sees every container run before its deadline.
AwaitContainers(w) ==
    /\ \/ AllRunning /\ Ok(w, "d_wait", "d_health")
       \/ ~AllRunning /\ Ok(w, "d_wait", "failed")
       \/ Bad(w, "d_wait", "failed")
    /\ UNCHANGED host

\* waitForHealthy: CheckAll has the last word.
AwaitHealthy(w) ==
    /\ Healthy(w, "d_health", "d_site") \/ Unhealthy(w, "d_health", "failed")
    /\ UNCHANGED host

\* configureNginxSite, which also writes the password file of the studio.
ConfigureSite(w) ==
    /\ \/ Ok(w, "d_site", "ok") /\ SiteCreated
       \/ Bad(w, "d_site", "failed") /\ SiteNotCreated
    /\ UNCHANGED <<files, stack, data, port>>

DeployStep(w) ==
    \/ BeginDeploy(w) \/ InstallDocker(w) \/ InstallNginx(w) \/ MakeDirectories(w)
    \/ WriteConfig(w) \/ TearDown(w) \/ WipeDatabase(w) \/ Pull(w) \/ StartPostgres(w)
    \/ StartAll(w, "d_up", "d_roles") \/ SetRoles(w) \/ StartAll(w, "d_again", "d_wait")
    \/ AwaitContainers(w) \/ AwaitHealthy(w) \/ ConfigureSite(w)
=============================================================================
