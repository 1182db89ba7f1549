----------------------------- MODULE UpgradeJob -----------------------------
(* internal/upgrade: Upgrade of one instance to the docker-compose.yml, and  *)
(* the .env if there is one, that the backend rendered, with its rollback.   *)
(* validateVersionUpgrade and the disk check are inputs: an upgrade they     *)
(* refuse ends before it has touched anything, as one that is unhealthy.     *)
EXTENDS InstanceHost

UpgradeJobs ==
    JobsOf("upgrade", Versions, Keys \cup {None}, {"pg"}, BOOLEAN, {FALSE})

BeginUpgrade(w) == \E j \in UpgradeJobs : Begin(w, j, "u_check")

\* The instance is there and healthy, and the backup, if asked for, is made.
Precheck(w) ==
    /\ \/ dir /\ Healthy(w, "u_check", "u_bak")
       \/ ~dir /\ Ok(w, "u_check", "failed")
       \/ Unhealthy(w, "u_check", "failed")
    /\ UNCHANGED host

\* copyFile to docker-compose.yml.backup
BackUpFile(w) ==
    /\ \/ yml # None /\ Ok(w, "u_bak", "u_write") /\ bak' = yml
       \/ yml = None /\ Ok(w, "u_bak", "failed") /\ UNCHANGED bak
       \/ dir /\ Bad(w, "u_bak", "failed") /\ bak' \in {bak, Broken}
    /\ UNCHANGED <<dir, yml, env, mount, stack, data, site, port>>

\* Where a failing step leads before anything was restarted, and after.
CopyBack(w) == IF job[w].undo THEN "u_undo" ELSE "failed"
RollBack(w) == IF job[w].undo THEN "r_stop" ELSE "failed"

\* docker-compose.yml is overwritten.
WriteNewFile(w) ==
    /\ \/ dir /\ Ok(w, "u_write", "u_env") /\ yml' = job[w].ver
       \/ ~dir /\ Ok(w, "u_write", CopyBack(w)) /\ UNCHANGED yml
       \/ dir /\ Bad(w, "u_write", CopyBack(w)) /\ yml' \in {yml, Broken}
    /\ UNCHANGED <<dir, bak, env, mount, stack, data, site, port>>

\* .env is overwritten if the backend sent one.
WriteNewEnv(w) ==
    /\ \/ job[w].key = None /\ Ok(w, "u_env", "u_stop") /\ UNCHANGED env
       \/ job[w].key # None /\
          \/ dir /\ Ok(w, "u_env", "u_stop") /\ env' = [p \in Parts |-> job[w].key]
          \/ ~dir /\ Ok(w, "u_env", CopyBack(w)) /\ UNCHANGED env
          \/ dir /\ Bad(w, "u_env", CopyBack(w)) /\ env' \in {env, Broken}
    /\ UNCHANGED <<dir, yml, bak, mount, stack, data, site, port>>

\* copyFile from the backup, which keeps the file when there is none to read.
RestoreFile(w, l, l2) ==
    /\ \/ bak # None /\ Ok(w, l, l2) /\ yml' = bak
       \/ bak = None /\ Ok(w, l, "failed") /\ UNCHANGED yml
       \/ dir /\ Bad(w, l, "failed") /\ yml' \in {yml, Broken}
    /\ UNCHANGED <<dir, bak, env, mount, stack, data, site, port>>

UndoFile(w) == RestoreFile(w, "u_undo", "failed")

StopOld(w) ==
    /\ \/ CanCompose /\ Ok(w, "u_stop", "u_up") /\ stack' = Stopped
       \/ ~CanCompose /\ Ok(w, "u_stop", RollBack(w)) /\ UNCHANGED stack
       \/ Bad(w, "u_stop", RollBack(w)) /\ stack' \in {stack, Stopped}
    /\ UNCHANGED <<files, data, site, port>>

StartNew(w) ==
    /\ \/ CanCompose /\ Up /\ Ok(w, "u_up", "u_health")
       \/ ~CanCompose /\ Ok(w, "u_up", RollBack(w)) /\ UNCHANGED <<mount, stack, data>>
       \/ CanCompose /\ UpFails(w, "u_up", RollBack(w))
    /\ UNCHANGED <<texts, site, port>>

\* Healthy: the backup file is removed and the upgrade is done.
CheckNew(w) ==
    /\ \/ Healthy(w, "u_health", "ok") /\ bak' = None
       \/ Unhealthy(w, "u_health", RollBack(w)) /\ UNCHANGED bak
    /\ UNCHANGED <<dir, yml, env, mount, stack, data, site, port>>

\* rollbackUpgrade ignores whether the containers could be stopped ...
StopNew(w) ==
    /\ \/ Ok(w, "r_stop", "r_copy")
            /\ stack' = IF CanCompose THEN Stopped ELSE stack
       \/ Bad(w, "r_stop", "r_copy") /\ stack' \in {stack, Stopped}
    /\ UNCHANGED <<files, data, site, port>>

\* Mutant: the old containers are started from the new file.
SkipCopy(w) == Ok(w, "r_copy", "r_up") /\ UNCHANGED host

\* ... restores docker-compose.yml, but not .env ...
CopyOld(w) == RestoreFile(w, "r_copy", "r_up")

\* ... and starts the previous version without looking at what comes of it.
StartOld(w) ==
    /\ \/ CanCompose /\ Up /\ Ok(w, "r_up", "failed")
       \/ ~CanCompose /\ Ok(w, "r_up", "failed") /\ UNCHANGED <<mount, stack, data>>
       \/ CanCompose /\ UpFails(w, "r_up", "failed")
    /\ UNCHANGED <<texts, site, port>>

UpgradeStep(w) ==
    \/ BeginUpgrade(w) \/ Precheck(w) \/ BackUpFile(w) \/ WriteNewFile(w)
    \/ WriteNewEnv(w) \/ UndoFile(w) \/ StopOld(w) \/ StartNew(w) \/ CheckNew(w)
    \/ StopNew(w) \/ CopyOld(w) \/ StartOld(w)
=============================================================================
