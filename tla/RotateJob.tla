------------------------------ MODULE RotateJob ------------------------------
(* internal/rotatecreds: RotateCredentials of one credential.  updateEnvFile *)
(* reads .env and writes it back without a lock, and `docker-compose         *)
(* restart` does not look at it.                                             *)
EXTENDS InstanceHost

RotateJobs == JobsOf("rotate", {None}, Keys, Parts, {FALSE}, {FALSE})

BeginRotate(w) == \E j \in RotateJobs : Begin(w, j, "c_check")

\* The directory and .env are there.
ValidateInstance(w) ==
    /\ Ok(w, "c_check", IF dir /\ env # None THEN "c_read" ELSE "failed")
    /\ UNCHANGED host

\* updateEnvFile: every entry of .env is read ...
ReadEnv(w) ==
    /\ \/ env = None /\ Ok(w, "c_read", "failed")
       \/ /\ env # None /\ pc[w] = "c_read"
          /\ pc' = [pc EXCEPT ![w] = "c_write"]
          /\ held' = [held EXCEPT ![w] = env]
          /\ UNCHANGED <<job, jobs, faults, alone, start>>
    /\ UNCHANGED host

\* Mutant: the entries that were read are not written back.
OnlyNew(w) == [p \in Parts |-> job[w].key]

\* What is read of a file cut short lacks entries.
Updated(w) == IF held[w] \in Creds
              THEN [held[w] EXCEPT ![job[w].part] = job[w].key] ELSE Broken

\* ... and written back with the new one.
WriteEnv(w) ==
    /\ \/ dir /\ Ok(w, "c_write", "c_restart") /\ env' = Updated(w)
       \/ ~dir /\ Ok(w, "c_write", "failed") /\ UNCHANGED env
       \/ dir /\ Bad(w, "c_write", "failed") /\ env' \in {env, Broken}
    /\ UNCHANGED <<dir, yml, bak, mount, stack, data, site, port>>

Restarted == IF stack.st = "stopped" THEN [stack EXCEPT !.st = "some"] ELSE stack

\* restartContainers: the containers that are there keep the environment they
\* were created with.  They are restarted in turn, so a failing restart has left
\* each as it was, running, or stopped and not started again.
RestartContainers(w) ==
    /\ \/ CanCompose /\ stack.st # "none" /\ Ok(w, "c_restart", "c_verify")
            /\ stack' = Restarted
       \/ (~CanCompose \/ stack.st = "none") /\ Ok(w, "c_restart", "failed")
            /\ UNCHANGED stack
       \/ Bad(w, "c_restart", "failed")
            /\ \/ stack' \in {stack, Stopped}
               \/ stack.st # "none" /\ stack' = [stack EXCEPT !.st = "some"]
    /\ UNCHANGED <<files, data, site, port>>

\* verifyContainerHealth looks for "Up" in what `docker-compose ps` prints.
VerifyContainers(w) ==
    /\ \/ CanCompose /\ stack.st \in {"some", "all"} /\ Ok(w, "c_verify", "ok")
       \/ (~CanCompose \/ stack.st # "all") /\ Ok(w, "c_verify", "failed")
       \/ Bad(w, "c_verify", "failed")
    /\ UNCHANGED host

RotateStep(w) ==
    \/ BeginRotate(w) \/ ValidateInstance(w) \/ ReadEnv(w) \/ WriteEnv(w)
    \/ RestartContainers(w) \/ VerifyContainers(w)
=============================================================================
