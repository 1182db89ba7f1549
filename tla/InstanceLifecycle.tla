-------------------------- MODULE InstanceLifecycle --------------------------
(* The operations on one Supabase instance together: deploy, destroy, reset, *)
(* upgrade and rotate, each its own RPC handler or CLI process.  The source  *)
(* has no lock between them, so their commands interleave.                   *)
EXTENDS DeployJob, DestroyJob, UpgradeJob, RotateJob

Labels ==
    Idle \cup
    {"d_docker", "d_nginx", "d_dir", "d_write", "d_down", "d_wipe", "d_pull", "d_pg",
     "d_up", "d_roles", "d_again", "d_wait", "d_health", "d_site",
     "x_stop", "x_volumes", "x_site", "x_dir", "x_orphans", "x_port",
     "z_prune", "zf_prune", "z_ufw", "zf_ufw",
     "u_check", "u_bak", "u_write", "u_env", "u_undo", "u_stop", "u_up", "u_health",
     "r_stop", "r_copy", "r_up",
     "c_check", "c_read", "c_write", "c_restart", "c_verify"}

Jobs == {NoJob, ResetJob} \cup DeployJobs \cup DestroyJobs \cup UpgradeJobs
        \cup RotateJobs

\* The fresh VM, or the one a deployment with version v and credential k has left;
\* another version may mount the same files or others.
Fresh ==
    /\ dir = FALSE /\ yml = None /\ env = None /\ stack = NoStack
    /\ data = None /\ site = FALSE /\ mount = NoMounts

Deployed(v, k) ==
    /\ dir = TRUE /\ yml = v /\ env = [p \in Parts |-> k]
    /\ stack = [st |-> "all", ver |-> v, cred |-> env]
    /\ data = k /\ site = TRUE
    /\ mount \in [Versions -> {"none", "file"}] /\ mount[v] = "file"

Init ==
    /\ Fresh \/ \E v \in Versions, k \in Keys : Deployed(v, k)
    /\ bak = None
    /\ port \in BOOLEAN
    /\ pc = [w \in Workers |-> "idle"]
    /\ job = [w \in Workers |-> NoJob]
    /\ held = [w \in Workers |-> None]
    /\ jobs = 0
    /\ faults = [w \in Workers |-> 0]
    /\ alone = [w \in Workers |-> TRUE]
    /\ start = [w \in Workers |-> NoStart]

Next == \E w \in Workers :
            DeployStep(w) \/ DestroyStep(w) \/ UpgradeStep(w) \/ RotateStep(w)

Spec == Init /\ [][Next]_vars
-----------------------------------------------------------------------------
Files == Versions \cup {None, Broken}
Envs  == Creds \cup {None, Broken}

TypeOK ==
    /\ dir \in BOOLEAN /\ site \in BOOLEAN /\ port \in BOOLEAN
    /\ yml \in Files /\ bak \in Files /\ env \in Envs
    /\ stack \in [st : {"none", "some", "all", "stopped"},
                  ver : Files, cred : Envs]
    /\ mount \in [Versions -> {"none", "file", "dir"}]
    /\ data \in Keys \cup {None}
    /\ pc \in [Workers -> Labels]
    /\ job \in [Workers -> Jobs]
    /\ held \in [Workers -> Envs]
    /\ jobs \in 0..MaxJobs
    /\ faults \in [Workers -> 0..MaxFaults]
    /\ alone \in [Workers -> BOOLEAN]
    /\ start \in [Workers -> [yml : Files, env : Envs, dir : BOOLEAN,
                              whole : BOOLEAN]]

\* Job w of kind k ends in this step with result r, nothing else having run.
Ends(w, k, r) ==
    alone[w] /\ job[w].kind = k /\ pc[w] \notin Idle /\ pc'[w] = r

\* A deployment that reports success (deploy.go:42) has left every container
\* running from the files it wrote, with services that can log in to the
\* database, whatever an earlier deployment left behind and though the errors of
\* `down` and of wiping the database files are ignored (deploy.go:171-178).
DeploySuccessServes ==
    [][\A w \in Workers : Ends(w, "deploy", "ok") =>
          /\ Serving' /\ site' /\ yml' = job[w].ver /\ stack'.ver = yml'
          /\ stack'.cred = env' /\ env' = Rendered(w)]_vars

\* One leftover only, of earlier operations finished or not, makes a deployment
\* fail that has the VM for itself and none of whose commands fails: a directory
\* docker has put where a file is mounted, and that no one removes (files.go:254;
\* for init SQL it is, :229-241).  For all others, tearing down the containers and
\* wiping the database files (deploy.go:170-178) is enough.
RedeployAlwaysWorks ==
    [][\A w \in Workers : Ends(w, "deploy", "failed") =>
          faults'[w] > 0 \/ mount[job[w].ver] = "dir"]_vars

Gone == ~dir' /\ stack' = NoStack /\ data' = None /\ ~site'

\* A destroy or reset of an instance with a directory that reports success has
\* left nothing: no container, file, site, or rule for its port (destroy.go:26,
\* resetvm.go:55-97); that a reset went on after a failure is not forgotten.
RemovalLeavesNothing ==
    [][\A w \in Workers :
          (Ends(w, "destroy", "ok") \/ Ends(w, "reset", "ok")) /\ start[w].dir =>
              Gone /\ (job[w].kind = "reset" \/ job[w].port => ~port')]_vars

\* Destroying is idempotent (destroy.go:25) as far as that goes: with the VM for
\* itself and no failing command it succeeds on an instance that is gone or whose
\* docker-compose.yml can be read, in whatever state its containers are.
DestroyIsIdempotent ==
    [][\A w \in Workers : Ends(w, "destroy", "failed") /\ faults'[w] = 0 =>
          start[w].dir /\ start[w].yml \notin Versions]_vars

\* No command of job w has failed by its end but one, or `up` over a directory.
OneFailure(w) == faults'[w] = 0 \/ (faults'[w] = 1 /\ mount'[job[w].ver] # "dir")

\* An upgrade that does not change the database password, of a running instance,
\* ends with every container running and able to log in: from the new
\* docker-compose.yml, or, with RollbackOnFailure and one failing command (one of
\* itself, or `up` over a directory it made of a missing file to be mounted), from
\* the old one, which is in its place again (upgrade.go:126-275, 448).
UpgradeIsAllOrNothing ==
    [][\A w \in Workers :
          start[w].whole /\ job[w].key \in {None, start[w].env["pg"]} =>
          /\ Ends(w, "upgrade", "ok") =>
                 Serving' /\ stack'.ver = job[w].ver /\ yml' = job[w].ver
          /\ Ends(w, "upgrade", "failed") /\ job[w].undo /\ OneFailure(w) =>
                 Serving' /\ stack'.ver = start[w].yml /\ yml' = start[w].yml]_vars

\* A rotation that reports success has changed its own credential in .env and
\* nothing else, and unless the restart itself failed, which may have stopped a
\* container, the services of a running instance can still log in to the database
\* however it ends (rotatecreds.go:82-158, 201).
RotationSparesTheRest ==
    [][\A w \in Workers :
          /\ Ends(w, "rotate", "ok") /\ start[w].env \in Creds =>
                 env' = [start[w].env EXCEPT ![job[w].part] = job[w].key]
          /\ \A r \in {"ok", "failed"} :
                 Ends(w, "rotate", r) /\ start[w].whole /\ pc[w] # "c_restart" =>
                     Serving']_vars
=============================================================================
