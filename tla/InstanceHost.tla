---------------------------- MODULE InstanceHost ----------------------------
(* The host as the operations on one Supabase instance share it: the         *)
(* instance directory, its Compose stack, its Nginx site and its port in the *)
(* firewall, with the docker compose commands of internal/compose and the    *)
(* bookkeeping of jobs.  Docker, Nginx and UFW are external.                 *)
EXTENDS Naturals, FiniteSets

CONSTANTS
    Workers,    \* RPC handlers and CLI processes that may work on the instance
    Versions,   \* contents of docker-compose.yml the backend may render
    Keys,       \* credentials the backend may choose
    None,       \* an absent file, container or database
    Broken,     \* docker-compose.yml or .env cut short by a failed write
    MaxJobs,    \* operations begun
    MaxFaults   \* commands that fail of themselves in one operation

Parts == {"pg", "jwt"}          \* the credentials in .env
Creds == [Parts -> Keys]

ASSUME HostAssumption ==
    /\ {None, Broken} \cap (Versions \cup Keys) = {}
    /\ None # Broken
    /\ {None, Broken} \cap Creds = {}
    /\ MaxJobs \in Nat
    /\ MaxFaults \in Nat

VARIABLES
    dir,        \* the instance directory exists
    yml,        \* docker-compose.yml
    bak,        \* docker-compose.yml.backup
    env,        \* .env
    mount,      \* per version, the file its containers mount, or what is in its place
    stack,      \* [st, ver, cred]: the containers and what they were created from
    data,       \* the password of the roles in volumes/db/data
    site,       \* the Nginx site of the instance
    port,       \* UFW allows the instance's Postgres port
    pc,         \* where each worker is
    job,        \* what each worker does
    held,       \* .env as a rotation has read it
    jobs,       \* operations begun so far
    faults,     \* commands that have failed of themselves in each job
    alone,      \* no other job has run beside this one (properties only)
    start       \* [yml, env, dir, whole] when each job began (properties only)

texts == <<dir, yml, bak, env>>
files == <<texts, mount>>
host  == <<files, stack, data, site, port>>
vars  == <<host, pc, job, held, jobs, faults, alone, start>>

Idle == {"idle", "ok", "failed"}

NoStack == [st |-> "none", ver |-> None, cred |-> None]
NoMounts == [v \in Versions |-> "none"]

NoJob == [kind |-> "none", ver |-> None, key |-> None, part |-> "pg",
          undo |-> FALSE, port |-> FALSE]
\* The jobs of a kind; an argument it has no use for is NoJob's.
JobsOf(kind, vers, keys, parts, undos, ports) ==
    [kind : {kind}, ver : vers, key : keys, part : parts, undo : undos, port : ports]
NoStart == [yml |-> None, env |-> None, dir |-> FALSE, whole |-> FALSE]
-----------------------------------------------------------------------------
(* The control of one job: its commands at label l, and what comes next.     *)
\* Job w goes on at l2; with its last command its arguments are forgotten.
Proceed(w, l, l2) ==
    /\ pc[w] = l
    /\ pc' = [pc EXCEPT ![w] = l2]
    /\ IF l2 \in Idle
       THEN /\ job' = [job EXCEPT ![w] = NoJob]
            /\ held' = [held EXCEPT ![w] = None]
            /\ alone' = [alone EXCEPT ![w] = TRUE]
            /\ start' = [start EXCEPT ![w] = NoStart]
       ELSE UNCHANGED <<job, held, alone, start>>
    /\ UNCHANGED jobs

\* The command works (or the code ignores that it did not) and l2 is next.
Ok(w, l, l2) == Proceed(w, l, l2) /\ UNCHANGED faults

\* The command fails of itself and l2 handles it.
Bad(w, l, l2) ==
    /\ faults[w] < MaxFaults
    /\ faults' = [faults EXCEPT ![w] = @ + 1]
    /\ Proceed(w, l, l2)

\* The containers as `up` makes them of the files there are.
Created(st) == [st |-> st, ver |-> yml, cred |-> env]

\* Services can log in to the database that is there.
Serving ==
    stack.st = "all" /\ stack.cred \in Creds /\ data = stack.cred["pg"]

\* A job begins at label l with arguments j.
Begin(w, j, l) ==
    LET others == {v \in Workers \ {w} : pc[v] \notin Idle}
    IN  /\ pc[w] \in Idle
        /\ jobs < MaxJobs
        /\ jobs' = jobs + 1
        /\ job' = [job EXCEPT ![w] = j]
        /\ pc' = [pc EXCEPT ![w] = l]
        /\ faults' = [faults EXCEPT ![w] = 0]
        /\ alone' = [v \in Workers |-> IF v = w THEN others = {}
                                       ELSE alone[v] /\ v \notin others]
        /\ start' = [start EXCEPT ![w] =
                [yml |-> yml, env |-> env, dir |-> dir,
                 whole |-> /\ dir /\ yml \in Versions /\ mount[yml] = "file"
                           /\ stack = Created("all") /\ Serving]]
        /\ UNCHANGED <<host, held>>
-----------------------------------------------------------------------------
(* docker compose in the instance directory                                  *)
\* The directory is there to change to and its file can be read.
CanCompose == dir /\ yml \in Versions

\* A database without files is initialised from the environment of the container
\* created for it; without a password there Postgres does not start.
Initialise ==
    data' = IF data = None /\ stack # stack' /\ env \in Creds
            THEN env["pg"] ELSE data

\* Docker makes a directory where a file to be mounted is missing ...
Mounted == IF mount[yml] = "none" THEN [mount EXCEPT ![yml] = "dir"] ELSE mount

\* Up: containers whose file or environment has changed are created anew.  Those
\* that find a directory in place of a file may not run.
Up ==
    /\ mount' = Mounted
    /\ \/ stack' = Created("all")
       \/ mount'[yml] = "dir" /\ stack' = Created("some")
    /\ Initialise

\* UpService: the same of postgres alone; a running stack keeps running.
UpPostgres ==
    /\ stack' = IF stack = Created("all") THEN stack ELSE Created("some")
    /\ mount' \in {mount, Mounted}
    /\ Initialise

\* `up` that fails has started some of the containers, all or none; it fails of
\* itself, or over a directory that cannot be mounted in place of a file.
UpFails(w, l, l2) ==
    /\ \/ Up \/ UpPostgres
       \/ mount' \in {mount, Mounted} /\ UNCHANGED <<stack, data>>
    /\ \/ Bad(w, l, l2)
       \/ mount'[yml] = "dir" /\ Ok(w, l, l2)

Stopped == IF stack.st = "none" THEN stack ELSE [stack EXCEPT !.st = "stopped"]

\* IsRunning: there are containers and each of them runs.
AllRunning == stack.st = "all"

\* CheckAll until its deadline: it passes only while every container runs, and
\* fails only when one does not or cannot log in.
Healthy(w, l, l2) == AllRunning /\ Ok(w, l, l2)
Unhealthy(w, l, l2) == (~Serving /\ Ok(w, l, l2)) \/ Bad(w, l, l2)
-----------------------------------------------------------------------------
(* The file of the instance's site in Nginx                                  *)
\* CreateSiteConfig: a file that fails `nginx -t` is removed, whatever it
\* replaced; a failed write or reload leaves what is there.
SiteCreated == site' = TRUE
SiteNotCreated == site' \in BOOLEAN

\* RemoveSiteConfig: the file goes first, and does not come back when `nginx -t`
\* or the reload fails after it.
SiteRemoved == site' = FALSE
SiteNotRemoved == site' \in {site, FALSE}
=============================================================================
