# vmkit-agent in TLA+

This directory is a verification development of vmkit-agent: TLA+ modules
translated from the Go sources under `src/`, TLC configurations that check them
on small instances, and proofs for TLAPS about every instance. It is kept in
`tla/` next to `src/`; source references such as `daemon.go:250` are to the files
of `src/internal/`, and `README.md:18` to the repository's README.

vmkit-agent is one Go binary on each customer VM. As a daemon it keeps an
outbound WebSocket to a gateway and serves JSON-RPC requests; as a CLI it runs one
operation. Everything it does to the VM it does by external commands (`ufw`,
`systemctl`, `docker compose`, `nginx`, `apt`), each of which may fail half-way.
There are no locks between operations and next to no persistent state of its own,
so what can go wrong is in the order of effects, in what a failure leaves behind,
and in operations that overlap.

## 1. Inventory

| Component | State it keeps | Operations | What is hard | What makes it correct |
|---|---|---|---|---|
| Daemon (`daemon/daemon.go`) | connection, errgroup, `sendCh`, backoff, handler goroutines | Run, runOnce, four loops of a session, handleRequest, Shutdown | goroutines ending in any order; handlers that outlive their session; a bounded channel that drops | a response is never duplicated; callers see what they may rely on; sessions and the daemon end |
| Token store (same file) | `/etc/vmkit/token`, `/etc/vmkit/session` | readToken, sendHello, recvWelcome, rotateToken | a kill between truncating, writing and removing; errors only logged | the agent can always authenticate, with the token granted last |
| Self-upgrade (`selfupgrade/`) | executable, temp file, pending restart | Run, download | two handlers, one temp name; restart three seconds later; kill anywhere | the executable is what was swapped in last, whole if a digest says so |
| Open-port, allowlist (`openport/`) | UFW rules | OpenPort, UpdateAllowlist, reconcile, DiffAllowlist | deletion by numbers that shift; failures half-way; overlap | the port ends with exactly the wanted sources, others untouched |
| Hardening (`harden/`) | sshd configuration, socket and service, UFW, VM user | Harden with rollback | thirty commands that may fail after their effect; repetition; kill | there is always a way in |
| Deploy (`deploy/`, `files/`, `compose/`, `docker/`) | instance directory, containers, database, site | Deploy | stops anywhere, takes nothing back, ignores two errors | success means serving; a failed one can be repeated |
| Destroy, reset (`destroy/`, `resetvm/`) | the same, and the port's rule | Destroy, Reset | text of errors decides what is ignorable | success means nothing is left; both can be repeated |
| Upgrade (`upgrade/`) | the same, `docker-compose.yml.backup` | Upgrade, rollbackUpgrade | rollback that ignores its own errors | old or new, never neither |
| Rotation (`rotatecreds/`) | `.env` | RotateCredentials | read, change, write without a lock | only the one credential changes |
| Nginx, TLS (`nginx/`, `enabletls/`, `tls/`) | `nginx.conf`, site files, certificates | Install, CreateSiteConfig, RemoveSiteConfig, EnableTLS | files shared by all instances, rewritten in place without a lock; a rollback that removes what was replaced; certificate and key as two writes | a success serves, other sites go on, what a failure leaves can be loaded and repaired |
| Backup (`backup/`) | a file in `/tmp`, the object at the presigned URL, the database | Backup, Restore, Verify | pipelines of two processes that each may fail, hang or outlive the agent; a restore that drops the database first and has no rollback | what is uploaded is whole; the right backup is restored; a failed restore can be repeated |
| Health (`health/`) | none | CheckAll with retries, enhanced checks | deadlines, retries | a verdict of healthy is about now |
| Container RPCs (`daemon/handlers/`) | none | containers.stop, logs.fetch, metrics.collect | containers that vanish between listing and use | each container is reported once |
| Cleanup (`cleanup/`) | what hardening and deployments have left | Cleanup at three levels | errors that are ignored by the step's name; it may follow any hardening, whole or not | a revert that succeeds leaves a way in |
| Diagnose, status, configuration, CLI | none | reads, one command each | - | - |

How they interact: the read loop starts one goroutine for each request
(`daemon.go:301`); a handler calls one of the packages above and puts its response
in `sendCh`, from which the write loop of whichever session is up takes it.
`vm.upgrade` ends the process its own response has to leave. Deploy, destroy,
reset, upgrade and rotate share one instance directory, its containers, its site
and its port, through the wrappers in `compose/`, `files/` and `nginx/`. Reset
calls Destroy for each instance. Hardening, open-port, reset and cleanup share UFW,
hardening and cleanup sshd. All instances share one Nginx: deploy, destroy and
enable-TLS edit its files and reload it. Backup, restore and verification share
an instance's database.
Deploy, rotation and open-port run as RPCs, so two may run at once
(`register.go:5-17`); destroy, reset, upgrade, backup, restore, verify and cleanup are
commands of the CLI, which may run beside the daemon and each other.

PROJECT.json lists these as components, with what is modelled of each, and the
hazards at the lines where they bite.

## 2. Modules

| Module | What it is |
|---|---|
| `RpcPromise` | abstract: what a caller may rely on about one request |
| `AgentDaemon` | the daemon; implements `RpcPromise` |
| `TokenStore` | the token files across rotations, write errors and crashes |
| `SelfUpgrade` | concurrent `vm.upgrade` handlers on names, inodes and offsets |
| `PortAllowlist` | abstract: what a caller may rely on about a port's list of sources |
| `UfwReconcile` | concurrent reconciliations of a port against UFW's numbered list; one after the other they implement `PortAllowlist` |
| `HardenVM` | Harden and its rollback, repeated, with failing commands and kills |
| `InstanceHost` | the state the operations on an instance share, the compose commands, the bookkeeping of jobs |
| `DeployJob`, `DestroyJob`, `UpgradeJob`, `RotateJob` | one operation each (reset is with destroy), over `InstanceHost` |
| `InstanceLifecycle` | the composition of these five, and their properties |
| `CleanupVM` | Cleanup, composed with `HardenVM` on one VM |
| `NginxSites` | the Nginx that instances share: `nginx.conf`, sites, certificates, and the jobs that edit them |
| `DumpHost` | database, containers, object store, and the pipeline of two processes a job runs |
| `BackupRestore` | Backup, Restore and Verify over `DumpHost` |
| `AgentDaemonProofs`, `TokenStoreProofs`, `SelfUpgradeProofs`, `UfwReconcileProofs`, `HardenVMProofs`, `InstanceLifecycleProofs`, `NginxSitesProofs`, `BackupRestoreProofs` | theorems |
| `MC...` | instances for TLC, each with its `.cfg` files |

Definitions whose comment begins with "Mutant:" are deliberate bugs and part of no
specification. PROJECT.json names, for each checked property, the definition such a
bug stands in for; with it the property is violated, which shows that the property
is about the code and that the run's bounds reach it. PROJECT.json also maps
every definition to the lines it models.

### AgentDaemon and RpcPromise

`run` is where Run and runOnce are: loop, dial, hello, welcome, serve, backoff,
returned. `link`, `closeSent` and `gerr` are `d.conn`, whether a close frame was
written (gorilla refuses to write after one), and whether the errgroup has an
error, which is what cancels its context. `reader`, `writer`, `beat`, `closer` are
the four goroutines of a session; `handler` is the goroutine of each request. A
response is its request's identity; it is in `sendCh`, in the writer's `hand`, on
the `wire`, on a `stale` connection, or has a `fate`. Each select branch, each
early return and each error path of the loops is an action: `WriterTake` and
`WriterStop` are the two branches of the write loop's select, and both are enabled
when both are ready, as in Go. `LinkBreaks`, `GatewayClose`, `GatewaySend`,
`Deliver` and `Vanish` are the network, which is external. The heartbeat goes
through `sendCh` as every message does. Handlers end with the process, not with
the session.

`RpcPromise` has the five states a call can be in as a caller sees it. `CallOf`
maps a request to one of them, and `KeepsPromise` is the refinement.

### TokenStore

The two files hold a whole token, a part of one, nothing, or are absent.
`OpenSession` and `WriteSession` are the two effects of `os.WriteFile`;
`RemoveBootstrap` follows. A failure is logged and the handshake goes on, so the
failing actions lead to the session, too. `Crash` keeps only the files. `mishaps`
remembers which kinds of failure there were and is used by the properties only.

### SelfUpgrade

Names refer to inodes; `OpenTmp` truncates the inode the temp name refers to, if
there is one; `CopyChunk` writes at the handler's own offset to the inode it opened;
`RemoveTmp` and `Rename` work on the name. The digest is computed of what came off
the network, not of the file, so the check's outcome is `CheckOk` or `CheckFail`
whatever is in the file. It needs the whole release only of upgrades in `Digested`, those
whose request has a `sha256`; a body may end early without an error (`CopyEnd`), and of the
others any part but an empty one passes. `Refuse` is Run's early returns, which touch
nothing. A successful `Rename` schedules the restart; `Restart` or
`Crash` kills every handler and runs what the name refers to.

### UfwReconcile and PortAllowlist

`rules` is what `ufw status numbered` lists, IPv4 before IPv6. A call lists the rules,
computes what to delete and to add, and then issues one command a step, the deletions
first. `dels` and `adds` are sets, of which the highest number (`FirstToDelete`) and the
least source (`FirstToAdd`) are next. `UpdateAllowlist` lists once more, before, for its
report. A command can fail at any point, and then the call ends with what it has done.
Parsing is modelled by the rules it finds for a port.

`PortAllowlist` knows no rules and no numbers: each port has a set of sources, which
only the one pending call for that port changes, first by withdrawing what is not
wanted (`Withdraw`), then by admitting what is missing (`Admit`); it is done when
nothing is left to do (`Finish`) and may give up at any point (`GiveUp`). `AllowedOn`
reads the sets off the rule list, `Asked` and `Outcomes` the calls off `pc` and `arg`,
and `KeepsAllowlists` is the refinement. Both listings and the planning are
stutters, and so is the addition of `::/0` when `0.0.0.0/0` has brought it.

### HardenVM

The state is the socket and the service (active, enabled, ports), the Port line of
`sshd_config` (`conf`) and that of the drop-in file, which add up (`PortsIn`), UFW, the
user's keys and the recovery script. At first sshd runs by either unit, on port 22 or,
by the service, on one `sshd_config` names. `ConfigureUser` goes up to the truncation of
`authorized_keys`, and `WriteKeys` from there. Each command is an action with two
outcomes; a failing one may have had its effect or not. `rollback()` is followed
step by step. `Again` runs Harden once more on whatever host the last run left, and
`Crash` kills it anywhere.

### InstanceHost and the jobs

The host is the directory, `docker-compose.yml`, its backup, `.env`, the containers
with the file and the environment they were created from, the password of the
roles in the database files, the site and the port's rule. The content of the
compose file is one of `Versions`, a credential one of `Keys`; a file that a failed
write cut short is `Broken`. `docker compose up` creates containers of the files
there are, and the Postgres image initialises an empty data directory with
the password in its environment; that an existing one keeps its password is why
Deploy wipes it.

Each worker is a goroutine or a CLI process with a job, at a label. `Ok(w, l, l2)`
is a command that works (or whose outcome follows from the host) and `Bad(w, l,
l2)` one that fails of itself; the number of the latter in a job is bounded by
`MaxFaults`. `mount` says of each version whether the files it mounts are there: docker
puts a directory in the place of a missing one (`Mounted`), `up` over one may fail or leave
containers down, and no write makes a file of it again (`MountBlocked`). Commands of
different workers interleave freely. `alone` and `start`
record whether a job has run by itself and what it found; only properties use
them. Reset is modelled for one instance: its worker goes through Destroy's
labels and then prunes docker and sweeps the firewall (`z_` labels, or `zf_` once
something failed).

### CleanupVM

It extends `HardenVM` by the state of one run of Cleanup: `step`, what was asked for,
and which services are not installed. `HardenStep` is any step of Harden, including
its repetition, while no cleanup is under way; a cleanup begins on whatever host
Harden has left, finished, rolled back or killed. Each step of
`getCleanupSteps` is an action that works, fails after or before its effect, or has an
error that `isIgnorableError` drops. The `sed` edits of `sshd_config` are one
action, which changes its Port line to the port asked for if there is such a line.

### NginxSites

`conf` counts how often `nginx.conf` has the lines the agent adds, or is `Blank`
while `os.WriteFile` has emptied and not yet filled it; `site` is the kind of each
site file, `cert` the state of each certificate pair, and `loaded` what the running
server has. "If not present" is a `grep`, a read into `held`, a truncation and a write,
each a step of its own (`Look`, `Truncate`, `Write`). `Valid` is `nginx -t`; `Reload`
loads what is valid by then and otherwise keeps the old. A job is
`configureNginxSite` after Install, EnableTLS, or RemoveSiteConfig; jobs on one site
or on several interleave. `beside`, `sound`, `hit` and `touched` record what ran
beside a job, what it found, and whether it met a failure; only properties use them.

### DumpHost and BackupRestore

A dump is what it is of and whether it is whole; a checksum is the dump it is of. A
pipeline has a producer, a consumer and a pipe that one pipe-full fills. The agent
starts both, waits for the producer, then for the consumer, and holds the reading
end until the first wait is over (`Holding`): a producer whose consumer died gets
no SIGPIPE before that. Producers and consumers go on when the agent is killed, and
end when the container they run in is stopped (`EvictAll`). `Reachable` and `InUse` are
Postgres' rules for connecting and dropping; `own` says whether `psql` without `-d`
connects to the database `postgres` itself, which depends on `PGDATABASE` in the
image. A pipeline whose second command cannot be started leaves the first to go on
(`Spill`). `job` is the configuration of a worker's job, `file` its file in `/tmp`, which
every return removes. `flaw` marks a job whose psql skipped a statement or whose
exit was excused; `hit` and `alone` are as above.

## 3. Runs

| Run | Instance | What it shows |
|---|---|---|
| `daemon_all` | 2 requests, a notification, channel of 1, backoff cap 2 | a response is in one place, the refinement of `RpcPromise`, and liveness |
| `tokens_all` | 3 session tokens | a token to fall back on, a whole one unless a write failed; genuine, granted last |
| `upgrade_all` | 3 upgrades, 2 with a digest, 2 writes each | one at a time the executable is what was swapped in, whole with a digest; restart and live image in any overlap |
| `upgrade_corrupt` | 2 upgrades | violated: `ExecIsWhole` (`selfupgrade.go:69`) |
| `ufw_serial` | 2 calls in sequence, 2 ports, 4 sources | the refinement of `PortAllowlist`; lists of sources are enforced exactly, nobody wanted is cut off on the way, reports are true |
| `ufw_overlap` | 2 calls at once | violated: `OtherPortsUntouched` (`allowlist.go:133`) |
| `harden_all` | 2 ports to move to, sshd on 22 or another, socket or service, UFW on or off, 2 runs, 2 faults each | there is a way in |
| `cleanup_all` | 2 hardenings and 2 cleanups with 1 fault each, to or from 22 or another port, UFW off at first and asked for | a revert that succeeds restores the way in, on the port it reports where it can |
| `instance_all` | 2 workers, 2 versions, 2 credentials, 2 jobs, 1 fault each | the promises of deploy, destroy, reset, upgrade and rotate |
| `sites_all` | 2 workers, 2 sites, 3 jobs, 1 fault | successes serve, other sites go on, leftovers load and can be repaired |
| `backup_all` | 2 processes, 2 contents, dumps of 2 pipe-fulls, 2 jobs, 1 fault | the promises of backup, restore and verify; nothing waits for ever |
| `backup_local` | 1 process, 1 job, no fault | violated: `BackupIsKept` (`backup.go:192`) |

Runs that end in a violation check one statement that a comment, a message or the
README makes about the program; PROJECT.json quotes it with the finding.

**The bounds.**
- *Daemon*: one slot makes the channel full with one message, and two requests and a heartbeat
  compete for it. Sessions and reconnects are not bounded, frames are, since an
  identity is sent once. Cap 2 lets the backoff double and be capped.
- *Tokens*: the first rotation has a bootstrap token to fall back on, the second
  does not, the third tells "granted last" from "granted first".
- *Upgrades*: with two, one renames what the other writes; the third meets a restart
  that is still pending and is the one without a digest. Two writes make a half-written
  file.
- *UFW*: the start is every rule list over two ports and the sources, one of
  them IPv6, and both blanket addresses, so that rules of both families are
  deleted around those of the other port. The second call repairs what the first
  left when it failed.
- *Hardening*: the second run starts from every host the first can leave, with up to
  two failing commands, those of the rollback included. 22 is apart, being
  the port of ssh.socket; 2200 is an old port that is not asked for. More ports would behave as
  these do.
- *Instance*: the first job leaves the host in every state one operation with one
  failing command can leave it in, or runs beside the second. A third job adds
  nothing to the promises of the lone one, which the theorems prove for any
  number of jobs, workers and faults. Symmetry
  is over workers, versions and credentials, none of which is named in the module;
  the run has no liveness property.

- *Cleanup*: the second cleanup starts from what a failed or interrupted one left; one
  fault suffices for each step to fail after or before its effect. The port in `sshd_config`,
  if any, is the one hardening moves to or not, and 22 and that port are asked for in turn.
  The theorem covers more of each, and the firewall active or not asked for.
- *Sites*: two sites tell a job's own from the others, two workers overlap in any
  two of their steps, and the third job is the retry that `TLSRepairs` is about. Counts
  in `conf` stop at 2: more than once is all `nginx -t` tells apart. Zones and lines are
  not doubled more often by two workers.
- *Backup*: two pipe-fulls are the least for which a producer can be blocked when its
  consumer dies. Two contents tell the right backup from another; the first job
  leaves what the second starts from, or runs beside it. Symmetry in the last two is over
  workers, sites and contents, and the runs have no liveness property: `NoJobStuck`
  says that somebody can always go on, and no step of a job repeats (`JobsWearOut`,
  proved).

Deadlock is not checked where the system may stop: the daemon after a shutdown
returns, upgrades, calls, runs, jobs and tokens are bounded, and after the last one
nothing is left to do.

**Fairness.** `AgentDaemon`'s is that goroutines are scheduled, timers fire, and
that dials, writes and reads end: a dial and a write have deadlines
(`daemon.go:361-372` for the latter), and a read ends when the connection is
closed. It is weak throughout; of the environment only that a connection that
stays up delivers. Nothing is assumed of handlers, of the gateway or of the
operator. After a clean close by the peer no goroutine is told to stop, and the
next heartbeat's failing write is what ends the session; `ReaderExitEndsSession`
therefore needs the heartbeat (its mutant takes it away). `SelfUpgrade` assumes
that the delayed `systemctl restart` is carried out. No other module has
liveness.

## 4. Proofs

All proofs are for every value of the constants, from the assumptions named in
the modules: finite sets of calls and ports, capacities and caps that are positive,
special values distinct from data.

- **AgentDaemonProofs.** The invariant is `IInv`. `ResponseInOnePlace` is not inductive:
  that a response enters the queue once needs that its handler is started once
  (`IncomingInv`: unread frames are distinct and not yet dispatched), and that it is in
  one place needs that the places exclude each other pairwise and that the writer's hand
  is full exactly while it writes (`PlaceInv`, `HandInv`). `ExitInv` is that a writer that
  is gone has left an error; together with what ends the other loops it gives
  `SessionEndsWithError`, which `BackoffNeverReset` proves and no run checks (section 5).
  On it rest `TypeCorrect`, `NoDuplicateNoOrphan`, `QueueSurvives`, and
  `ImplementsPromise`: every initial state maps to `PromiseInit`, every step to a step of
  one call or to a stutter. The lemmas about `Append`, `Head` and `Tail` are in the same
  module.
- **TokenStoreProofs.** `RotationInv` says what is in the files at each label;
  `BootstrapOutlives`, `GenuineHello`, `GrantedTokenUsed` and `TokenTypes` follow.
  `WholeTokens` adds that without a failed write no file has a part of a token.
  `FirstRotationKeeps` needs in addition how many tokens the gateway has given out,
  and uses the library's facts about cardinality.
- **SelfUpgradeProofs.** `ImageInv` holds in any overlap: inodes no
  upgrade has used yet are open and named nowhere (`Fresh`), nobody has the running
  image open, and the temp name leads neither to it nor to the executable (`Parted`);
  hence `LiveUntouched`. `Single` says that the one handler at work has the temp file for
  itself and what is in it so far; it holds until two overlap, and gives `ExecWhole`, for any
  choice of the upgrades that have a digest.
- **UfwReconcileProofs.** `UfwTypes` holds in any overlap: rule numbers are
  positive, and a list has each port and source once (`OneRule`), which `Adding` and
  `Removing` show of ufw's commands and `Numbering` of any list the VM may
  start with. The others assume `MaxConcurrent = 1`, without which they are
  false (`ufw_overlap`), and rest on `SerialInv`: at most one call runs, and while
  it carries out a plan (`PlanOK`) the numbers it has yet to delete are those of unwanted
  rules of its port, although each deletion renumbers the rules behind it; every other
  rule of the port is wanted; and what is wanted and not to be added is there. Hence
  `KeptSourcesStay`, `NobodyElseAdmitted`, `EndsExactly`, `OthersUntouched` and
  `ReportIsTrue`. `ImplementsAllowlist` is the refinement: every initial state maps to an
  initial state, and each command to a step of `PortAllowlist` or a stutter. `SerialInv`
  leaves one case open, an addition of a source that is there already, so
  `RefinementInv` adds `TwinOK`: such a source came with its twin, of the same plan, and then
  nothing is left to delete. `OtherPortsUntouched` and `NeverWidens` follow from the
  refinement and are theorems of their own; no passing run checks them besides it.
  `OverlapOpensOnlyWanted` needs none of this and no assumption on `MaxConcurrent`: a
  plan only ever adds what its call wants (`AddsWanted`), whatever became of the
  numbers, and a deletion admits nobody. It is about calls that overlap, for which the only
  run is one that ends in a violation, so no run checks it; on `ufw_overlap`'s instance TLC
  found it true before it was proved.
- **HardenVMProofs.** `Progress` says what Harden has achieved when it stands at a
  label, on whatever host it began: its keys before its drop-in, the port
  listening before the firewall, the rule before enabling it. `SuccessIsReachable`,
  `KeysFirst` and `HardenTypes` follow for any number of runs, faults and kills, any ports and
  either unit.
  `FirewallAdmits`, `NoOneLockedOut` and `RollbackRestores` are about first runs:
  `Checked` says what sshd listens on around the connection test, `Shut` that the firewall
  is off until the served port is let through, and `FirstRun` follows a run through its one
  fault: as it was (`Untouched`), moved (`Moved`), or on its way back (`BroughtBack`).
  The second half is about `CleanupVM`: types come from the first, since Cleanup's steps
  keep them and Harden's are steps of its own specification. `RevertProgress` is what a revert has
  achieved at each step: the drop-in gone, the Port line edited if there is one, sshd restarted
  on it, the firewall off. `RevertRestores` then needs nothing of how the host came about.
- **InstanceLifecycleProofs.** `ControlInv` has the types, that a worker's job
  fits its label, and that a job that has run alone is the only one. The lemma
  `Control` says what any command does to the control part and is cited by each
  action's case; `Steps` says that a step is one worker's and stays within its job.
  `LoneInv` says, label by label, what a lone deployment has achieved
  (`DeployInv`) and a lone destroy or reset has removed (`DestroyInv`); `RunningInv`
  what an upgrade and its rollback (`UpgradeInv`) or a rotation (`RotateInv`) have done
  to a running instance. With them the step that reports a result is enough to prove
  `DeployServes`, `RedeployWorks`, `NothingLeft`, `DestroyIdempotent`,
  `UpgradeAllOrNothing` and `RotationSpares`: all of the run's properties.
- **NginxSitesProofs.** `SiteTypes`; and `OthersKept` from two facts: a site
  with a job under way counts as touched (`Claimed`), and one that is not touched and is
  served is served as its file says (`Settled`), so that a reload by another job
  changes nothing. The promises of single jobs rest on `Alone`: of two jobs under way each
  has the other's site in `beside` (`Noted`), and `Local` says label by label what a
  job has achieved that no other disturbs. For `SuccessIsServed` that is the site file
  it wrote, which only jobs on its site can change (`Written`), and that a lone
  deployment has the include line in `nginx.conf`, or in its hand while the file is empty
  (`Includes`). For `LoadableIsLeft` and `TLSIsRepaired` it is that a lone job's test still
  holds when it reloads or rolls back (`Tested`), which certificates it has paired
  (`Certified`), and that all it found loadable still is, but for its own site between two
  writes (`Intact`). `LocalOthers` shows that nobody beside a job takes this away, and
  `Verdicts` what the last step then reports: all of the run's properties. `JobsEnd` is
  about any overlap: `Left` counts the commands before a job, and every step begins a
  job or lowers the count of one and moves no other (`JobsWearOut`), so that a job is
  over after at most sixteen commands.
- **BackupRestoreProofs.** `Sound` says of each worker what its pipeline and file are at
  its label: what a dump is of and that it is whole once both processes have ended well
  (`PipeSound`, `DumpSound`), that past the checksum a restore has the file asked for
  (`RestoreSound`), and past `gzip -t` a verification a whole one (`VerifySound`). `Frame`
  shows that steps of other workers and of processes leave it alone. `BackupWhole`,
  `DroppedRightly` and `VerifiedRestorable` follow; `Labelled` is that a job changes its
  label only by a step of its own. A lone restore needs the host as well, which any
  other job may change: `Solo` says that beside a job that is alone nothing is under way,
  and `Known` what the restore has made of the containers (`StackKnown`), of the
  database while its pipeline fills it (`LoadKnown`, `FlowKnows`) and after
  (`BaseKnown`), and that without a failing command only a torn archive goes wrong
  (`Unhurt`). At each label some error return must then be excluded for
  `RestoreRepeats`, and the last steps give `RestoredFaithfully`. `WornOut` and
  `PipelinesDrain` are what a proof that jobs end needs short of fairness. `Height` orders
  the labels and `Fill` counts what a pipeline has to do: every step but the start of a job or
  a write of the services lowers one job's sum and raises none (`JobsWearOut`), so that
  no job goes on for ever; and a pipeline with a command running has a next step unless
  it is `Blocked` (`PipelinesMove`), for any number of pipe-fulls. They and
  `JobsEnd` were checked by TLC on the instances of `backup_all` and `sites_all` before
  they were proved.

Only model-checked: the liveness properties `ReaderExitEndsSession`, `ShutdownTerminates`,
`SteadySessionDrains` and `SwapIsRestarted`, since the proof system has no reasoning about
fairness here, and `NoJobStuck`, which needs ENABLED; what it says of pipelines is
`PipelinesDrain`. Every other property of a passing run is a theorem. Out of the provers'
reach is induction over data too, which is why no module that is proved about sorts or filters by
recursion: `Listing` numbers rules by their rank, and a plan is a set.

## 5. What came out

Findings with a run are in PROJECT.json: upgrades that share the temp name; rule
numbers that are stale when two calls overlap; a backup without an upload URL that
removes the dump it says is kept. Other differences met while modelling, which no run
checks:

- Daemon: `readLoop` returns nil when the peer closes normally, which cancels nothing, so
  the other loops go on until a heartbeat's write fails; `daemon.go:159` says "When
  any goroutine exits, close the connection to unblock the others".
- Tokens: a later rotation overwrites the session file in place (`daemon.go:250`) and has
  no bootstrap file to fall back on: killed between the truncation and the write, the
  agent is left without a token, which `README.md:18-19` says it "persists".
  `FirstRotationKeepsAToken` is therefore about the first. Even in that one a session file with
  part of a token, from a write that failed, hides the bootstrap token (`readToken`
  falls back on it only for an empty file), hence `mishaps` in the property.
- Self-upgrade: without a `sha256` in the request nothing verifies the binary
  (`selfupgrade.go:169`), and a body cut short where its length is unknown is swapped in and
  restarted into; `selfupgrade.go:69` says "verifies it". Hence `Digested` in the properties.
- The backoff is never reset: `daemon.go:113` does so when a session ends without an
  error, and none does (`BackoffNeverReset`). That branch is dead code, and after a few
  drops the agent reconnects every 60 s for as long as it lives, however well a session
  went, while `README.md:20` has backoff "from 1s" for dropped connections.
- `README.md:21` says that heartbeats run at the interval the gateway assigns; the
  loop has a fixed one (`daemon.go:376`).
- Hardening: a rollback disables UFW even if it was active before (`harden.go:740`; `:739`
  says "if it was enabled"), hence `~before` in the properties about first runs. It ends
  on `ssh.socket` at 22 also where sshd ran as a service on another port (`:719-737`;
  `:685` says "to its previous state"), which is what `RollbackRestoresFirst` says. An old
  Port line in `sshd_config` stays, and sshd then listens on both ports. A repeated run
  truncates `authorized_keys` (`:345`), or takes the sudoers file (`:325`), while the
  drop-in of the earlier run allows keys only; if it fails or is killed there nobody can
  log in, or nobody use sudo, hence the exception in `KeysBeforeLock`. `TestConnection`
  looks at listening sockets on the VM, not at reachability (`harden.go:476`); the
  recovery script is only written after success (`:145`), not for a run that failed; a
  socket that systemd starts at boot is looked for as active, not as enabled (`:424`); the
  rollback of a second run moves sshd back to 22 (`:714`). A run killed between stopping
  and disabling the socket can be followed by one that succeeds with the socket still
  enabled.
- Open-port: a blanket rule has an IPv6 twin that reports do not mention
  (`openport.go:118`), hence the last clause of `ReportIsDelta`. A call that opens a
  port to all writes both rules; the same call again keeps `0.0.0.0/0`, finds `::/0`
  unwanted and deletes it (`allowlist.go:148-155`), so that IPv6 clients lose
  access the second time.
- Rotation: `docker-compose restart` does not read the new `.env`, and the
  database password is never altered, so a rotation that succeeds has changed
  a file and nothing that runs; two that overlap lose one of the changes; a restart that
  fails (`rotatecreds.go:204`) may have stopped a container, with `.env` changed and nothing to
  bring either back, hence the condition on the label in `RotationSparesTheRest`; the
  directory is found by instance ID, not by subdomain as Deploy names it.
- Upgrade writes `docker-compose.yml` and `.env` only. For a file that the new version mounts and
  that is not there docker makes a directory; a later deployment of that version then fails
  with "is a directory" each time (`files.go:254-269`, `:170`, `:189`), since only for init SQL
  it removes one first (`:229-241`): the exception in `RedeployAlwaysWorks`, and why
  `UpgradeIsAllOrNothing` counts `up` over such a directory as a failure.
- Upgrade: the rollback does not restore `.env` (`upgrade.go:154`), hence the
  condition on the password in `UpgradeIsAllOrNothing`.
- Destroy: an instance directory without `docker-compose.yml` can be removed neither by
  destroy nor by reset, since `removeVolumes` looks for compose's message in the
  exit status (`destroy.go:157`; `:156` says "that's fine"), hence the exception in
  `DestroyIsIdempotent`. The studio's password file stays (`RemoveHtpasswd` has no caller);
  orphaned containers are passed to `docker rm` as one argument (`CleanupOrphans`
  therefore does nothing); certificates are removed for a fixed domain.
- `files.go:104` says the database directory is left alone without an image;
  `chown -R` of its parent (`files.go:111`) takes it along.
- Nginx: two first deployments at once add the include line or the zones twice
  ("if not present", `nginx.go:178`, `:201`), after which `nginx -t` fails for
  everybody until the file is edited by hand; one that reads `nginx.conf` while the other
  has it empty writes an empty file back. `SuccessServes` and `OthersKeepServing` name this
  as their condition on `conf`. A deployment always renders HTTP (`deploy.go:134`), so
  one that is repeated after enable-TLS takes HTTPS away. Without a studio domain
  enable-TLS always fails, and its rollback removes the HTTP site that was there
  (`enabletls.go:95`, `nginx.go:303`).
- Backup: `psql -U postgres` connects to the database it is to drop unless `PGDATABASE`
  says otherwise, and Postgres refuses (`backup.go:374`): by default every restore fails
  at the drop, which is the first exception in `RestoreCanBeRepeated` (`own`). The second
  is a restore that was not to stop the instance. A gzip or psql that dies while more than
  a pipe-full is to come leaves the agent waiting for ever (`Blocked`): it waits for the
  first command while it holds the reading end. Downloads and docker commands have no
  deadline. With StopInstance the storage container does not run when its archive is to be
  restored, which is skipped and reported as a success (`:471-479`). A deep verification's
  DROP can race a psql that still loads, and the test database stays.
- Upgrade takes its backup only if it is given an upload URL (`upgrade.go:100`).
- Cleanup: a failing `rm` of the drop-in counts as completed (`cleanup.go:226`), and sshd
  then stays on its port while the result names another; the user is deleted all the same.
  For a service that is not installed systemd says "not found", which `isIgnorableError`
  does not look for (`:244`), so cleanup without fail2ban or Nginx fails there each time.
  A revert without DisableFirewall leaves sshd on 22 behind a firewall that admits only
  the new port, hence `ask.firewall` in `RevertRestoresDoor`. The port to go back to is
  put into `sshd_config` only where that has a Port line that is not a comment
  (`cleanup.go:127`), and `ssh.socket`, where a rollback has put it back, keeps 22; the
  result names the port asked for all the same (`CanGiveBack`). It removes
  `jail.d/supabyoi.conf`, while Harden writes `supabyoi-sshd.conf` (`harden.go:559`);
  level "full" deletes the user and keeps the drop-in that allows keys only.

## 6. What is not modelled

Durations: timeouts are an outcome a step may have, and the fixed heartbeat and
the three seconds before a restart are told from other times by nothing. Wording
and parsing: messages, JSON, templates and the output of commands are what they
convey. The components marked `not_modelled` in PROJECT.json. More
than one instance, except in `NginxSites`: operations on different instances share
Nginx and docker only, and what one does to Nginx shows to the operations of
`InstanceLifecycle` as a command that fails. A reboot of the VM with an Nginx
configuration that cannot be loaded: `LeavesLoadable` is about the files. Two backups of
one instance in the same second, which would share their file in `/tmp`
(`backup.go:99`), and two first writes of one directory. The archive of storage files
beyond the step that makes it. File ownership.

Components left out: container RPCs, logs and metrics list or read containers that no
other operation names; diagnose and status read; the enhanced health checks compare
numbers with thresholds; configuration and types are decoding. None keeps state that a
property could relate to another's.

## 7. What could follow

- `SessionTiming`: coarse time, the composition of a session with an upgrade's delayed
  restart (does the response leave in time?) and of the heartbeat with a gateway
  that expects another interval. The gateway's tolerances are not in this repository.
- Abstract specifications beyond `RpcPromise` and `PortAllowlist`: an instance as absent,
  deployed or broken, an atomic token cell. Today's action properties state what these
  would, one operation at a time.
- Proofs: the refinement of these.

The questions are kept few: a new one takes the place of a weaker one or joins
the run of the module it extends, so that each run remains a question of its own.
