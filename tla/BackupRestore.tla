---------------------------- MODULE BackupRestore ----------------------------
(* internal/backup: Backup, Restore and Verify of one instance, in processes *)
(* that may overlap.  A job takes its steps in order, returns at the first   *)
(* that fails, and removes its file in /tmp whatever comes of it.            *)
EXTENDS DumpHost

Labels ==
    Idle \cup
    {"b_check", "b_dump", "b_dumped", "b_gzipped", "b_sum", "b_upload", "b_files",
     "r_check", "r_download", "r_sum", "r_stop", "r_pg", "r_drop", "r_create",
     "r_load", "r_fed", "r_loaded", "r_auth", "r_files", "r_restart", "r_health",
     "v_download", "v_sum", "v_gzip", "v_create", "v_load", "v_fed", "v_loaded",
     "v_sane", "v_ok", "v_failed", "hung"}

NoJob == [kind |-> "none", url |-> FALSE, check |-> FALSE, sum |-> None,
          stop |-> FALSE, deep |-> FALSE]
\* url: UploadURL is set; check: VerifyChecksum; sum: ExpectedChecksum; stop:
\* StopInstance; deep: DeepVerify.  A checksum is what it is of.
JobsOf(kind, urls, checks, sums, stops, deeps) ==
    [kind : {kind}, url : urls, check : checks, sum : sums, stop : stops, deep : deeps]
BackupJobs        == JobsOf("backup", BOOLEAN, {FALSE}, {None}, {FALSE}, {FALSE})
RestoreJobs(sums) == JobsOf("restore", {FALSE}, BOOLEAN, sums, BOOLEAN, {FALSE})
VerifyJobs(sums)  == JobsOf("verify", {FALSE}, {FALSE}, sums, {FALSE}, BOOLEAN)
-----------------------------------------------------------------------------
\* Job w goes on at l2 with f in /tmp; when it ends its file is removed.
Proceed(w, l, l2, f) ==
    /\ pc[w] = l
    /\ pc' = [pc EXCEPT ![w] = l2]
    /\ file' = [file EXCEPT ![w] = IF l2 \in Idle THEN None ELSE f]
    /\ job' = IF l2 \in Idle THEN [job EXCEPT ![w] = NoJob] ELSE job
    /\ UNCHANGED <<jobs, alone>>

\* A step whose outcome follows from what is there ...
Ok(w, l, l2) == Proceed(w, l, l2, file[w]) /\ UNCHANGED <<faults, hit>>

\* ... and one that fails of itself.
Bad(w, l, l2) == Hit(w) /\ Proceed(w, l, l2, file[w])

Busy(w) == pc[w] \notin Idle \/ ~Quiet(w)

Begin(w, j, l) ==
    LET beside == {v \in Workers \ {w} : Busy(v)}
    IN  /\ ~Busy(w) /\ jobs < MaxJobs
        /\ jobs' = jobs + 1
        /\ job' = [job EXCEPT ![w] = j]
        /\ pc' = [pc EXCEPT ![w] = l]
        /\ hit' = [hit EXCEPT ![w] = FALSE]
        /\ flaw' = [flaw EXCEPT ![w] = FALSE]
        /\ test' = [test EXCEPT ![w] = None]
        /\ pipe' = [pipe EXCEPT ![w] = NoPipe]
        /\ alone' = [v \in Workers |-> IF v = w THEN beside = {}
                                       ELSE alone[v] /\ v \notin beside]
        /\ UNCHANGED <<host, file, faults>>

BeginBackup(w)  == \E j \in BackupJobs : Begin(w, j, "b_check")
BeginRestore(w) == \E j \in RestoreJobs({None, meta}) : Begin(w, j, "r_check")
BeginVerify(w)  == \E j \in VerifyJobs({None, meta}) : Begin(w, j, "v_download")

\* The agent is killed: what it has started goes on.
Kill(w) ==
    /\ pc[w] \notin Idle
    /\ Bad(w, pc[w], "killed")
    /\ UNCHANGED <<host, test, pipe, flaw>>

\* The pipeline of job w starts, with f in /tmp.
Pour(w, l, l2, what, src, f) ==
    /\ Proceed(w, l, l2, f)
    /\ pipe' = [pipe EXCEPT ![w] = Started(what, src)]
    /\ UNCHANGED <<faults, hit, test, flaw, host>>

\* Its second command cannot be started, and the first goes on without it.
Spill(w, l, bad, what, src) ==
    /\ Bad(w, l, bad)
    /\ pipe' = [pipe EXCEPT ![w] = [Started(what, src) EXCEPT !.cons = "err"]]
    /\ UNCHANGED <<test, flaw, host>>

\* The agent waits for the producer, then for the consumer.
AwaitProducer(w, l, good, bad) ==
    /\ pipe[w].prod # "run"
    /\ Ok(w, l, IF pipe[w].prod = "ok" THEN good ELSE bad)
    /\ UNCHANGED <<host, test, pipe, flaw>>

AwaitConsumer(w, l, good, bad) ==
    /\ pipe[w].cons # "run"
    /\ Ok(w, l, IF pipe[w].cons = "ok" THEN good ELSE bad)
    /\ UNCHANGED <<host, test, pipe, flaw>>

\* A psql that failed without the words ERROR or FATAL counts as a success.
AwaitPsql(w, l, good, bad) ==
    \/ AwaitConsumer(w, l, good, bad)
    \/ /\ pipe[w].cons = "err"
       /\ Ok(w, l, good)
       /\ flaw' = [flaw EXCEPT ![w] = TRUE]
       /\ UNCHANGED <<host, test, pipe>>

\* A step that changes nothing but where the job is.
Pass(w, l, cond, good, bad) ==
    /\ \/ Ok(w, l, IF cond THEN good ELSE bad)
       \/ Bad(w, l, bad)
    /\ UNCHANGED <<host, test, pipe, flaw>>

\* It fails on condition, or of itself.
Fails(w, l, cond, bad) ==
    /\ \/ cond /\ Ok(w, l, bad)
       \/ Bad(w, l, bad)
    /\ UNCHANGED <<host, test, pipe, flaw>>
-----------------------------------------------------------------------------
(* Backup                                                                    *)
\* The files, docker, the container of postgres, a gigabyte in /tmp.
ValidateForBackup(w) ==
    Pass(w, "b_check", "pg" \in stack, "b_dump", "failed")

\* pg_dump | gzip: what the database holds as the dump begins.
StartDump(w) ==
    \/ /\ "pg" \in stack /\ db # None
       /\ \/ Pour(w, "b_dump", "b_dumped", "dump", [of |-> db, whole |-> TRUE],
                  [of |-> db, whole |-> FALSE])
          \/ Spill(w, "b_dump", "failed", "dump", [of |-> db, whole |-> TRUE])
    \/ Fails(w, "b_dump", "pg" \notin stack \/ db = None, "failed")

\* Mutant: as in a shell, the last command's exit is the pipeline's.
NoPipefail(w) ==
    /\ pipe[w].prod # "run" /\ Ok(w, "b_dumped", "b_gzipped")
    /\ UNCHANGED <<host, test, pipe, flaw>>

AwaitDump(w) == AwaitProducer(w, "b_dumped", "b_gzipped", "failed")
AwaitGzip(w) == AwaitConsumer(w, "b_gzipped", "b_sum", "failed")

ChecksumDump(w) == Pass(w, "b_sum", TRUE, "b_upload", "failed")

\* uploadFile: an error may come after the store has the object.
Upload(w) ==
    /\ \/ ~job[w].url /\ Ok(w, "b_upload", "b_files") /\ UNCHANGED store
       \/ job[w].url /\ Ok(w, "b_upload", "b_files") /\ store' = file[w]
       \/ job[w].url /\ Bad(w, "b_upload", "failed") /\ store' \in {store, file[w]}
    /\ meta' = IF pc'[w] # "failed" /\ job[w].url THEN file[w] ELSE meta
    /\ UNCHANGED <<db, stack, own, test, pipe, flaw>>

\* docker cp | gzip, if it is asked for and there is a storage container, and the
\* upload.  Nothing that goes wrong fails the job, but this pipeline, too, can hang.
CopyFiles(w, l, l2) ==
    /\ Ok(w, l, l2) \/ Bad(w, l, l2) \/ ("app" \in stack /\ Bad(w, l, "hung"))
    /\ UNCHANGED <<host, test, pipe, flaw>>

BackupStorage(w) == CopyFiles(w, "b_files", "ok")

BackupStep(w) ==
    \/ ValidateForBackup(w) \/ StartDump(w) \/ AwaitDump(w) \/ AwaitGzip(w)
    \/ ChecksumDump(w) \/ Upload(w) \/ BackupStorage(w)
-----------------------------------------------------------------------------
(* Restore                                                                   *)
ValidateForRestore(w) == Pass(w, "r_check", TRUE, "r_download", "failed")

\* downloadFile has no deadline.
Download(w, l, l2) ==
    /\ \/ store # None /\ Proceed(w, l, l2, store) /\ UNCHANGED <<faults, hit>>
       \/ store = None /\ Ok(w, l, "failed")
       \/ Bad(w, l, "failed")
    /\ UNCHANGED <<host, test, pipe, flaw>>

DownloadToRestore(w) == Download(w, "r_download", "r_sum")

StopOrNot(w) == IF job[w].stop THEN "r_stop" ELSE "r_pg"

\* Mutant: the checksum is calculated and not compared.
ChecksumUnchecked(w) == Pass(w, "r_sum", TRUE, StopOrNot(w), "failed")

\* VerifyChecksum is set and there is one to compare with.
Checked(j) == j.check /\ j.sum # None

ChecksumToRestore(w) ==
    \/ /\ Checked(job[w])
       /\ Pass(w, "r_sum", job[w].sum = file[w], StopOrNot(w), "failed")
    \/ /\ ~Checked(job[w]) /\ Ok(w, "r_sum", StopOrNot(w))
       /\ UNCHANGED <<host, test, pipe, flaw>>

\* What docker compose leaves running; sessions in a stopped container end.
Switch(running) ==
    /\ stack' = running
    /\ EvictAll \/ ("pg" \in stack \cap running /\ UNCHANGED pipe)

StopInstance(w) ==
    /\ \/ Ok(w, "r_stop", "r_pg") /\ stack' = {} /\ EvictAll
       \/ Bad(w, "r_stop", "failed") /\ \E s \in SUBSET stack : Switch(s)
    /\ UNCHANGED <<db, own, store, meta, test, flaw>>

\* Postgres is started if it does not run, and is given five seconds.
FindPostgres(w) ==
    /\ \/ Ok(w, "r_pg", "r_drop") /\ stack' = stack \cup {"pg"}
       \/ Bad(w, "r_pg", "failed") /\ stack' \in {stack, stack \cup {"pg"}}
    /\ UNCHANGED <<db, own, store, meta, test, pipe, flaw>>

\* Mutant: without IF EXISTS a database that a failed restore dropped is missed.
MayDropStrictly == Reachable /\ ~InUse /\ db # None

MayDrop == Reachable /\ ~InUse

DropDatabase(w) ==
    /\ \/ MayDrop /\ Ok(w, "r_drop", "r_create") /\ db' = None
       \/ ~MayDrop /\ Ok(w, "r_drop", "failed") /\ UNCHANGED db
       \/ Bad(w, "r_drop", "failed") /\ db' \in {db} \cup (IF MayDrop THEN {None} ELSE {})
    /\ UNCHANGED <<stack, own, store, meta, test, pipe, flaw>>

CreateDatabase(w) ==
    /\ \/ Reachable /\ db = None /\ Ok(w, "r_create", "r_load") /\ db' = Empty
       \/ ~(Reachable /\ db = None) /\ Ok(w, "r_create", "failed") /\ UNCHANGED db
       \/ Bad(w, "r_create", "failed") /\ UNCHANGED db
    /\ UNCHANGED <<stack, own, store, meta, test, pipe, flaw>>

\* gunzip | psql
StartLoad(w) ==
    \/ /\ "pg" \in stack /\ db # None
       /\ \/ Pour(w, "r_load", "r_fed", "load", file[w], file[w])
          \/ Spill(w, "r_load", "failed", "load", file[w])
    \/ Fails(w, "r_load", "pg" \notin stack \/ db = None, "failed")

\* Mutant: nobody waits for psql.
LoadUnawaited(w) == Ok(w, "r_loaded", "r_auth") /\ UNCHANGED <<host, test, pipe, flaw>>

AwaitGunzip(w) == AwaitProducer(w, "r_fed", "r_loaded", "failed")
AwaitLoad(w) == AwaitPsql(w, "r_loaded", "r_auth", "failed")

\* The grants are given with ON_ERROR_STOP, so the auth schema has to be there;
\* of a database loaded in part it may be.
FixAuthPermissions(w) ==
    /\ \/ "pg" \in stack /\ db \in Contents \cup {Partial}
            /\ Ok(w, "r_auth", "r_files")
       \/ ("pg" \notin stack \/ db \notin Contents) /\ Ok(w, "r_auth", "failed")
       \/ Bad(w, "r_auth", "failed")
    /\ UNCHANGED <<host, test, pipe, flaw>>

\* The download of the archive and gunzip | docker cp
RestoreStorage(w) == CopyFiles(w, "r_files", "r_restart")

RestartInstance(w) ==
    /\ \/ Ok(w, "r_restart", "r_health") /\ stack' = Running /\ EvictAll
       \/ Bad(w, "r_restart", "failed") /\ \E s \in SUBSET Running : Switch(s)
    /\ UNCHANGED <<db, own, store, meta, test, flaw>>

\* isInstanceHealthy: `ps` lists something, and nothing that has exited.
HealthCheck(w) ==
    /\ \/ stack # {} /\ Ok(w, "r_health", "ok")
       \/ stack # Running /\ Ok(w, "r_health", "failed")
       \/ Bad(w, "r_health", "failed")
    /\ UNCHANGED <<host, test, pipe, flaw>>

RestoreStep(w) ==
    \/ ValidateForRestore(w) \/ DownloadToRestore(w) \/ ChecksumToRestore(w)
    \/ StopInstance(w) \/ FindPostgres(w) \/ DropDatabase(w) \/ CreateDatabase(w)
    \/ StartLoad(w) \/ AwaitGunzip(w) \/ AwaitLoad(w) \/ FixAuthPermissions(w)
    \/ RestoreStorage(w) \/ RestartInstance(w) \/ HealthCheck(w)
-----------------------------------------------------------------------------
(* Verify                                                                    *)
DownloadToVerify(w) == Download(w, "v_download", "v_sum")

ChecksumToVerify(w) ==
    Pass(w, "v_sum", job[w].sum \in {None, file[w]}, "v_gzip", "failed")

DeepOrEnd(w) == IF job[w].deep THEN "v_create" ELSE "ok"

\* Mutant: the header alone is looked at, and a torn archive has one as well.
HeaderOnly(w) == Pass(w, "v_gzip", TRUE, DeepOrEnd(w), "failed")

\* gzip -t, and something like the header of a dump.
GzipIntegrity(w) == Pass(w, "v_gzip", file[w].whole, DeepOrEnd(w), "failed")

CreateTestDatabase(w) ==
    /\ \/ Reachable /\ Ok(w, "v_create", "v_load")
            /\ test' = [test EXCEPT ![w] = Empty]
       \/ ~Reachable /\ Ok(w, "v_create", "failed") /\ UNCHANGED test
       \/ Bad(w, "v_create", "failed") /\ UNCHANGED test
    /\ UNCHANGED <<host, pipe, flaw>>

\* gunzip | psql into the test database; from here on it is dropped at the end.
StartTestLoad(w) ==
    \/ /\ "pg" \in stack
       /\ \/ Pour(w, "v_load", "v_fed", "test", file[w], file[w])
          \/ Spill(w, "v_load", "v_failed", "test", file[w])
    \/ Fails(w, "v_load", "pg" \notin stack, "v_failed")

AwaitTestGunzip(w) == AwaitProducer(w, "v_fed", "v_loaded", "v_failed")
AwaitTestLoad(w)   == AwaitPsql(w, "v_loaded", "v_sane", "v_failed")

\* runSanityChecks: there is a table.
SanityChecks(w) ==
    /\ \/ "pg" \in stack /\ test[w] # Empty /\ Ok(w, "v_sane", "v_ok")
       \/ ("pg" \notin stack \/ test[w] \notin Contents) /\ Ok(w, "v_sane", "v_failed")
       \/ Bad(w, "v_sane", "v_failed")
    /\ UNCHANGED <<host, test, pipe, flaw>>

\* Best effort: a psql that still loads it keeps the test database.
DropTestDatabase(w) ==
    \E r \in {"ok", "failed"} :
        LET l == IF r = "ok" THEN "v_ok" ELSE "v_failed" IN
        /\ \/ /\ Ok(w, l, r)
              /\ test' = IF Reachable /\ pipe[w].cons # "run"
                         THEN [test EXCEPT ![w] = None] ELSE test
           \/ Bad(w, l, r) /\ UNCHANGED test
        /\ UNCHANGED <<host, pipe, flaw>>

VerifyStep(w) ==
    \/ DownloadToVerify(w) \/ ChecksumToVerify(w) \/ GzipIntegrity(w)
    \/ CreateTestDatabase(w) \/ StartTestLoad(w) \/ AwaitTestGunzip(w)
    \/ AwaitTestLoad(w) \/ SanityChecks(w) \/ DropTestDatabase(w)
-----------------------------------------------------------------------------
\* A running instance, with or without a backup in the store, intact or damaged.
Init ==
    /\ db \in Contents /\ stack = Running /\ own \in BOOLEAN
    /\ meta \in {None} \cup [of : Contents, whole : {TRUE}]
    /\ store \in {meta} \cup (IF meta = None THEN {} ELSE {[meta EXCEPT !.whole = FALSE]})
    /\ pc = [w \in Workers |-> "idle"]
    /\ job = [w \in Workers |-> NoJob]
    /\ file = [w \in Workers |-> None]
    /\ test = [w \in Workers |-> None]
    /\ pipe = [w \in Workers |-> NoPipe]
    /\ jobs = 0
    /\ faults = 0
    /\ hit = [w \in Workers |-> FALSE]
    /\ alone = [w \in Workers |-> TRUE]
    /\ flaw = [w \in Workers |-> FALSE]

Next ==
    \/ \E w \in Workers :
          \/ BeginBackup(w) \/ BeginRestore(w) \/ BeginVerify(w) \/ Kill(w)
          \/ BackupStep(w) \/ RestoreStep(w) \/ VerifyStep(w)
          \/ Flow(w) \/ ProducerDies(w) \/ ConsumerDies(w)
    \/ Use

Spec == Init /\ [][Next]_vars
-----------------------------------------------------------------------------
HostOK ==
    /\ db \in Bases \cup {None}
    /\ stack \in SUBSET Running /\ own \in BOOLEAN
    /\ store \in Dumps \cup {None} /\ meta \in Dumps \cup {None}

Jobs == {NoJob} \cup BackupJobs \cup RestoreJobs(Dumps \cup {None})
                \cup VerifyJobs(Dumps \cup {None})

ControlOK ==
    /\ pc \in [Workers -> Labels]
    /\ job \in [Workers -> Jobs]
    /\ file \in [Workers -> Dumps \cup {None}]
    /\ jobs \in 0..MaxJobs
    /\ faults \in 0..MaxFaults /\ hit \in [Workers -> BOOLEAN]
    /\ alone \in [Workers -> BOOLEAN]

PipeOK ==
    /\ test \in [Workers -> Bases \cup {None}]
    /\ pipe \in [Workers -> Pipes]
    /\ flaw \in [Workers -> BOOLEAN]

TypeOK == HostOK /\ ControlOK /\ PipeOK

\* Job w of kind k ends in this step with result r.
Ends(w, k, r) == job[w].kind = k /\ pc[w] \notin Idle /\ pc'[w] = r

\* A backup goes on to report what it has uploaded (backup.go:190-201) only if
\* that is the whole of what the database held as the dump began, though pg_dump
\* may fail with gzip content, gzip may fail with pg_dump content, and restores
\* run beside it; and the checksum it reports is of that.
BackupIsWhole ==
    [][\A w \in Workers :
          pc[w] = "b_upload" /\ pc'[w] = "b_files" /\ job[w].url =>
              store' = [of |-> pipe[w].src.of, whole |-> TRUE] /\ meta' = store']_vars

\* A backup that reports success (backup.go:193) has its dump in the store or, if
\* there is no upload URL, in its local file.
BackupIsKept ==
    [][\A w \in Workers : Ends(w, "backup", "ok") =>
          job[w].url \/ file'[w] # None]_vars

\* The database is given up only for a backup that has been downloaded and, with
\* VerifyChecksum and a checksum to compare with, is the one that was asked for
\* (backup.go:306-327 before :374): whatever was downloaded instead is noticed
\* while the database is still there.
DroppedForTheRightBackup ==
    [][\A w \in Workers :
          pc[w] = "r_drop" /\ db # None /\ db' = None =>
              file[w] # None /\ (Checked(job[w]) => job[w].sum = file[w])]_vars

\* A restore that reports success (backup.go:515) runs every service on what the
\* backup holds, unless psql skipped a statement or died without a word that
\* Restore looks for (backup.go:425-435).
RestoreIsFaithful ==
    [][\A w \in Workers : job[w].kind = "restore" /\ alone[w] =>
          /\ pc[w] = "r_restart" /\ pc'[w] = "r_health" =>
                 db = file[w].of \/ (flaw[w] /\ db \in {file[w].of, Partial})
          /\ Ends(w, "restore", "ok") => stack = Running /\ db # None]_vars

\* A restore can be repeated: whatever earlier ones left behind, dropped, empty or
\* loaded in part, stopped or not, one that meets no failure and has the whole
\* backup of a real database it asks for fails nowhere but at the drop, leaving the
\* database as it was: if psql, given no -d, connects to the database it is to drop
\* (backup.go:374), or if the services run and it was not to stop them (:330).
RestoreCanBeRepeated ==
    [][\A w \in Workers :
          /\ Ends(w, "restore", "failed") /\ alone[w] /\ ~hit'[w]
          /\ file[w] \in [of : Contents, whole : {TRUE}]
          /\ Checked(job[w]) => job[w].sum = file[w]
          => /\ pc[w] = "r_drop" /\ db' = db
             /\ own \/ (stack = Running /\ ~job[w].stop)]_vars

\* A verification that reports success (verify.go:137) was of a whole archive, of
\* the backup that was asked for, and, if it loaded it, of a database with
\* something in it.
VerifiedIsRestorable ==
    [][\A w \in Workers : pc[w] \in {"v_gzip", "v_ok"} /\ pc'[w] = "ok" =>
          /\ file[w].whole /\ job[w].sum \in {None, file[w]}
          /\ job[w].deep /\ ~flaw[w] => file[w].of # Empty]_vars

\* No job waits for ever, unless a download stalls, or the second command of a
\* pipeline dies with more than a pipe-full to come: the agent waits for the
\* first, which waits for somebody to read (backup.go:136, 412, verify.go:257).
\* As no step of a job repeats, a job that is not stuck ends.
NoJobStuck ==
    \A w \in Workers :
        pc[w] \notin Idle \cup {"hung"} =>
            Blocked(w) \/ ENABLED (BackupStep(w) \/ RestoreStep(w) \/ VerifyStep(w) \/ Flow(w))
=============================================================================
