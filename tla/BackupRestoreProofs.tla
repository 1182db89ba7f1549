------------------------- MODULE BackupRestoreProofs -------------------------
(* Proofs about BackupRestore, for any workers, contents, sizes of a dump,   *)
(* jobs and faults.                                                          *)
EXTENDS BackupRestore, FiniteSetTheorems, TLAPS

Files == Dumps \cup {None}

LEMMA Hitting ==
    ASSUME ControlOK, NEW w \in Workers, Hit(w)
    PROVE  faults' \in 0..MaxFaults /\ hit' \in [Workers -> BOOLEAN]
BY DumpAssumption DEF ControlOK, Hit

LEMMA Proceeding ==
    ASSUME ControlOK, NEW w \in Workers, NEW l \in Labels, NEW l2 \in Labels,
           NEW f \in Files, Proceed(w, l, l2, f),
           UNCHANGED <<faults, hit>> \/ Hit(w)
    PROVE  ControlOK'
<1> USE DEF ControlOK
<1>1. faults' \in 0..MaxFaults /\ hit' \in [Workers -> BOOLEAN]
  BY Hitting
<1>2. file' \in [Workers -> Files]
  BY DEF Proceed, Files
<1>3. job' \in [Workers -> Jobs]
  <2>1. CASE l2 \in Idle
    <3>1. job' = [job EXCEPT ![w] = NoJob]
      BY <2>1 DEF Proceed
    <3>2. NoJob \in Jobs
      BY DEF Jobs
    <3> QED
      BY <3>1, <3>2
  <2>2. CASE l2 \notin Idle
    BY <2>2 DEF Proceed
  <2> QED
    BY <2>1, <2>2
<1>4. pc' \in [Workers -> Labels] /\ jobs' = jobs /\ alone' = alone
  BY DEF Proceed
<1> QED
  BY <1>1, <1>2, <1>3, <1>4 DEF Files

LEMMA Control ==
    ASSUME ControlOK, NEW w \in Workers, NEW l \in Labels, NEW l2 \in Labels,
           Ok(w, l, l2) \/ Bad(w, l, l2)
    PROVE  ControlOK'
<1>1. file[w] \in Files
  BY DEF ControlOK, Files
<1> QED
  BY <1>1, Proceeding DEF Ok, Bad

\* A step that changes only where a job is.
LEMMA Walking ==
    ASSUME TypeOK, NEW w \in Workers, NEW l \in Labels, NEW l2 \in Labels,
           Ok(w, l, l2) \/ Bad(w, l, l2), UNCHANGED <<host, test, pipe>>,
           flaw' = flaw \/ flaw' = [flaw EXCEPT ![w] = TRUE]
    PROVE  TypeOK'
<1>1. ControlOK'
  BY Control DEF TypeOK
<1>2. HostOK'
  BY DEF TypeOK, HostOK, host
<1>3. flaw' \in [Workers -> BOOLEAN]
  BY DEF TypeOK, PipeOK
<1> QED
  BY <1>1, <1>2, <1>3 DEF TypeOK, PipeOK

LEMMA StartedOK ==
    ASSUME NEW what \in {"dump", "load", "test"}, NEW src \in Files
    PROVE  Started(what, src) \in Pipes
<1>1. (IF src.whole THEN Chunks ELSE Chunks - 1) \in 0..Chunks
  BY DumpAssumption
<1> DEFINE n == IF src.whole THEN Chunks ELSE Chunks - 1
           N == 0..Chunks
<1> HIDE DEF n, N
<1>2. n \in N
  BY <1>1 DEF n, N
<1>3. Started(what, src) =
         [what |-> what, src |-> src, prod |-> "run", cons |-> "run",
          left |-> n, full |-> FALSE]
  BY DEF Started, n
<1> QED
  BY <1>2, <1>3 DEF Pipes, Files, N

LEMMA Pouring ==
    ASSUME TypeOK, NEW w \in Workers, NEW l \in Labels, NEW l2 \in Labels,
           NEW what \in {"dump", "load", "test"}, NEW src \in Files, NEW f \in Files,
           Pour(w, l, l2, what, src, f)
    PROVE  TypeOK'
<1>1. ControlOK'
  BY Proceeding DEF Pour, TypeOK
<1>2. HostOK'
  BY DEF Pour, TypeOK, HostOK, host
<1>3. PipeOK'
  BY StartedOK DEF Pour, TypeOK, PipeOK
<1> QED
  BY <1>1, <1>2, <1>3 DEF TypeOK

\* A command of a pipeline ends or hands something on.
LEMMA Changing ==
    ASSUME NEW p \in Pipes, NEW prod \in {"run", "ok", "err"},
           NEW cons \in {"run", "ok", "err"}, NEW full \in BOOLEAN
    PROVE  /\ [p EXCEPT !.prod = prod] \in Pipes
           /\ [p EXCEPT !.cons = cons] \in Pipes
           /\ [p EXCEPT !.full = full] \in Pipes
           /\ p.left > 0 => [p EXCEPT !.left = p.left - 1, !.full = full] \in Pipes
<1> DEFINE States == {"off", "run", "ok", "err"}
           N == 0..Chunks
<1>1. Pipes = [what : {"none", "dump", "load", "test"}, src : Files,
               prod : States, cons : States, left : N, full : BOOLEAN]
  BY DEF Pipes, Files
<1>2. prod \in States /\ cons \in States
  OBVIOUS
<1> HIDE DEF States
<1>3. p.left \in N
  <2> HIDE DEF N
  <2> QED
    BY <1>1
<1>4. p.left > 0 => p.left - 1 \in N
  BY <1>3, DumpAssumption
<1> HIDE DEF N
<1>5. [p EXCEPT !.prod = prod] \in Pipes
  BY <1>1, <1>2
<1>6. [p EXCEPT !.cons = cons] \in Pipes
  BY <1>1, <1>2
<1>7. [p EXCEPT !.full = full] \in Pipes
  BY <1>1
<1>8. p.left > 0 => [p EXCEPT !.left = p.left - 1, !.full = full] \in Pipes
  BY <1>1, <1>4
<1> QED
  BY <1>5, <1>6, <1>7, <1>8

\* A pipeline that only half starts.
LEMMA Spilling ==
    ASSUME TypeOK, NEW w \in Workers, NEW l \in Labels, NEW bad \in Labels,
           NEW what \in {"dump", "load", "test"}, NEW src \in Files,
           Spill(w, l, bad, what, src)
    PROVE  TypeOK'
<1> DEFINE s == Started(what, src)
           q == [s EXCEPT !.cons = "err"]
<1>1. ControlOK'
  BY Control DEF Spill, TypeOK
<1>2. HostOK'
  BY DEF Spill, TypeOK, HostOK, host
<1>3. q \in Pipes
  <2>1. s \in Pipes
    BY StartedOK
  <2> HIDE DEF s
  <2> QED
    BY <2>1, Changing
<1>4. PipeOK'
  <2>1. pipe' = [pipe EXCEPT ![w] = q] /\ UNCHANGED <<test, flaw>>
    BY DEF Spill
  <2> QED
    BY <1>3, <2>1 DEF TypeOK, PipeOK
<1> QED
  BY <1>1, <1>2, <1>4 DEF TypeOK

LEMMA Passing ==
    ASSUME TypeOK, NEW w \in Workers, NEW l \in Labels, NEW cond,
           NEW good \in Labels, NEW bad \in Labels,
           Pass(w, l, cond, good, bad) \/ Fails(w, l, cond, bad)
    PROVE  TypeOK'
<1>1. \E l2 \in {good, bad} : Ok(w, l, l2) \/ Bad(w, l, l2)
  BY DEF Pass, Fails
<1>2. UNCHANGED <<host, test, pipe, flaw>>
  BY DEF Pass, Fails
<1> QED
  BY <1>1, <1>2, Walking

LEMMA Awaiting ==
    ASSUME TypeOK, NEW w \in Workers, NEW l \in Labels, NEW good \in Labels,
           NEW bad \in Labels,
           AwaitProducer(w, l, good, bad) \/ AwaitPsql(w, l, good, bad)
    PROVE  TypeOK'
<1>1. \E l2 \in {good, bad} : Ok(w, l, l2)
  BY DEF AwaitProducer, AwaitPsql, AwaitConsumer
<1>2. /\ UNCHANGED <<host, test, pipe>>
      /\ flaw' = flaw \/ flaw' = [flaw EXCEPT ![w] = TRUE]
  BY DEF AwaitProducer, AwaitPsql, AwaitConsumer
<1> QED
  BY <1>1, <1>2, Walking

LEMMA Copying ==
    ASSUME TypeOK, NEW w \in Workers, NEW l \in Labels, NEW l2 \in Labels,
           CopyFiles(w, l, l2)
    PROVE  TypeOK'
<1>1. \E m \in {l2, "hung"} : Ok(w, l, m) \/ Bad(w, l, m)
  BY DEF CopyFiles
<1> QED
  BY <1>1, Walking DEF CopyFiles, Labels

LEMMA Downloading ==
    ASSUME TypeOK, NEW w \in Workers, NEW l \in Labels, NEW l2 \in Labels,
           Download(w, l, l2)
    PROVE  TypeOK'
<1>1. CASE Ok(w, l, "failed") \/ Bad(w, l, "failed")
  BY <1>1, Walking DEF Download, Labels, Idle
<1>2. CASE Proceed(w, l, l2, store) /\ UNCHANGED <<faults, hit>>
  <2>1. ControlOK'
    BY <1>2, Proceeding DEF TypeOK, HostOK, Files
  <2> QED
    BY <2>1 DEF Download, TypeOK, HostOK, PipeOK, host
<1> QED
  BY <1>1, <1>2 DEF Download

LEMMA BackupSteps ==
    ASSUME TypeOK, NEW w \in Workers, BackupStep(w)
    PROVE  TypeOK'
<1> USE DEF Labels, Idle
<1>1. CASE ValidateForBackup(w) \/ ChecksumDump(w)
  BY <1>1, Passing DEF ValidateForBackup, ChecksumDump
<1>2. CASE StartDump(w)
  <2>1. CASE Fails(w, "b_dump", "pg" \notin stack \/ db = None, "failed")
    BY <2>1, Passing
  <2>2. CASE /\ db # None
             /\ \/ Pour(w, "b_dump", "b_dumped", "dump", [of |-> db, whole |-> TRUE],
                        [of |-> db, whole |-> FALSE])
                \/ Spill(w, "b_dump", "failed", "dump", [of |-> db, whole |-> TRUE])
    <3>1. \A b \in BOOLEAN : [of |-> db, whole |-> b] \in Files
      BY <2>2 DEF TypeOK, HostOK, Files, Dumps
    <3> QED
      BY <2>2, <3>1, Pouring, Spilling
  <2> QED
    BY <1>2, <2>1, <2>2 DEF StartDump
<1>3. CASE AwaitDump(w) \/ AwaitGzip(w)
  BY <1>3, Awaiting DEF AwaitDump, AwaitGzip, AwaitPsql
<1>4. CASE Upload(w)
  <2>1. Ok(w, "b_upload", "b_files") \/ Bad(w, "b_upload", "failed")
    BY <1>4 DEF Upload
  <2>2. ControlOK'
    BY <2>1, Control DEF TypeOK
  <2>3. store' \in {store, file[w]} /\ meta' \in {meta, file[w]}
    BY <1>4 DEF Upload
  <2>4. file[w] \in Files
    BY DEF TypeOK, ControlOK, Files
  <2> QED
    BY <1>4, <2>2, <2>3, <2>4 DEF Upload, TypeOK, HostOK, PipeOK, Files
<1>5. CASE BackupStorage(w)
  BY <1>5, Copying DEF BackupStorage
<1> QED
  BY <1>1, <1>2, <1>3, <1>4, <1>5 DEF BackupStep

LEMMA EvictedOK ==
    ASSUME NEW p \in Pipes
    PROVE  Evicted(p) \in Pipes
<1> DEFINE States == {"off", "run", "ok", "err"}
           N == 0..Chunks
           a == IF p.what = "dump" /\ p.prod = "run" THEN "err" ELSE p.prod
           b == IF p.what \in {"load", "test"} /\ p.cons = "run" THEN "err" ELSE p.cons
<1>1. a \in States /\ b \in States
  BY DEF Pipes
<1> HIDE DEF N, States, a, b
<1>2. Evicted(p) = [p EXCEPT !.prod = a, !.cons = b]
  BY DEF Evicted, Pipes, a, b
<1>3. Pipes = [what : {"none", "dump", "load", "test"}, src : Files,
               prod : States, cons : States, left : N, full : BOOLEAN]
  BY DEF Pipes, Files, States, N
<1> QED
  BY <1>1, <1>2, <1>3

LEMMA Switching ==
    ASSUME PipeOK, Switch(stack') \/ EvictAll
    PROVE  pipe' \in [Workers -> Pipes]
BY EvictedOK DEF Switch, EvictAll, PipeOK

\* A step that starts or stops containers.
LEMMA Composing ==
    ASSUME TypeOK, NEW w \in Workers, NEW l \in Labels, NEW l2 \in Labels,
           Ok(w, l, l2) \/ Bad(w, l, l2),
           stack' \in SUBSET Running, pipe' \in [Workers -> Pipes],
           UNCHANGED <<db, own, store, meta, test, flaw>>
    PROVE  TypeOK'
<1>1. ControlOK'
  BY Control DEF TypeOK
<1> QED
  BY <1>1 DEF TypeOK, HostOK, PipeOK

\* The checksum is looked at where it is asked for.
LEMMA Checking ==
    ASSUME NEW w, ChecksumToRestore(w)
    PROVE  Pass(w, "r_sum", Checked(job[w]) => job[w].sum = file[w], StopOrNot(w), "failed")
<1>1. CASE Checked(job[w])
  <2>1. (Checked(job[w]) => job[w].sum = file[w]) = (job[w].sum = file[w])
    BY <1>1
  <2> QED
    BY <1>1, <2>1 DEF ChecksumToRestore
<1>2. CASE ~Checked(job[w])
  BY <1>2 DEF ChecksumToRestore, Pass
<1> QED
  BY <1>1, <1>2

LEMMA RestoreSteps ==
    ASSUME TypeOK, NEW w \in Workers, RestoreStep(w)
    PROVE  TypeOK'
<1> USE DEF Labels, Idle
<1>1. CASE ValidateForRestore(w) \/ ChecksumToRestore(w)
  <2>1. StopOrNot(w) \in Labels
    BY DEF StopOrNot
  <2> QED
    BY <1>1, <2>1, Passing, Checking DEF ValidateForRestore
<1>2. CASE DownloadToRestore(w)
  BY <1>2, Downloading DEF DownloadToRestore
<1>3. CASE StopInstance(w)
  <2>1. Ok(w, "r_stop", "r_pg") \/ Bad(w, "r_stop", "failed")
    BY <1>3 DEF StopInstance
  <2>2. stack' \in SUBSET Running
    BY <1>3 DEF StopInstance, Switch, TypeOK, HostOK
  <2>3. pipe' \in [Workers -> Pipes]
    BY <1>3, Switching DEF StopInstance, TypeOK, Switch
  <2> QED
    BY <1>3, <2>1, <2>2, <2>3, Composing DEF StopInstance
<1>4. CASE FindPostgres(w)
  <2>1. Ok(w, "r_pg", "r_drop") \/ Bad(w, "r_pg", "failed")
    BY <1>4 DEF FindPostgres
  <2>2. stack' \in SUBSET Running
    BY <1>4 DEF FindPostgres, TypeOK, HostOK, Running
  <2>3. pipe' \in [Workers -> Pipes]
    BY <1>4 DEF FindPostgres, TypeOK, PipeOK
  <2> QED
    BY <1>4, <2>1, <2>2, <2>3, Composing DEF FindPostgres
<1>5. CASE DropDatabase(w) \/ CreateDatabase(w)
  <2>1. \E l \in {"r_drop", "r_create"}, l2 \in {"r_create", "r_load", "failed"} :
           Ok(w, l, l2) \/ Bad(w, l, l2)
    BY <1>5 DEF DropDatabase, CreateDatabase
  <2>2. ControlOK'
    BY <2>1, Control DEF TypeOK
  <2>3. db' \in {db, None, Empty}
    BY <1>5 DEF DropDatabase, CreateDatabase
  <2>4. UNCHANGED <<stack, own, store, meta, test, pipe, flaw>>
    BY <1>5 DEF DropDatabase, CreateDatabase
  <2> QED
    BY <2>2, <2>3, <2>4 DEF TypeOK, HostOK, PipeOK, Bases
<1>6. CASE StartLoad(w)
  <2>1. file[w] \in Files
    BY DEF TypeOK, ControlOK, Files
  <2>2. CASE Fails(w, "r_load", "pg" \notin stack \/ db = None, "failed")
    BY <2>2, Passing
  <2>3. CASE \/ Pour(w, "r_load", "r_fed", "load", file[w], file[w])
             \/ Spill(w, "r_load", "failed", "load", file[w])
    BY <2>1, <2>3, Pouring, Spilling
  <2> QED
    BY <1>6, <2>2, <2>3 DEF StartLoad
<1>7. CASE AwaitGunzip(w) \/ AwaitLoad(w)
  BY <1>7, Awaiting DEF AwaitGunzip, AwaitLoad
<1>8. CASE FixAuthPermissions(w) \/ HealthCheck(w)
  <2>1. \E l \in {"r_auth", "r_health"}, l2 \in {"r_files", "ok", "failed"} :
           Ok(w, l, l2) \/ Bad(w, l, l2)
    BY <1>8 DEF FixAuthPermissions, HealthCheck
  <2>2. UNCHANGED <<host, test, pipe, flaw>>
    BY <1>8 DEF FixAuthPermissions, HealthCheck
  <2> QED
    BY <2>1, <2>2, Walking
<1>9. CASE RestoreStorage(w)
  BY <1>9, Copying DEF RestoreStorage
<1>10. CASE RestartInstance(w)
  <2>1. Ok(w, "r_restart", "r_health") \/ Bad(w, "r_restart", "failed")
    BY <1>10 DEF RestartInstance
  <2>2. stack' \in SUBSET Running
    BY <1>10 DEF RestartInstance, Switch
  <2>3. pipe' \in [Workers -> Pipes]
    BY <1>10, Switching DEF RestartInstance, TypeOK, Switch
  <2> QED
    BY <1>10, <2>1, <2>2, <2>3, Composing DEF RestartInstance
<1> QED
  BY <1>1, <1>2, <1>3, <1>4, <1>5, <1>6, <1>7, <1>8, <1>9, <1>10 DEF RestoreStep

LEMMA VerifySteps ==
    ASSUME TypeOK, NEW w \in Workers, VerifyStep(w)
    PROVE  TypeOK'
<1> USE DEF Labels, Idle
<1>1. CASE ChecksumToVerify(w) \/ GzipIntegrity(w)
  <2>1. DeepOrEnd(w) \in Labels
    BY DEF DeepOrEnd
  <2> QED
    BY <1>1, <2>1, Passing DEF ChecksumToVerify, GzipIntegrity
<1>2. CASE DownloadToVerify(w)
  BY <1>2, Downloading DEF DownloadToVerify
<1>3. CASE CreateTestDatabase(w) \/ DropTestDatabase(w)
  <2>1. \E l \in {"v_create", "v_ok", "v_failed"}, l2 \in {"v_load", "ok", "failed"} :
           Ok(w, l, l2) \/ Bad(w, l, l2)
    BY <1>3 DEF CreateTestDatabase, DropTestDatabase
  <2>2. ControlOK'
    BY <2>1, Control DEF TypeOK
  <2>3. test' \in {test, [test EXCEPT ![w] = Empty], [test EXCEPT ![w] = None]}
    BY <1>3 DEF CreateTestDatabase, DropTestDatabase
  <2>4. UNCHANGED <<host, pipe, flaw>>
    BY <1>3 DEF CreateTestDatabase, DropTestDatabase
  <2>5. HostOK'
    BY <2>4 DEF TypeOK, HostOK, host
  <2>6. PipeOK'
    BY <2>3, <2>4 DEF TypeOK, PipeOK, Bases
  <2> QED
    BY <2>2, <2>5, <2>6 DEF TypeOK
<1>4. CASE StartTestLoad(w)
  <2>1. file[w] \in Files
    BY DEF TypeOK, ControlOK, Files
  <2>2. CASE Fails(w, "v_load", "pg" \notin stack, "v_failed")
    BY <2>2, Passing
  <2>3. CASE \/ Pour(w, "v_load", "v_fed", "test", file[w], file[w])
             \/ Spill(w, "v_load", "v_failed", "test", file[w])
    BY <2>1, <2>3, Pouring, Spilling
  <2> QED
    BY <1>4, <2>2, <2>3 DEF StartTestLoad
<1>5. CASE AwaitTestGunzip(w) \/ AwaitTestLoad(w)
  BY <1>5, Awaiting DEF AwaitTestGunzip, AwaitTestLoad
<1>6. CASE SanityChecks(w)
  <2>1. \E l2 \in {"v_ok", "v_failed"} : Ok(w, "v_sane", l2) \/ Bad(w, "v_sane", l2)
    BY <1>6 DEF SanityChecks
  <2>2. UNCHANGED <<host, test, pipe, flaw>>
    BY <1>6 DEF SanityChecks
  <2> QED
    BY <2>1, <2>2, Walking
<1> QED
  BY <1>1, <1>2, <1>3, <1>4, <1>5, <1>6 DEF VerifyStep

LEMMA Piping ==
    ASSUME TypeOK, NEW w \in Workers,
           Flow(w) \/ ProducerDies(w) \/ ConsumerDies(w)
    PROVE  pipe' \in [Workers -> Pipes]
<1> DEFINE p == pipe[w]
<1>1. p \in Pipes /\ pipe \in [Workers -> Pipes]
  BY DEF TypeOK, PipeOK
<1>2. \A q \in Pipes : pipe' = [pipe EXCEPT ![w] = q] => pipe' \in [Workers -> Pipes]
  BY <1>1
<1>3. CASE Produce(w)
  <2>1. pipe' = [pipe EXCEPT ![w] = [p EXCEPT !.left = p.left - 1, !.full = TRUE]]
    BY <1>1, <1>3 DEF Produce
  <2>2. p.left > 0
    BY <1>3 DEF Produce
  <2>3. [p EXCEPT !.left = p.left - 1, !.full = TRUE] \in Pipes
    BY <1>1, <2>2, Changing
  <2> QED
    BY <1>2, <2>1, <2>3
<1>4. CASE ProducerEnds(w) \/ BrokenPipe(w) \/ ProducerDies(w)
  <2>1. PICK s \in {"run", "ok", "err"} : pipe' = [pipe EXCEPT ![w].prod = s]
    BY <1>4 DEF ProducerEnds, BrokenPipe, ProducerDies
  <2>2. pipe' = [pipe EXCEPT ![w] = [p EXCEPT !.prod = s]]
    BY <1>1, <2>1
  <2>3. [p EXCEPT !.prod = s] \in Pipes
    BY <1>1, Changing
  <2> QED
    BY <1>2, <2>2, <2>3
<1>5. CASE Consume(w)
  <2>1. pipe' = [pipe EXCEPT ![w] = [p EXCEPT !.full = FALSE]]
    BY <1>1, <1>5 DEF Consume
  <2>2. [p EXCEPT !.full = FALSE] \in Pipes
    BY <1>1, Changing
  <2> QED
    BY <1>2, <2>1, <2>2
<1>6. CASE ConsumerEnds(w) \/ ConsumerDies(w)
  <2>1. PICK s \in {"run", "ok", "err"} : pipe' = [pipe EXCEPT ![w].cons = s]
    BY <1>6 DEF ConsumerEnds, ConsumerDies
  <2>2. pipe' = [pipe EXCEPT ![w] = [p EXCEPT !.cons = s]]
    BY <1>1, <2>1
  <2>3. [p EXCEPT !.cons = s] \in Pipes
    BY <1>1, Changing
  <2> QED
    BY <1>2, <2>2, <2>3
<1> QED
  BY <1>3, <1>4, <1>5, <1>6 DEF Flow

LEMMA Sinking ==
    ASSUME TypeOK, NEW w \in Workers, NEW base \in Bases, NEW whole \in BOOLEAN,
           Sink(w, base, whole)
    PROVE  /\ HostOK'
           /\ file' \in [Workers -> Files]
           /\ test' \in [Workers -> Bases \cup {None}]
<1>1. HostOK'
  BY DEF Sink, TypeOK, HostOK
<1>2. file' \in [Workers -> Files]
  <2>1. file \in [Workers -> Files]
    BY DEF TypeOK, ControlOK, Files
  <2>2. file[w] # None => [file[w] EXCEPT !.whole = whole] \in Dumps
    BY <2>1 DEF Files, Dumps
  <2> QED
    BY <2>1, <2>2 DEF Sink, Files
<1>3. test' \in [Workers -> Bases \cup {None}]
  BY DEF Sink, TypeOK, PipeOK
<1> QED
  BY <1>1, <1>2, <1>3

LEMMA Flowing ==
    ASSUME TypeOK, NEW w \in Workers,
           Flow(w) \/ ProducerDies(w) \/ ConsumerDies(w)
    PROVE  TypeOK'
<1>1. pipe' \in [Workers -> Pipes]
  BY Piping
<1>2. UNCHANGED <<pc, job, jobs, alone>>
  BY DEF Flow, Produce, ProducerEnds, BrokenPipe, Consume, ConsumerEnds,
         ProducerDies, ConsumerDies, others
<1>3. faults' \in 0..MaxFaults /\ hit' \in [Workers -> BOOLEAN]
  <2>1. UNCHANGED <<faults, hit>> \/ Hit(w)
    BY DEF Flow, Produce, ProducerEnds, BrokenPipe, Consume, ConsumerEnds,
           ProducerDies, ConsumerDies, others
  <2> QED
    BY <2>1, Hitting DEF TypeOK, ControlOK
<1>4. flaw' \in [Workers -> BOOLEAN]
  <2>1. flaw' = flaw \/ flaw' = [flaw EXCEPT ![w] = TRUE]
    BY DEF Flow, Produce, ProducerEnds, BrokenPipe, Consume, ConsumerEnds,
           ProducerDies, ConsumerDies, others
  <2> QED
    BY <2>1 DEF TypeOK, PipeOK
<1>5. /\ HostOK'
      /\ file' \in [Workers -> Files]
      /\ test' \in [Workers -> Bases \cup {None}]
  <2>1. CASE Consume(w)
    <3>1. Sink(w, Partial, FALSE)
      BY <2>1 DEF Consume
    <3> QED
      BY <3>1, Sinking DEF Bases
  <2>2. CASE ConsumerEnds(w)
    <3>1. CASE Sink(w, Partial, FALSE)
      BY <3>1, Sinking DEF Bases
    <3>2. CASE Sink(w, IF Complete(pipe[w]) THEN pipe[w].src.of ELSE Partial,
                    Complete(pipe[w]))
      <4>1. CASE ~Complete(pipe[w])
        <5>1. Sink(w, Partial, FALSE)
          <6>1. Complete(pipe[w]) = FALSE
            BY <4>1 DEF Complete
          <6>2. (IF Complete(pipe[w]) THEN pipe[w].src.of ELSE Partial) = Partial
            BY <4>1
          <6> QED
            BY <3>2, <6>1, <6>2
        <5> QED
          BY <5>1, Sinking DEF Bases
      <4>2. CASE Complete(pipe[w])
        <5>1. pipe[w].src.of \in Bases
          BY <4>2 DEF Complete, TypeOK, PipeOK, Pipes, Dumps
        <5>2. Sink(w, pipe[w].src.of, TRUE)
          <6>1. Complete(pipe[w]) = TRUE
            BY <4>2 DEF Complete
          <6>2. (IF Complete(pipe[w]) THEN pipe[w].src.of ELSE Partial) = pipe[w].src.of
            BY <4>2
          <6> QED
            BY <3>2, <6>1, <6>2
        <5> QED
          BY <5>1, <5>2, Sinking
      <4> QED
        BY <4>1, <4>2
    <3> QED
      BY <2>2, <3>1, <3>2 DEF ConsumerEnds
  <2>3. CASE UNCHANGED <<host, file, test>>
    BY <2>3 DEF TypeOK, HostOK, ControlOK, PipeOK, host, Files
  <2> QED
    BY <2>1, <2>2, <2>3 DEF Flow, Produce, ProducerEnds, BrokenPipe,
           ProducerDies, ConsumerDies
<1> QED
  BY <1>1, <1>2, <1>3, <1>4, <1>5 DEF TypeOK, ControlOK, PipeOK, Files

\* A job begins, and so does its knowledge of itself.
LEMMA Beginning ==
    ASSUME TypeOK, NEW w \in Workers, NEW j \in Jobs, NEW l \in Labels,
           Begin(w, j, l)
    PROVE  TypeOK'
<1>1. HostOK'
  BY DEF Begin, TypeOK, HostOK, host
<1>2. ControlOK'
  <2>1. jobs' \in 0..MaxJobs
    BY DumpAssumption DEF Begin, TypeOK, ControlOK
  <2>2. alone' \in [Workers -> BOOLEAN]
    <3>1. \A v \in Workers :
             (IF v = w THEN {u \in Workers \ {w} : Busy(u)} = {}
              ELSE alone[v] /\ v \notin {u \in Workers \ {w} : Busy(u)}) \in BOOLEAN
      OBVIOUS
    <3> QED
      BY <3>1, Zenon DEF Begin
  <2>3. /\ pc' \in [Workers -> Labels] /\ job' \in [Workers -> Jobs]
        /\ hit' \in [Workers -> BOOLEAN] /\ UNCHANGED <<file, faults>>
    BY DEF Begin, TypeOK, ControlOK
  <2> QED
    BY <2>1, <2>2, <2>3 DEF TypeOK, ControlOK
<1>3. PipeOK'
  <2>1. NoPipe \in Pipes
    <3> DEFINE N == 0..Chunks
    <3>1. 0 \in N
      BY DumpAssumption
    <3> HIDE DEF N
    <3> QED
      BY <3>1 DEF NoPipe, Pipes, N
  <2> QED
    BY <2>1 DEF Begin, TypeOK, PipeOK
<1> QED
  BY <1>1, <1>2, <1>3 DEF TypeOK

LEMMA NextTypes ==
    ASSUME TypeOK, [Next]_vars
    PROVE  TypeOK'
<1> USE DEF Labels, Idle
<1>1. ASSUME NEW w \in Workers,
             BeginBackup(w) \/ BeginRestore(w) \/ BeginVerify(w)
      PROVE  TypeOK'
  <2>1. \E j \in Jobs, l \in {"b_check", "r_check", "v_download"} : Begin(w, j, l)
    <3>1. {None, meta} \subseteq Dumps \cup {None}
      BY DEF TypeOK, HostOK
    <3>2. /\ RestoreJobs({None, meta}) \subseteq Jobs
          /\ VerifyJobs({None, meta}) \subseteq Jobs
          /\ BackupJobs \subseteq Jobs
      BY <3>1 DEF Jobs, RestoreJobs, VerifyJobs, JobsOf
    <3> QED
      BY <1>1, <3>2 DEF BeginBackup, BeginRestore, BeginVerify
  <2> QED
    BY <2>1, Beginning
<1>2. ASSUME NEW w \in Workers, Kill(w)
      PROVE  TypeOK'
  <2>1. pc[w] \in Labels
    BY DEF TypeOK, ControlOK
  <2> QED
    BY <1>2, <2>1, Walking DEF Kill
<1>3. CASE Use
  BY <1>3 DEF Use, TypeOK, HostOK, ControlOK, PipeOK, Bases, others
<1>4. CASE UNCHANGED vars
  BY <1>4 DEF vars, host, TypeOK, HostOK, ControlOK, PipeOK
<1> QED
  BY <1>1, <1>2, <1>3, <1>4, BackupSteps, RestoreSteps, VerifySteps, Flowing DEF Next

LEMMA InitTypes == Init => TypeOK
<1> SUFFICES ASSUME Init PROVE TypeOK
  OBVIOUS
<1>1. HostOK
  BY DEF Init, HostOK, Bases, Dumps, Running
<1>2. ControlOK
  BY DumpAssumption DEF Init, ControlOK, Jobs, Labels, Idle
<1>3. PipeOK
  <2>1. NoPipe \in Pipes
    <3> DEFINE N == 0..Chunks
    <3>1. 0 \in N
      BY DumpAssumption
    <3> HIDE DEF N
    <3> QED
      BY <3>1 DEF NoPipe, Pipes, N
  <2> QED
    BY <2>1 DEF Init, PipeOK
<1> QED
  BY <1>1, <1>2, <1>3 DEF TypeOK

\* Every variable keeps its type, whatever the jobs of any number of workers do to
\* one instance.
THEOREM BackupTypes == Spec => []TypeOK
BY InitTypes, NextTypes, PTL DEF Spec
-----------------------------------------------------------------------------
(* What a job knows where it is.  Its properties follow from this about its  *)
(* own pipeline and file, whatever the other jobs do to the host.            *)
Dumped   == {"b_dumped", "b_gzipped", "b_sum", "b_upload"}
Fetched  == {"r_stop", "r_pg", "r_drop"}
Fetching == {"r_check", "r_download", "r_sum"} \cup Fetched
Verified == {"v_create", "v_load", "v_fed", "v_loaded", "v_sane", "v_ok"}
Loading  == {"v_fed", "v_loaded", "v_sane"}
Verifying == {"v_download", "v_sum", "v_gzip"} \cup Verified

\* A command that exits with 0 has seen everything; gzip, after pg_dump did, has
\* written it.  No producer runs without a consumer's having been started.
PipeSound(w) ==
    LET p == pipe[w] IN
    /\ p.prod = "ok" => p.left = 0 /\ p.src.whole
    /\ p.cons = "ok" => p.prod # "run" /\ ~p.full
    /\ p.cons = "off" => p.prod # "run"

DumpSound(w) ==
    LET p == pipe[w] IN
    /\ pc[w] \in Dumped =>
           /\ p.what = "dump" /\ p.src # None /\ file[w] # None
           /\ file[w].of = p.src.of
           /\ p.prod = "ok" /\ p.cons = "ok" => file[w].whole
    /\ pc[w] \in Dumped \ {"b_dumped"} => p.prod = "ok"
    /\ pc[w] \in {"b_sum", "b_upload"} => p.cons = "ok"

RestoreSound(w) ==
    /\ pc[w] \in Fetching => pipe[w].what # "dump"
    /\ pc[w] \in Fetched \cup {"r_sum"} => file[w] # None
    /\ pc[w] \in Fetched => (Checked(job[w]) => job[w].sum = file[w])

VerifySound(w) ==
    LET p == pipe[w] IN
    /\ pc[w] \in Verifying => p.what # "dump"
    /\ pc[w] \in Verified \cup {"v_gzip"} => job[w].sum \in {None, file[w]}
    /\ pc[w] \in Verified \cup {"v_gzip", "v_sum"} => file[w] # None
    /\ pc[w] \in Verified => file[w].whole
    /\ pc[w] \in Loading =>
           /\ p.what = "test" /\ p.src = file[w]
           /\ p.prod = "ok" /\ p.cons = "ok" /\ ~flaw[w] => test[w] = file[w].of
    /\ pc[w] \in {"v_loaded", "v_sane"} => p.prod = "ok"
    /\ pc[w] = "v_sane" => p.cons = "ok" \/ flaw[w]
    /\ pc[w] = "v_ok" => flaw[w] \/ file[w].of # Empty

Sound(w) == PipeSound(w) /\ DumpSound(w) /\ RestoreSound(w) /\ VerifySound(w)
IInv == TypeOK /\ \A w \in Workers : Sound(w)

\* What a step of another job leaves of job v, but that its pipeline may lose a
\* command to a stopped container.
Apart(v) ==
    /\ pc'[v] = pc[v] /\ job'[v] = job[v] /\ file'[v] = file[v]
    /\ test'[v] = test[v] /\ flaw'[v] = flaw[v]
    /\ pipe'[v] \in {pipe[v], Evicted(pipe[v])}

LEMMA Evicting ==
    ASSUME NEW p \in Pipes
    PROVE  LET q == Evicted(p) IN
           /\ q.what = p.what /\ q.src = p.src /\ q.left = p.left /\ q.full = p.full
           /\ q.prod = p.prod \/ (p.prod = "run" /\ q.prod = "err")
           /\ q.cons = p.cons \/ (p.cons = "run" /\ q.cons = "err")
BY DEF Evicted, Pipes

LEMMA Frame ==
    ASSUME TypeOK, NEW v \in Workers, Sound(v), Apart(v)
    PROVE  Sound(v)'
<1>1. pipe[v] \in Pipes
  BY DEF TypeOK, PipeOK
<1> DEFINE p == pipe[v]
           q == pipe'[v]
<1>2. /\ q.what = p.what /\ q.src = p.src /\ q.left = p.left /\ q.full = p.full
      /\ q.prod = p.prod \/ (p.prod = "run" /\ q.prod = "err")
      /\ q.cons = p.cons \/ (p.cons = "run" /\ q.cons = "err")
  BY <1>1, Evicting DEF Apart
<1>3. PipeSound(v)'
  BY <1>2 DEF Sound, PipeSound
<1>4. DumpSound(v)'
  BY <1>2 DEF Sound, DumpSound, Apart
<1>5. RestoreSound(v)'
  BY <1>2 DEF Sound, RestoreSound, Apart
<1>6. VerifySound(v)'
  BY <1>2 DEF Sound, VerifySound, Apart
<1> QED
  BY <1>3, <1>4, <1>5, <1>6 DEF Sound

\* Labels at which a job knows nothing.
Free == Labels \ (Dumped \cup Fetching \cup Verifying)

\* A step of job w from l to l2 that starts no pipeline.
LEMMA Moving ==
    ASSUME TypeOK, NEW w \in Workers, NEW l \in Labels, NEW l2 \in Labels,
           Ok(w, l, l2) \/ Bad(w, l, l2),
           \A v \in Workers : pipe'[v] \in {pipe[v], Evicted(pipe[v])},
           \A v \in Workers \ {w} : test'[v] = test[v] /\ flaw'[v] = flaw[v]
    PROVE  /\ \A v \in Workers \ {w} : Apart(v)
           /\ pc[w] = l /\ pc'[w] = l2
           /\ l2 \notin Idle => file'[w] = file[w] /\ job'[w] = job[w]
BY DEF Ok, Bad, Proceed, Apart, TypeOK, ControlOK

LEMMA Leaving ==
    ASSUME TypeOK, NEW w \in Workers, Sound(w), pc'[w] \in Free,
           pipe'[w] \in {pipe[w], Evicted(pipe[w])}
    PROVE  Sound(w)'
<1>1. pipe[w] \in Pipes
  BY DEF TypeOK, PipeOK
<1>2. PipeSound(w)'
  BY <1>1, Evicting DEF Sound, PipeSound
<1>3. DumpSound(w)'
  BY DEF DumpSound, Free, Dumped
<1>4. RestoreSound(w)'
  BY DEF RestoreSound, Free, Fetched, Fetching
<1>5. VerifySound(w)'
  BY DEF VerifySound, Free, Loading, Verified, Verifying
<1> QED
  BY <1>2, <1>3, <1>4, <1>5 DEF Sound

\* A job that fails, or goes on where it need know nothing.
LEMMA Freeing ==
    ASSUME IInv, NEW w \in Workers, NEW l \in Labels, NEW l2 \in Free,
           Ok(w, l, l2) \/ Bad(w, l, l2),
           \A v \in Workers : pipe'[v] \in {pipe[v], Evicted(pipe[v])},
           \A v \in Workers \ {w} : test'[v] = test[v] /\ flaw'[v] = flaw[v]
    PROVE  \A v \in Workers : Sound(v)'
<1>1. l2 \in Labels
  BY DEF Free
<1>2. /\ \A v \in Workers \ {w} : Apart(v)
      /\ pc'[w] = l2
  BY <1>1, Moving DEF IInv
<1> QED
  BY <1>2, Frame, Leaving DEF IInv

\* A job goes on, its file, pipeline and test database as they were.
LEMMA Advancing ==
    ASSUME IInv, NEW w \in Workers, NEW l \in Labels, NEW l2 \in Labels \ Idle,
           Ok(w, l, l2) \/ Bad(w, l, l2), UNCHANGED <<test, pipe>>,
           flaw' = flaw \/ flaw' = [flaw EXCEPT ![w] = TRUE]
    PROVE  /\ pc[w] = l /\ pc'[w] = l2 /\ Sound(w)
           /\ file'[w] = file[w] /\ job'[w] = job[w]
           /\ test'[w] = test[w] /\ pipe'[w] = pipe[w]
           /\ flaw'[w] = flaw[w] \/ flaw'[w] = TRUE
           /\ Sound(w)' => \A v \in Workers : Sound(v)'
<1>1. TypeOK
  BY DEF IInv
<1>2. /\ \A v \in Workers : pipe'[v] = pipe[v] /\ test'[v] = test[v]
      /\ \A v \in Workers \ {w} : flaw'[v] = flaw[v]
      /\ flaw'[w] = flaw[w] \/ flaw'[w] = TRUE
  BY <1>1 DEF TypeOK, PipeOK
<1>3. /\ \A v \in Workers \ {w} : Apart(v)
      /\ pc[w] = l /\ pc'[w] = l2
      /\ file'[w] = file[w] /\ job'[w] = job[w]
  BY <1>1, <1>2, Moving
<1> QED
  BY <1>1, <1>2, <1>3, Frame DEF IInv

\* One that reads only where it may fail.
LEMMA PassingOn ==
    ASSUME IInv, NEW w \in Workers, NEW l \in Labels, NEW cond,
           NEW good \in Labels, NEW bad \in Free,
           Pass(w, l, cond, good, bad) \/ Fails(w, l, cond, bad)
    PROVE  (\A v \in Workers : Sound(v)') \/ (cond /\ Ok(w, l, good))
<1>1. UNCHANGED <<test, pipe, flaw>>
  BY DEF Pass, Fails
<1>2. CASE Ok(w, l, bad) \/ Bad(w, l, bad)
  BY <1>1, <1>2, Freeing
<1>3. CASE cond /\ Ok(w, l, good)
  BY <1>3
<1> QED
  BY <1>2, <1>3 DEF Pass, Fails

\* A pipeline that starts is not known to have done anything.
LEMMA PouringOut ==
    ASSUME IInv, NEW w \in Workers, NEW l \in Labels, NEW l2 \in Labels \ Idle,
           NEW what, NEW src, NEW f,
           Pour(w, l, l2, what, src, f)
    PROVE  /\ pc[w] = l /\ pc'[w] = l2 /\ job'[w] = job[w] /\ file'[w] = f
           /\ flaw'[w] = flaw[w] /\ test'[w] = test[w]
           /\ pipe'[w].what = what /\ pipe'[w].src = src
           /\ pipe'[w].prod = "run" /\ pipe'[w].cons = "run"
           /\ PipeSound(w)'
           /\ \A v \in Workers \ {w} : Sound(v)'
<1>1. /\ TypeOK /\ \A v \in Workers : Sound(v)
  BY DEF IInv
<1>2. /\ pc[w] = l /\ pc'[w] = l2 /\ job'[w] = job[w] /\ file'[w] = f
      /\ flaw' = flaw /\ test' = test /\ pipe'[w] = Started(what, src)
  BY <1>1 DEF Pour, Proceed, TypeOK, ControlOK, PipeOK
<1>3. \A v \in Workers \ {w} : Apart(v)
  BY <1>1 DEF Pour, Proceed, Apart, TypeOK, ControlOK, PipeOK
<1>4. PipeSound(w)'
  BY <1>2 DEF PipeSound, Started
<1> QED
  BY <1>1, <1>2, <1>3, <1>4, Frame DEF Started

\* One that only half starts is not known to have done anything either.
LEMMA SpillingOut ==
    ASSUME IInv, NEW w \in Workers, NEW l \in Labels, NEW bad \in Free,
           NEW what, NEW src, Spill(w, l, bad, what, src)
    PROVE  \A v \in Workers : Sound(v)'
<1>0. /\ TypeOK /\ \A v \in Workers : Sound(v)
      /\ pc \in [Workers -> Labels] /\ pipe \in [Workers -> Pipes]
  BY DEF IInv, TypeOK, ControlOK, PipeOK
<1>1. /\ Proceed(w, l, bad, file[w]) /\ UNCHANGED <<test, flaw>>
      /\ pipe' = [pipe EXCEPT ![w] = [Started(what, src) EXCEPT !.cons = "err"]]
  BY DEF Spill, Bad
<1>2. /\ pc'[w] = bad
      /\ pipe'[w] = [Started(what, src) EXCEPT !.cons = "err"]
  BY <1>0, <1>1 DEF Proceed
<1>3. \A v \in Workers \ {w} : Apart(v)
  BY <1>0, <1>1 DEF Proceed, Apart, TypeOK, ControlOK
<1>4. PipeSound(w)'
  <2>1. pipe'[w].prod = "run" /\ pipe'[w].cons = "err"
    BY <1>2 DEF Started
  <2> QED
    BY <2>1 DEF PipeSound
<1>5. DumpSound(w)' /\ RestoreSound(w)' /\ VerifySound(w)'
  BY <1>2 DEF DumpSound, RestoreSound, VerifySound, Free, Dumped, Fetched, Fetching,
              Verified, Verifying, Loading
<1> QED
  BY <1>0, <1>3, <1>4, <1>5, Frame DEF Sound

LEMMA EndLabels ==
    /\ "ok" \in Free /\ "failed" \in Free /\ "hung" \in Free /\ "killed" \in Free
    /\ \A l \in Free : l \in Labels
BY DEF Free, Labels, Idle, Dumped, Fetched, Fetching, Verified, Verifying

LEMMA BackupLabels ==
    /\ "b_check" \in Free /\ "b_dump" \in Free /\ "b_files" \in Free
    /\ "b_dumped" \in Labels \ Idle /\ "b_gzipped" \in Labels \ Idle
    /\ "b_sum" \in Labels \ Idle /\ "b_upload" \in Labels \ Idle
BY DEF Free, Labels, Idle, Dumped, Fetched, Fetching, Verified, Verifying

LEMMA BackupSound ==
    ASSUME IInv, NEW w \in Workers, BackupStep(w)
    PROVE  \A v \in Workers : Sound(v)'
<1>1. CASE ValidateForBackup(w)
  <2>1. UNCHANGED <<test, pipe, flaw>>
    BY <1>1 DEF ValidateForBackup, Pass
  <2>2. \E l2 \in {"b_dump", "failed"} : Ok(w, "b_check", l2) \/ Bad(w, "b_check", l2)
    BY <1>1 DEF ValidateForBackup, Pass
  <2> QED
    BY <2>1, <2>2, Freeing, EndLabels, BackupLabels
<1>2. CASE StartDump(w)
  <2>1. CASE Fails(w, "b_dump", "pg" \notin stack \/ db = None, "failed")
    <3>1. UNCHANGED <<test, pipe, flaw>>
      BY <2>1 DEF Fails
    <3>2. Ok(w, "b_dump", "failed") \/ Bad(w, "b_dump", "failed")
      BY <2>1 DEF Fails
    <3> QED
      BY <3>1, <3>2, Freeing, EndLabels, BackupLabels
  <2>2. CASE /\ db # None
             /\ Pour(w, "b_dump", "b_dumped", "dump", [of |-> db, whole |-> TRUE],
                     [of |-> db, whole |-> FALSE])
    <3> DEFINE src == [of |-> db, whole |-> TRUE]
               f   == [of |-> db, whole |-> FALSE]
    <3>1. /\ pc'[w] = "b_dumped" /\ file'[w] = f
          /\ pipe'[w].what = "dump" /\ pipe'[w].src = src
          /\ pipe'[w].prod = "run" /\ pipe'[w].cons = "run"
          /\ PipeSound(w)'
          /\ \A v \in Workers \ {w} : Sound(v)'
      BY <2>2, PouringOut, EndLabels, BackupLabels
    <3>2. src # None /\ f # None
      <4>1. db \in Bases
        BY <2>2 DEF IInv, TypeOK, HostOK
      <4>2. src \in Dumps /\ f \in Dumps
        BY <4>1 DEF Dumps
      <4> QED
        BY <4>2, NoneAssumption
    <3>3. DumpSound(w)'
      BY <3>1, <3>2 DEF DumpSound
    <3>4. RestoreSound(w)' /\ VerifySound(w)'
      BY <3>1 DEF RestoreSound, VerifySound, Fetched, Fetching, Verified, Verifying, Loading
    <3> QED
      BY <3>1, <3>3, <3>4 DEF Sound
  <2>3. CASE Spill(w, "b_dump", "failed", "dump", [of |-> db, whole |-> TRUE])
    BY <2>3, SpillingOut, EndLabels, BackupLabels
  <2> QED
    BY <1>2, <2>1, <2>2, <2>3 DEF StartDump
<1>3. CASE AwaitDump(w)
  <2>1. UNCHANGED <<test, pipe, flaw>>
    BY <1>3 DEF AwaitDump, AwaitProducer
  <2>2. CASE Ok(w, "b_dumped", "failed")
    BY <2>1, <2>2, Freeing, EndLabels, BackupLabels
  <2>3. CASE pipe[w].prod = "ok" /\ Ok(w, "b_dumped", "b_gzipped")
    <3>1. /\ pc[w] = "b_dumped" /\ pc'[w] = "b_gzipped" /\ Sound(w)
          /\ file'[w] = file[w] /\ pipe'[w] = pipe[w]
          /\ Sound(w)' => \A v \in Workers : Sound(v)'
      BY <2>1, <2>3, Advancing, BackupLabels
    <3>2. PipeSound(w)'
      BY <3>1 DEF Sound, PipeSound
    <3>3. DumpSound(w)'
      BY <2>3, <3>1 DEF Sound, DumpSound, Dumped
    <3>4. RestoreSound(w)' /\ VerifySound(w)'
      BY <3>1 DEF RestoreSound, VerifySound, Fetched, Fetching, Verified, Verifying, Loading
    <3> QED
      BY <3>1, <3>2, <3>3, <3>4 DEF Sound
  <2> QED
    BY <1>3, <2>2, <2>3 DEF AwaitDump, AwaitProducer
<1>4. CASE AwaitGzip(w)
  <2>1. UNCHANGED <<test, pipe, flaw>>
    BY <1>4 DEF AwaitGzip, AwaitConsumer
  <2>2. CASE Ok(w, "b_gzipped", "failed")
    BY <2>1, <2>2, Freeing, EndLabels, BackupLabels
  <2>3. CASE pipe[w].cons = "ok" /\ Ok(w, "b_gzipped", "b_sum")
    <3>1. /\ pc[w] = "b_gzipped" /\ pc'[w] = "b_sum" /\ Sound(w)
          /\ file'[w] = file[w] /\ pipe'[w] = pipe[w]
          /\ Sound(w)' => \A v \in Workers : Sound(v)'
      BY <2>1, <2>3, Advancing, BackupLabels
    <3>2. PipeSound(w)'
      BY <3>1 DEF Sound, PipeSound
    <3>3. DumpSound(w)'
      BY <2>3, <3>1 DEF Sound, DumpSound, Dumped
    <3>4. RestoreSound(w)' /\ VerifySound(w)'
      BY <3>1 DEF RestoreSound, VerifySound, Fetched, Fetching, Verified, Verifying, Loading
    <3> QED
      BY <3>1, <3>2, <3>3, <3>4 DEF Sound
  <2> QED
    BY <1>4, <2>2, <2>3 DEF AwaitGzip, AwaitConsumer
<1>5. CASE ChecksumDump(w)
  <2>1. UNCHANGED <<test, pipe, flaw>>
    BY <1>5 DEF ChecksumDump, Pass
  <2>2. CASE Ok(w, "b_sum", "b_upload")
    <3>1. /\ pc[w] = "b_sum" /\ pc'[w] = "b_upload" /\ Sound(w)
          /\ file'[w] = file[w] /\ pipe'[w] = pipe[w]
          /\ Sound(w)' => \A v \in Workers : Sound(v)'
      BY <2>1, <2>2, Advancing, BackupLabels
    <3>2. PipeSound(w)'
      BY <3>1 DEF Sound, PipeSound
    <3>3. DumpSound(w)'
      BY <2>2, <3>1 DEF Sound, DumpSound, Dumped
    <3>4. RestoreSound(w)' /\ VerifySound(w)'
      BY <3>1 DEF RestoreSound, VerifySound, Fetched, Fetching, Verified, Verifying, Loading
    <3> QED
      BY <3>1, <3>2, <3>3, <3>4 DEF Sound
  <2> QED
    BY <1>5, <2>2, PassingOn, EndLabels, BackupLabels DEF ChecksumDump
<1>6. CASE Upload(w) \/ BackupStorage(w)
  <2>1. UNCHANGED <<test, pipe, flaw>>
    BY <1>6 DEF Upload, BackupStorage, CopyFiles
  <2>2. \E l \in {"b_upload", "b_files"}, l2 \in {"b_files", "ok", "failed", "hung"} :
           Ok(w, l, l2) \/ Bad(w, l, l2)
    BY <1>6 DEF Upload, BackupStorage, CopyFiles
  <2> QED
    BY <2>1, <2>2, Freeing, EndLabels, BackupLabels
<1> QED
  BY <1>1, <1>2, <1>3, <1>4, <1>5, <1>6 DEF BackupStep

LEMMA RestoreLabels ==
    /\ "r_create" \in Free
    /\ "r_load" \in Free /\ "r_fed" \in Free /\ "r_loaded" \in Free
    /\ "r_auth" \in Free /\ "r_files" \in Free /\ "r_restart" \in Free
    /\ "r_health" \in Free /\ "r_fed" \notin Idle
    /\ "r_check" \in Labels \ Idle /\ "r_download" \in Labels \ Idle
    /\ "r_sum" \in Labels \ Idle /\ "r_stop" \in Labels \ Idle
    /\ "r_pg" \in Labels \ Idle /\ "r_drop" \in Labels \ Idle
BY DEF Free, Labels, Idle, Dumped, Fetched, Fetching, Verified, Verifying

\* An archive arrives, and there is one.
LEMMA Arriving ==
    ASSUME IInv, NEW w \in Workers, NEW l \in Labels, NEW l2,
           <<l, l2>> \in {<<"r_download", "r_sum">>, <<"v_download", "v_sum">>},
           Download(w, l, l2)
    PROVE  \A v \in Workers : Sound(v)'
<1>1. UNCHANGED <<test, pipe, flaw>>
  BY DEF Download
<1>2. CASE Ok(w, l, "failed") \/ Bad(w, l, "failed")
  BY <1>1, <1>2, Freeing, EndLabels
<1>3. CASE store # None /\ Proceed(w, l, l2, store) /\ UNCHANGED <<faults, hit>>
  <2>0. TypeOK /\ \A v \in Workers : Sound(v)
    BY DEF IInv
  <2>1. /\ pc[w] = l /\ pc'[w] = l2 /\ file'[w] = store /\ pipe'[w] = pipe[w]
    BY <1>1, <1>3, <2>0 DEF Proceed, TypeOK, ControlOK, Idle
  <2>2. \A v \in Workers \ {w} : Apart(v)
    BY <1>1, <1>3, <2>0 DEF Proceed, Apart, TypeOK, ControlOK
  <2>3. PipeSound(w)'
    BY <2>0, <2>1 DEF Sound, PipeSound
  <2>4. DumpSound(w)' /\ RestoreSound(w)' /\ VerifySound(w)'
    BY <1>3, <2>0, <2>1
       DEF Sound, DumpSound, RestoreSound, VerifySound, Dumped, Fetched, Fetching, Verified, Verifying, Loading
  <2>5. Sound(w)'
    BY <2>3, <2>4 DEF Sound
  <2> QED
    BY <2>0, <2>2, <2>5, Frame
<1> QED
  BY <1>2, <1>3 DEF Download

LEMMA RestoreSounds ==
    ASSUME IInv, NEW w \in Workers, RestoreStep(w)
    PROVE  \A v \in Workers : Sound(v)'
<1>0. TypeOK /\ \A v \in Workers : Sound(v)
  BY DEF IInv
<1>1. CASE ValidateForRestore(w)
  <2>1. UNCHANGED <<test, pipe, flaw>>
    BY <1>1 DEF ValidateForRestore, Pass
  <2>2. CASE Ok(w, "r_check", "failed") \/ Bad(w, "r_check", "failed")
    BY <2>1, <2>2, Freeing, EndLabels, RestoreLabels
  <2>3. CASE Ok(w, "r_check", "r_download")
    <3>1. /\ pc[w] = "r_check" /\ pc'[w] = "r_download" /\ Sound(w)
          /\ pipe'[w] = pipe[w] /\ (Sound(w)' => \A v \in Workers : Sound(v)')
      BY <2>1, <2>3, Advancing, RestoreLabels
    <3>2. PipeSound(w)'
      BY <3>1 DEF Sound, PipeSound
    <3>3. RestoreSound(w)'
      BY <3>1 DEF Sound, RestoreSound, Fetching, Fetched
    <3>4. DumpSound(w)' /\ VerifySound(w)'
      BY <3>1 DEF DumpSound, VerifySound, Dumped, Verified, Verifying, Loading
    <3> QED
      BY <3>1, <3>2, <3>3, <3>4 DEF Sound
  <2> QED
    BY <1>1, <2>2, <2>3 DEF ValidateForRestore, Pass
<1>2. CASE DownloadToRestore(w)
  BY <1>2, Arriving, EndLabels, RestoreLabels DEF DownloadToRestore
<1>3. CASE ChecksumToRestore(w)
  <2> DEFINE asked == Checked(job[w]) => job[w].sum = file[w]
  <2>0. Pass(w, "r_sum", asked, StopOrNot(w), "failed")
    BY <1>3, Checking
  <2>1. UNCHANGED <<test, pipe, flaw>>
    BY <2>0 DEF Pass
  <2>2. CASE Ok(w, "r_sum", "failed") \/ Bad(w, "r_sum", "failed")
    BY <2>1, <2>2, Freeing, EndLabels, RestoreLabels
  <2>3. CASE asked /\ Ok(w, "r_sum", StopOrNot(w))
    <3> DEFINE l2 == StopOrNot(w)
    <3>1. l2 \in {"r_stop", "r_pg"} /\ l2 \in Labels \ Idle /\ "r_sum" \in Labels
      BY RestoreLabels DEF StopOrNot
    <3> HIDE DEF l2
    <3>2. Ok(w, "r_sum", l2)
      BY <2>3 DEF l2
    <3>3. /\ pc[w] = "r_sum" /\ pc'[w] = l2 /\ Sound(w)
          /\ file'[w] = file[w] /\ pipe'[w] = pipe[w] /\ job'[w] = job[w]
          /\ Sound(w)' => \A v \in Workers : Sound(v)'
      BY <2>1, <3>1, <3>2, Advancing
    <3>4. PipeSound(w)'
      BY <3>3 DEF Sound, PipeSound
    <3>5. RestoreSound(w)'
      BY <2>3, <3>1, <3>3 DEF Sound, RestoreSound, Fetched, Fetching
    <3>6. DumpSound(w)' /\ VerifySound(w)'
      BY <3>1, <3>3 DEF DumpSound, VerifySound, Dumped, Verified, Verifying, Loading
    <3> QED
      BY <3>3, <3>4, <3>5, <3>6 DEF Sound
  <2> QED
    BY <2>0, <2>2, <2>3 DEF Pass
<1>4. CASE StopInstance(w) \/ FindPostgres(w)
  <2>1. /\ \A v \in Workers : pipe'[v] \in {pipe[v], Evicted(pipe[v])}
        /\ UNCHANGED <<test, flaw>>
    BY <1>4 DEF StopInstance, FindPostgres, Switch, EvictAll
  <2>2. CASE Bad(w, "r_stop", "failed") \/ Bad(w, "r_pg", "failed")
    BY <2>1, <2>2, Freeing, EndLabels, RestoreLabels
  <2>3. ASSUME NEW l \in {"r_stop", "r_pg"}, NEW l2 \in {"r_pg", "r_drop"}, Ok(w, l, l2)
        PROVE  \A v \in Workers : Sound(v)'
    <3>1. l \in Labels /\ l2 \in Labels \ Idle
      BY RestoreLabels
    <3>2. /\ \A v \in Workers \ {w} : Apart(v)
          /\ pc[w] = l /\ pc'[w] = l2
          /\ file'[w] = file[w] /\ job'[w] = job[w]
      BY <1>0, <2>1, <2>3, <3>1, Moving
    <3>3. pipe[w] \in Pipes
      BY <1>0 DEF TypeOK, PipeOK
    <3>4. PipeSound(w)'
      BY <1>0, <2>1, <3>3, Evicting DEF Sound, PipeSound
    <3>5. RestoreSound(w)'
      <4>1. pipe'[w].what = pipe[w].what
        BY <2>1, <3>3, Evicting
      <4> QED
        BY <1>0, <3>2, <4>1 DEF Sound, RestoreSound, Fetched, Fetching
    <3>6. DumpSound(w)' /\ VerifySound(w)'
      BY <3>2 DEF DumpSound, VerifySound, Dumped, Verified, Verifying, Loading
    <3> QED
      BY <1>0, <3>2, <3>4, <3>5, <3>6, Frame DEF Sound
  <2> QED
    BY <1>4, <2>2, <2>3 DEF StopInstance, FindPostgres
<1>5. CASE DropDatabase(w) \/ CreateDatabase(w)
  <2>1. UNCHANGED <<test, pipe, flaw>>
    BY <1>5 DEF DropDatabase, CreateDatabase
  <2>2. \E l \in {"r_drop", "r_create"}, l2 \in {"r_create", "r_load", "failed"} :
           Ok(w, l, l2) \/ Bad(w, l, l2)
    BY <1>5 DEF DropDatabase, CreateDatabase
  <2> QED
    BY <2>1, <2>2, Freeing, EndLabels, RestoreLabels
<1>6. CASE StartLoad(w)
  <2>1. CASE Fails(w, "r_load", "pg" \notin stack \/ db = None, "failed")
    <3>1. UNCHANGED <<test, pipe, flaw>>
      BY <2>1 DEF Fails
    <3>2. Ok(w, "r_load", "failed") \/ Bad(w, "r_load", "failed")
      BY <2>1 DEF Fails
    <3> QED
      BY <3>1, <3>2, Freeing, EndLabels, RestoreLabels
  <2>2. CASE Pour(w, "r_load", "r_fed", "load", file[w], file[w])
    <3>1. /\ pc'[w] = "r_fed" /\ PipeSound(w)'
          /\ \A v \in Workers \ {w} : Sound(v)'
      BY <2>2, PouringOut, EndLabels, RestoreLabels
    <3>2. DumpSound(w)' /\ RestoreSound(w)' /\ VerifySound(w)'
      BY <3>1
         DEF DumpSound, RestoreSound, VerifySound, Dumped, Fetched, Fetching, Verified, Verifying, Loading
    <3> QED
      BY <3>1, <3>2 DEF Sound
  <2>3. CASE Spill(w, "r_load", "failed", "load", file[w])
    BY <2>3, SpillingOut, EndLabels, RestoreLabels
  <2> QED
    BY <1>6, <2>1, <2>2, <2>3 DEF StartLoad
<1>7. CASE AwaitGunzip(w) \/ AwaitLoad(w)
  <2>1. /\ UNCHANGED <<test, pipe>>
        /\ flaw' = flaw \/ flaw' = [flaw EXCEPT ![w] = TRUE]
    BY <1>7 DEF AwaitGunzip, AwaitLoad, AwaitProducer, AwaitPsql, AwaitConsumer
  <2>2. \E l \in {"r_fed", "r_loaded"}, l2 \in {"r_loaded", "r_auth", "failed"} :
           Ok(w, l, l2)
    BY <1>7 DEF AwaitGunzip, AwaitLoad, AwaitProducer, AwaitPsql, AwaitConsumer
  <2>3. \A v \in Workers \ {w} : flaw'[v] = flaw[v]
    BY <1>0, <2>1 DEF TypeOK, PipeOK
  <2> QED
    BY <2>1, <2>2, <2>3, Freeing, EndLabels, RestoreLabels
<1>8. CASE FixAuthPermissions(w) \/ RestoreStorage(w) \/ HealthCheck(w)
  <2>1. UNCHANGED <<test, pipe, flaw>>
    BY <1>8 DEF FixAuthPermissions, RestoreStorage, CopyFiles, HealthCheck
  <2>2. \E l \in {"r_auth", "r_files", "r_health"},
           l2 \in {"r_files", "r_restart", "ok", "failed", "hung"} :
           Ok(w, l, l2) \/ Bad(w, l, l2)
    BY <1>8 DEF FixAuthPermissions, RestoreStorage, CopyFiles, HealthCheck
  <2> QED
    BY <2>1, <2>2, Freeing, EndLabels, RestoreLabels
<1>9. CASE RestartInstance(w)
  <2>1. /\ \A v \in Workers : pipe'[v] \in {pipe[v], Evicted(pipe[v])}
        /\ UNCHANGED <<test, flaw>>
    BY <1>9 DEF RestartInstance, Switch, EvictAll
  <2>2. \E l2 \in {"r_health", "failed"} :
           Ok(w, "r_restart", l2) \/ Bad(w, "r_restart", l2)
    BY <1>9 DEF RestartInstance
  <2> QED
    BY <2>1, <2>2, Freeing, EndLabels, RestoreLabels
<1> QED
  BY <1>1, <1>2, <1>3, <1>4, <1>5, <1>6, <1>7, <1>8, <1>9 DEF RestoreStep

LEMMA VerifyLabels ==
    /\ "v_failed" \in Free /\ "v_download" \in Labels \ Idle
    /\ "v_sum" \in Labels \ Idle /\ "v_gzip" \in Labels \ Idle
    /\ "v_create" \in Labels \ Idle /\ "v_load" \in Labels \ Idle
    /\ "v_fed" \in Labels \ Idle /\ "v_loaded" \in Labels \ Idle
    /\ "v_sane" \in Labels \ Idle /\ "v_ok" \in Labels \ Idle
BY DEF Free, Labels, Idle, Dumped, Fetched, Fetching, Verified, Verifying

LEMMA VerifySounds ==
    ASSUME IInv, NEW w \in Workers, VerifyStep(w)
    PROVE  \A v \in Workers : Sound(v)'
<1>0. TypeOK /\ \A v \in Workers : Sound(v)
  BY DEF IInv
<1> USE DEF Verified, Verifying, Loading
<1>1. CASE DownloadToVerify(w)
  BY <1>1, Arriving, EndLabels, VerifyLabels DEF DownloadToVerify
<1>2. CASE ChecksumToVerify(w)
  <2>1. UNCHANGED <<test, pipe, flaw>>
    BY <1>2 DEF ChecksumToVerify, Pass
  <2>2. CASE Ok(w, "v_sum", "failed") \/ Bad(w, "v_sum", "failed")
    BY <2>1, <2>2, Freeing, EndLabels, VerifyLabels
  <2>3. CASE job[w].sum \in {None, file[w]} /\ Ok(w, "v_sum", "v_gzip")
    <3>1. /\ pc[w] = "v_sum" /\ pc'[w] = "v_gzip" /\ Sound(w)
          /\ file'[w] = file[w] /\ pipe'[w] = pipe[w] /\ job'[w] = job[w]
          /\ Sound(w)' => \A v \in Workers : Sound(v)'
      BY <2>1, <2>3, Advancing, VerifyLabels
    <3>2. PipeSound(w)'
      BY <3>1 DEF Sound, PipeSound
    <3>3. VerifySound(w)'
      BY <2>3, <3>1 DEF Sound, VerifySound
    <3>4. DumpSound(w)' /\ RestoreSound(w)'
      BY <3>1 DEF DumpSound, RestoreSound, Dumped, Fetched, Fetching
    <3> QED
      BY <3>1, <3>2, <3>3, <3>4 DEF Sound
  <2> QED
    BY <1>2, <2>2, <2>3 DEF ChecksumToVerify, Pass
<1>3. CASE GzipIntegrity(w)
  <2>1. UNCHANGED <<test, pipe, flaw>>
    BY <1>3 DEF GzipIntegrity, Pass
  <2>2. CASE Ok(w, "v_gzip", "failed") \/ Bad(w, "v_gzip", "failed") \/ Ok(w, "v_gzip", "ok")
    BY <2>1, <2>2, Freeing, EndLabels, VerifyLabels
  <2>3. CASE file[w].whole /\ Ok(w, "v_gzip", "v_create")
    <3>1. /\ pc[w] = "v_gzip" /\ pc'[w] = "v_create" /\ Sound(w)
          /\ file'[w] = file[w] /\ pipe'[w] = pipe[w] /\ job'[w] = job[w]
          /\ Sound(w)' => \A v \in Workers : Sound(v)'
      BY <2>1, <2>3, Advancing, VerifyLabels
    <3>2. PipeSound(w)'
      BY <3>1 DEF Sound, PipeSound
    <3>3. VerifySound(w)'
      BY <2>3, <3>1 DEF Sound, VerifySound
    <3>4. DumpSound(w)' /\ RestoreSound(w)'
      BY <3>1 DEF DumpSound, RestoreSound, Dumped, Fetched, Fetching
    <3> QED
      BY <3>1, <3>2, <3>3, <3>4 DEF Sound
  <2> QED
    BY <1>3, <2>2, <2>3 DEF GzipIntegrity, Pass, DeepOrEnd
<1>4. CASE CreateTestDatabase(w)
  <2>1. /\ UNCHANGED <<pipe, flaw>>
        /\ \A v \in Workers \ {w} : test'[v] = test[v]
    BY <1>0, <1>4 DEF CreateTestDatabase, TypeOK, PipeOK
  <2>2. CASE Ok(w, "v_create", "failed") \/ Bad(w, "v_create", "failed")
    BY <2>1, <2>2, Freeing, EndLabels, VerifyLabels
  <2>3. CASE Ok(w, "v_create", "v_load")
    <3>1. /\ \A v \in Workers \ {w} : Apart(v)
          /\ pc[w] = "v_create" /\ pc'[w] = "v_load"
          /\ file'[w] = file[w] /\ job'[w] = job[w] /\ pipe'[w] = pipe[w]
      BY <1>0, <2>1, <2>3, Moving, VerifyLabels
    <3>2. PipeSound(w)'
      BY <1>0, <3>1 DEF Sound, PipeSound
    <3>3. VerifySound(w)'
      BY <1>0, <3>1 DEF Sound, VerifySound
    <3>4. DumpSound(w)' /\ RestoreSound(w)'
      BY <3>1 DEF DumpSound, RestoreSound, Dumped, Fetched, Fetching
    <3> QED
      BY <1>0, <3>1, <3>2, <3>3, <3>4, Frame DEF Sound
  <2> QED
    BY <1>4, <2>2, <2>3 DEF CreateTestDatabase
<1>5. CASE StartTestLoad(w)
  <2>1. CASE Fails(w, "v_load", "pg" \notin stack, "v_failed")
    <3>1. UNCHANGED <<test, pipe, flaw>>
      BY <2>1 DEF Fails
    <3>2. Ok(w, "v_load", "v_failed") \/ Bad(w, "v_load", "v_failed")
      BY <2>1 DEF Fails
    <3> QED
      BY <3>1, <3>2, Freeing, EndLabels, VerifyLabels
  <2>2. CASE Pour(w, "v_load", "v_fed", "test", file[w], file[w])
    <3>1. /\ pc[w] = "v_load" /\ pc'[w] = "v_fed" /\ job'[w] = job[w]
          /\ file'[w] = file[w] /\ pipe'[w].what = "test" /\ pipe'[w].src = file[w]
          /\ pipe'[w].cons = "run" /\ PipeSound(w)'
          /\ \A v \in Workers \ {w} : Sound(v)'
      BY <2>2, PouringOut, EndLabels, VerifyLabels
    <3>2. VerifySound(w)'
      BY <1>0, <3>1 DEF Sound, VerifySound
    <3>3. DumpSound(w)' /\ RestoreSound(w)'
      BY <3>1 DEF DumpSound, RestoreSound, Dumped, Fetched, Fetching
    <3> QED
      BY <3>1, <3>2, <3>3 DEF Sound
  <2>3. CASE Spill(w, "v_load", "v_failed", "test", file[w])
    BY <2>3, SpillingOut, EndLabels, VerifyLabels
  <2> QED
    BY <1>5, <2>1, <2>2, <2>3 DEF StartTestLoad
<1>6. CASE AwaitTestGunzip(w)
  <2>1. UNCHANGED <<test, pipe, flaw>>
    BY <1>6 DEF AwaitTestGunzip, AwaitProducer
  <2>2. CASE Ok(w, "v_fed", "v_failed")
    BY <2>1, <2>2, Freeing, EndLabels, VerifyLabels
  <2>3. CASE pipe[w].prod = "ok" /\ Ok(w, "v_fed", "v_loaded")
    <3>1. /\ pc[w] = "v_fed" /\ pc'[w] = "v_loaded" /\ Sound(w)
          /\ file'[w] = file[w] /\ pipe'[w] = pipe[w] /\ job'[w] = job[w]
          /\ test' = test /\ flaw' = flaw
          /\ Sound(w)' => \A v \in Workers : Sound(v)'
      BY <2>1, <2>3, Advancing, VerifyLabels
    <3>2. PipeSound(w)'
      BY <3>1 DEF Sound, PipeSound
    <3>3. VerifySound(w)'
      BY <2>3, <3>1 DEF Sound, VerifySound
    <3>4. DumpSound(w)' /\ RestoreSound(w)'
      BY <3>1 DEF DumpSound, RestoreSound, Dumped, Fetched, Fetching
    <3> QED
      BY <3>1, <3>2, <3>3, <3>4 DEF Sound
  <2> QED
    BY <1>6, <2>2, <2>3 DEF AwaitTestGunzip, AwaitProducer
<1>7. CASE AwaitTestLoad(w)
  <2>1. /\ UNCHANGED <<test, pipe>>
        /\ flaw' = flaw \/ flaw' = [flaw EXCEPT ![w] = TRUE]
    BY <1>7 DEF AwaitTestLoad, AwaitPsql, AwaitConsumer
  <2>5. \A v \in Workers \ {w} : flaw'[v] = flaw[v]
    BY <1>0, <2>1 DEF TypeOK, PipeOK
  <2>2. CASE Ok(w, "v_loaded", "v_failed")
    BY <2>1, <2>2, <2>5, Freeing, EndLabels, VerifyLabels
  <2>3. CASE Ok(w, "v_loaded", "v_sane") /\ (pipe[w].cons = "ok" \/ flaw'[w])
    <3>1. /\ pc[w] = "v_loaded" /\ pc'[w] = "v_sane" /\ Sound(w)
          /\ file'[w] = file[w] /\ pipe'[w] = pipe[w] /\ job'[w] = job[w]
          /\ test'[w] = test[w] /\ (flaw'[w] = flaw[w] \/ flaw'[w] = TRUE)
          /\ Sound(w)' => \A v \in Workers : Sound(v)'
      BY <2>1, <2>3, Advancing, VerifyLabels
    <3>2. PipeSound(w)'
      BY <3>1 DEF Sound, PipeSound
    <3>3. VerifySound(w)'
      BY <2>3, <3>1 DEF Sound, VerifySound
    <3>4. DumpSound(w)' /\ RestoreSound(w)'
      BY <3>1 DEF DumpSound, RestoreSound, Dumped, Fetched, Fetching
    <3> QED
      BY <3>1, <3>2, <3>3, <3>4 DEF Sound
  <2>4. flaw \in [Workers -> BOOLEAN]
    BY <1>0 DEF TypeOK, PipeOK
  <2> QED
    BY <1>7, <2>2, <2>3, <2>4 DEF AwaitTestLoad, AwaitPsql, AwaitConsumer
<1>8. CASE SanityChecks(w)
  <2>1. UNCHANGED <<test, pipe, flaw>>
    BY <1>8 DEF SanityChecks
  <2>2. CASE Ok(w, "v_sane", "v_failed") \/ Bad(w, "v_sane", "v_failed")
    BY <2>1, <2>2, Freeing, EndLabels, VerifyLabels
  <2>3. CASE test[w] # Empty /\ Ok(w, "v_sane", "v_ok")
    <3>1. /\ pc[w] = "v_sane" /\ pc'[w] = "v_ok" /\ Sound(w)
          /\ file'[w] = file[w] /\ pipe'[w] = pipe[w] /\ job'[w] = job[w]
          /\ test' = test /\ flaw' = flaw
          /\ Sound(w)' => \A v \in Workers : Sound(v)'
      BY <2>1, <2>3, Advancing, VerifyLabels
    <3>2. PipeSound(w)'
      BY <3>1 DEF Sound, PipeSound
    <3>3. VerifySound(w)'
      BY <2>3, <3>1 DEF Sound, VerifySound
    <3>4. DumpSound(w)' /\ RestoreSound(w)'
      BY <3>1 DEF DumpSound, RestoreSound, Dumped, Fetched, Fetching
    <3> QED
      BY <3>1, <3>2, <3>3, <3>4 DEF Sound
  <2> QED
    BY <1>8, <2>2, <2>3 DEF SanityChecks
<1>9. CASE DropTestDatabase(w)
  <2>1. /\ UNCHANGED <<pipe, flaw>>
        /\ \A v \in Workers \ {w} : test'[v] = test[v]
    BY <1>0, <1>9 DEF DropTestDatabase, TypeOK, PipeOK
  <2>2. \E l \in {"v_ok", "v_failed"}, l2 \in {"ok", "failed"} :
           Ok(w, l, l2) \/ Bad(w, l, l2)
    BY <1>9 DEF DropTestDatabase
  <2> QED
    BY <2>1, <2>2, Freeing, EndLabels, VerifyLabels
<1> QED
  BY <1>1, <1>2, <1>3, <1>4, <1>5, <1>6, <1>7, <1>8, <1>9 DEF VerifyStep

\* The pipeline of a job moves on: what is known of it is kept, or comes to hold.
LEMMA FlowSounds ==
    ASSUME IInv, NEW w \in Workers,
           Flow(w) \/ ProducerDies(w) \/ ConsumerDies(w)
    PROVE  \A v \in Workers : Sound(v)'
<1> DEFINE p == pipe[w]
           q == pipe'[w]
<1>1. TypeOK /\ \A v \in Workers : Sound(v)
  BY DEF IInv
<1>2. /\ pipe \in [Workers -> Pipes] /\ test \in [Workers -> Bases \cup {None}]
      /\ file \in [Workers -> Files] /\ flaw \in [Workers -> BOOLEAN]
  BY <1>1 DEF TypeOK, ControlOK, PipeOK, Files
<1>3. pc' = pc /\ job' = job
  BY DEF Flow, Produce, ProducerEnds, BrokenPipe, Consume, ConsumerEnds,
         ProducerDies, ConsumerDies, others
<1>4. flaw' = flaw \/ flaw' = [flaw EXCEPT ![w] = TRUE]
  BY DEF Flow, Produce, ProducerEnds, BrokenPipe, Consume, ConsumerEnds,
         ProducerDies, ConsumerDies, others
<1>5. \A v \in Workers \ {w} : pipe'[v] = pipe[v]
  BY <1>2 DEF Flow, Produce, ProducerEnds, BrokenPipe, Consume, ConsumerEnds,
         ProducerDies, ConsumerDies
<1>6. \A v \in Workers \ {w} : file'[v] = file[v] /\ test'[v] = test[v]
  <2>1. UNCHANGED <<file, test>> \/ \E base, whole : Sink(w, base, whole)
    BY DEF Flow, Produce, ProducerEnds, BrokenPipe, Consume, ConsumerEnds,
           ProducerDies, ConsumerDies
  <2> QED
    BY <1>2, <2>1 DEF Sink
<1>7. \A v \in Workers \ {w} : Apart(v)
  BY <1>2, <1>3, <1>4, <1>5, <1>6 DEF Apart
<1>8. /\ q.what = p.what /\ q.src = p.src
      /\ q.prod # p.prod => p.prod = "run" /\ q.prod \in {"ok", "err"}
      /\ q.cons # p.cons => p.cons = "run" /\ q.cons \in {"ok", "err"}
      /\ q.prod = "ok" => q.left = 0 /\ q.src.whole
      /\ q.cons = "ok" => q.prod # "run" /\ ~q.full
  <2>0. p \in Pipes /\ PipeSound(w)
    BY <1>1, <1>2 DEF Sound
  <2>1. CASE Produce(w)
    BY <1>2, <2>0, <2>1 DEF Produce, Pipes, PipeSound
  <2>2. CASE ProducerEnds(w)
    <3>1. PICK s \in {"ok", "err"} :
             pipe' = [pipe EXCEPT ![w].prod = s] /\ (s = "ok" => p.src.whole)
      BY <2>2 DEF ProducerEnds
    <3> QED
      BY <1>2, <2>0, <2>2, <3>1 DEF ProducerEnds, Pipes, PipeSound
  <2>3. CASE BrokenPipe(w) \/ ProducerDies(w)
    BY <1>2, <2>0, <2>3 DEF BrokenPipe, ProducerDies, Pipes, PipeSound
  <2>4. CASE Consume(w)
    BY <1>2, <2>0, <2>4 DEF Consume, Pipes, PipeSound
  <2>5. CASE ConsumerEnds(w)
    BY <1>2, <2>0, <2>5 DEF ConsumerEnds, EndOfFile, Pipes, PipeSound
  <2>6. CASE ConsumerDies(w)
    BY <1>2, <2>0, <2>6 DEF ConsumerDies, Pipes, PipeSound
  <2> QED
    BY <2>1, <2>2, <2>3, <2>4, <2>5, <2>6 DEF Flow
<1>9. /\ file'[w] # file[w] => p.what = "dump" /\ p.cons = "run"
      /\ test'[w] # test[w] => p.what = "test" /\ p.cons = "run"
      /\ file[w] # None => file'[w] # None /\ file'[w].of = file[w].of
  <2>1. CASE UNCHANGED <<file, test>>
    BY <2>1
  <2>2. CASE p.cons = "run" /\ \E base : \E whole \in BOOLEAN : Sink(w, base, whole)
    <3>1. PICK base : \E whole \in BOOLEAN : Sink(w, base, whole)
      BY <2>2
    <3>0. PICK whole \in BOOLEAN : Sink(w, base, whole)
      BY <3>1
    <3>2. file[w] # None => file[w] \in Dumps
      BY <1>2 DEF Files
    <3>3. file[w] # None =>
             /\ [file[w] EXCEPT !.whole = whole].of = file[w].of
             /\ [file[w] EXCEPT !.whole = whole] \in Dumps
      BY <3>2 DEF Dumps
    <3>4. \/ file'[w] = file[w]
          \/ /\ p.what = "dump" /\ file[w] # None
             /\ file'[w] = [file[w] EXCEPT !.whole = whole]
      BY <1>2, <3>0 DEF Sink
    <3>5. file[w] # None => file'[w] # None /\ file'[w].of = file[w].of
      BY <3>3, <3>4, NoneAssumption
    <3>6. test'[w] # test[w] => p.what = "test"
      BY <1>2, <3>0 DEF Sink
    <3> QED
      BY <2>2, <3>4, <3>5, <3>6
  <2>3. Complete(p) \in BOOLEAN
    BY DEF Complete
  <2>4. Consume(w) \/ ConsumerEnds(w)
           => p.cons = "run" /\ \E base : \E whole \in BOOLEAN : Sink(w, base, whole)
    <3>1. ConsumerEnds(w) =>
             \/ Sink(w, IF Complete(p) THEN p.src.of ELSE Partial, Complete(p))
             \/ Sink(w, Partial, FALSE)
      BY DEF ConsumerEnds
    <3>2. ConsumerEnds(w) => \E base : \E whole \in BOOLEAN : Sink(w, base, whole)
      <4> HIDE DEF p
      <4> QED
        BY <2>3, <3>1
    <3>3. Consume(w) => Sink(w, Partial, FALSE)
      BY DEF Consume
    <3>4. Consume(w) \/ ConsumerEnds(w) => p.cons = "run"
      BY DEF Consume, ConsumerEnds
    <3> QED
      BY <3>2, <3>3, <3>4
  <2> QED
    BY <2>1, <2>2, <2>4 DEF Flow, Produce, ProducerEnds, BrokenPipe, ProducerDies,
           ConsumerDies
\* A consumer that ends well after a producer that did.
<1>10. ASSUME p.cons = "run", q.cons = "ok", q.prod = "ok", p.src # None
       PROVE  /\ p.what = "dump" /\ file[w] # None => file'[w].whole
              /\ p.what = "test" => test'[w] = p.src.of \/ flaw'[w]
  <2>0. p \in Pipes /\ PipeSound(w)
    BY <1>1, <1>2 DEF Sound
  <2>1. ConsumerEnds(w)
    <3>1. \A s \in {"ok", "err"} :
             pipe' = [pipe EXCEPT ![w].prod = s] => q.cons = p.cons
      BY <1>2, <2>0 DEF Pipes
    <3>2. ProducerEnds(w) => q.cons = p.cons
      <4>1. ProducerEnds(w) =>
               \E s \in {"ok", "err"} : pipe' = [pipe EXCEPT ![w].prod = s]
        BY DEF ProducerEnds
      <4> QED
        BY <3>1, <4>1
    <3>3. BrokenPipe(w) \/ ProducerDies(w) => q.cons = p.cons
      BY <3>1 DEF BrokenPipe, ProducerDies
    <3>4. Produce(w) \/ Consume(w) => q.cons = p.cons
      <4>1. Produce(w) => q = [p EXCEPT !.left = p.left - 1, !.full = TRUE]
        BY <1>2 DEF Produce
      <4>2. Consume(w) => q = [p EXCEPT !.full = FALSE]
        BY <1>2 DEF Consume
      <4> QED
        BY <2>0, <4>1, <4>2 DEF Pipes
    <3>5. ConsumerDies(w) => q.cons = "err"
      BY <1>2, <2>0 DEF ConsumerDies, Pipes
    <3> QED
      BY <1>10, <3>2, <3>3, <3>4, <3>5 DEF Flow
  <2>2. p.prod = "ok" /\ ~p.full
    BY <1>2, <1>10, <2>0, <2>1 DEF ConsumerEnds, EndOfFile, Pipes
  <2>3. Complete(p) = TRUE
    BY <1>10, <2>0, <2>2 DEF Complete, PipeSound
  <2>4. CASE Sink(w, p.src.of, TRUE)
    <3>1. p.what = "dump" /\ file[w] # None => file'[w].whole
      <4>1. file[w] # None => file[w] \in Dumps
        BY <1>2 DEF Files
      <4>2. p.what = "dump" /\ file[w] # None => file'[w] = [file[w] EXCEPT !.whole = TRUE]
        BY <1>2, <2>4 DEF Sink
      <4> QED
        BY <4>1, <4>2 DEF Dumps
    <3>2. p.what = "test" => test'[w] = p.src.of
      BY <1>2, <2>4 DEF Sink
    <3> QED
      BY <3>1, <3>2
  <2>5. CASE p.what \in {"load", "test"} /\ flaw' = [flaw EXCEPT ![w] = TRUE]
    BY <1>2, <2>5
  <2>6. (IF Complete(p) THEN p.src.of ELSE Partial) = p.src.of
    BY <2>3
  <2> QED
    BY <2>1, <2>3, <2>4, <2>5, <2>6 DEF ConsumerEnds
<1>11. Sound(w)
  BY <1>1
<1>12. PipeSound(w)'
  BY <1>8, <1>11 DEF Sound, PipeSound
<1>13. DumpSound(w)'
  BY <1>3, <1>8, <1>9, <1>10, <1>11 DEF Sound, PipeSound, DumpSound, Dumped
<1>14. RestoreSound(w)'
  BY <1>3, <1>8, <1>9, <1>11 DEF Sound, RestoreSound, Fetched, Fetching
<1>15. VerifySound(w)'
  BY <1>2, <1>3, <1>4, <1>8, <1>9, <1>10, <1>11
     DEF Sound, PipeSound, VerifySound, Verified, Verifying, Loading
<1> QED
  BY <1>1, <1>7, <1>12, <1>13, <1>14, <1>15, Frame DEF Sound

LEMMA InitSound == Init => \A w \in Workers : Sound(w)
BY DEF Init, Sound, PipeSound, DumpSound, RestoreSound, VerifySound, Dumped, Fetched,
       Fetching, Verified, Verifying, Loading, NoPipe

LEMMA NextSound ==
    ASSUME IInv, [Next]_vars
    PROVE  IInv'
<1>0. TypeOK /\ \A v \in Workers : Sound(v)
  BY DEF IInv
<1>1. TypeOK'
  BY <1>0, NextTypes
<1>2. ASSUME NEW w \in Workers,
             BeginBackup(w) \/ BeginRestore(w) \/ BeginVerify(w)
      PROVE  \A v \in Workers : Sound(v)'
  <2>1. PICK l \in {"b_check", "r_check", "v_download"} : \E j : Begin(w, j, l)
    BY <1>2 DEF BeginBackup, BeginRestore, BeginVerify
  <2>2. \A v \in Workers \ {w} : Apart(v)
    BY <1>0, <2>1 DEF Begin, Apart, TypeOK, ControlOK, PipeOK
  <2>3. pc'[w] = l /\ pipe'[w] = NoPipe
    BY <1>0, <2>1 DEF Begin, TypeOK, ControlOK, PipeOK
  <2>4. PipeSound(w)' /\ DumpSound(w)' /\ RestoreSound(w)' /\ VerifySound(w)'
    BY <2>3 DEF PipeSound, DumpSound, RestoreSound, VerifySound, Dumped, Fetched,
                Fetching, Verified, Verifying, Loading, NoPipe
  <2> QED
    BY <1>0, <2>2, <2>4, Frame DEF Sound
<1>3. ASSUME NEW w \in Workers, Kill(w)
      PROVE  \A v \in Workers : Sound(v)'
  <2>1. pc[w] \in Labels
    BY <1>0 DEF TypeOK, ControlOK
  <2>2. Bad(w, pc[w], "killed") /\ UNCHANGED <<test, pipe, flaw>>
    BY <1>3 DEF Kill
  <2> QED
    BY <2>1, <2>2, Freeing, EndLabels
<1>4. ASSUME Use \/ UNCHANGED vars
      PROVE  \A v \in Workers : Sound(v)'
  <2>1. \A v \in Workers : Apart(v)
    BY <1>4 DEF Use, others, vars, Apart
  <2> QED
    BY <1>0, <2>1, Frame
<1>5. \A v \in Workers : Sound(v)'
  BY <1>2, <1>3, <1>4, BackupSound, RestoreSounds, VerifySounds, FlowSounds DEF Next
<1> QED
  BY <1>1, <1>5 DEF IInv

LEMMA Soundness == Spec => []IInv
<1>1. Init => IInv
  BY InitTypes, InitSound DEF IInv
<1> QED
  BY <1>1, NextSound, PTL DEF Spec

\* A step of job w from l.
Walks(w, l) == \E l2, f : Proceed(w, l, l2, f)

LEMMA Walked ==
    ASSUME NEW w, NEW l
    PROVE  /\ \A l2 : Ok(w, l, l2) => Walks(w, l)
           /\ \A l2 : Bad(w, l, l2) => Walks(w, l)
           /\ \A l2, what, src, f : Pour(w, l, l2, what, src, f) => Walks(w, l)
           /\ \A bad, what, src : Spill(w, l, bad, what, src) => Walks(w, l)
           /\ \A cond, good, bad : Pass(w, l, cond, good, bad) => Walks(w, l)
           /\ \A cond, bad : Fails(w, l, cond, bad) => Walks(w, l)
           /\ \A good, bad : AwaitProducer(w, l, good, bad) => Walks(w, l)
           /\ \A good, bad : AwaitConsumer(w, l, good, bad) => Walks(w, l)
           /\ \A good, bad : AwaitPsql(w, l, good, bad) => Walks(w, l)
           /\ \A l2 : CopyFiles(w, l, l2) => Walks(w, l)
           /\ \A l2 : Download(w, l, l2) => Walks(w, l)
<1>1. \A l2 : Ok(w, l, l2) => Walks(w, l)
  BY DEF Ok, Walks
<1>2. \A l2 : Bad(w, l, l2) => Walks(w, l)
  BY DEF Bad, Walks
<1>3. \A l2, what, src, f : Pour(w, l, l2, what, src, f) => Walks(w, l)
  BY DEF Pour, Walks
<1>4. \A cond, good, bad : Pass(w, l, cond, good, bad) => Walks(w, l)
  BY <1>1, <1>2 DEF Pass
<1>5. \A cond, bad : Fails(w, l, cond, bad) => Walks(w, l)
  BY <1>1, <1>2 DEF Fails
<1>6. \A good, bad : AwaitProducer(w, l, good, bad) => Walks(w, l)
  BY <1>1 DEF AwaitProducer
<1>7. \A good, bad : AwaitConsumer(w, l, good, bad) => Walks(w, l)
  BY <1>1 DEF AwaitConsumer
<1>8. \A good, bad : AwaitPsql(w, l, good, bad) => Walks(w, l)
  BY <1>1, <1>7 DEF AwaitPsql
<1>9. \A l2 : CopyFiles(w, l, l2) => Walks(w, l)
  BY <1>1, <1>2 DEF CopyFiles
<1>10. \A l2 : Download(w, l, l2) => Walks(w, l)
  BY <1>1, <1>2 DEF Download, Walks
<1>11. \A bad, what, src : Spill(w, l, bad, what, src) => Walks(w, l)
  BY <1>2 DEF Spill
<1> QED
  BY <1>1, <1>2, <1>3, <1>4, <1>5, <1>6, <1>7, <1>8, <1>9, <1>10, <1>11

LEMMA BackupWalks ==
    ASSUME NEW w, BackupStep(w)
    PROVE  \/ Upload(w) /\ pc[w] = "b_upload"
           \/ \E l \in {"b_check", "b_dump", "b_dumped", "b_gzipped", "b_sum", "b_files"} :
                 Walks(w, l)
<1>1. Upload(w) => pc[w] = "b_upload"
  BY DEF Upload, Ok, Bad, Proceed
<1>2. CASE ValidateForBackup(w) \/ StartDump(w) \/ ChecksumDump(w)
  BY <1>2, Walked DEF ValidateForBackup, StartDump, ChecksumDump
<1>3. CASE AwaitDump(w) \/ AwaitGzip(w) \/ BackupStorage(w)
  BY <1>3, Walked DEF AwaitDump, AwaitGzip, BackupStorage
<1> QED
  BY <1>1, <1>2, <1>3 DEF BackupStep

LEMMA RestoreWalks ==
    ASSUME NEW w, RestoreStep(w)
    PROVE  \/ DropDatabase(w) /\ pc[w] = "r_drop"
           \/ \E l \in {"r_check", "r_download", "r_sum", "r_stop", "r_pg", "r_create",
                        "r_load", "r_fed", "r_loaded", "r_auth", "r_files", "r_restart",
                        "r_health"} : Walks(w, l)
<1>1. DropDatabase(w) => pc[w] = "r_drop"
  BY DEF DropDatabase, Ok, Bad, Proceed
<1>2. CASE ValidateForRestore(w) \/ DownloadToRestore(w) \/ ChecksumToRestore(w)
  BY <1>2, Walked, Checking DEF ValidateForRestore, DownloadToRestore
<1>3. CASE StopInstance(w) \/ FindPostgres(w) \/ CreateDatabase(w)
  BY <1>3, Walked DEF StopInstance, FindPostgres, CreateDatabase
<1>4. CASE StartLoad(w) \/ AwaitGunzip(w) \/ AwaitLoad(w)
  BY <1>4, Walked DEF StartLoad, AwaitGunzip, AwaitLoad
<1>5. CASE FixAuthPermissions(w) \/ RestoreStorage(w)
  BY <1>5, Walked DEF FixAuthPermissions, RestoreStorage
<1>6. CASE RestartInstance(w) \/ HealthCheck(w)
  BY <1>6, Walked DEF RestartInstance, HealthCheck
<1> QED
  BY <1>1, <1>2, <1>3, <1>4, <1>5, <1>6 DEF RestoreStep

LEMMA VerifyWalks ==
    ASSUME NEW w, VerifyStep(w)
    PROVE  \E l \in {"v_download", "v_sum", "v_gzip", "v_create", "v_load", "v_fed",
                     "v_loaded", "v_sane", "v_ok", "v_failed"} : Walks(w, l)
<1>1. CASE DownloadToVerify(w) \/ ChecksumToVerify(w) \/ GzipIntegrity(w)
  BY <1>1, Walked DEF DownloadToVerify, ChecksumToVerify, GzipIntegrity
<1>2. CASE CreateTestDatabase(w) \/ StartTestLoad(w)
  BY <1>2, Walked DEF CreateTestDatabase, StartTestLoad
<1>3. CASE AwaitTestGunzip(w) \/ AwaitTestLoad(w)
  BY <1>3, Walked DEF AwaitTestGunzip, AwaitTestLoad
<1>4. CASE SanityChecks(w) \/ DropTestDatabase(w)
  BY <1>4, Walked DEF SanityChecks, DropTestDatabase
<1> QED
  BY <1>1, <1>2, <1>3, <1>4 DEF VerifyStep

\* Only a job's own steps move it.
LEMMA Labelled ==
    ASSUME IInv, NEW w \in Workers, NEW v \in Workers, v # w,
           \/ BeginBackup(v) \/ BeginRestore(v) \/ BeginVerify(v) \/ Kill(v)
           \/ BackupStep(v) \/ RestoreStep(v) \/ VerifyStep(v)
           \/ Flow(v) \/ ProducerDies(v) \/ ConsumerDies(v)
    PROVE  pc'[w] = pc[w]
<1>1. pc \in [Workers -> Labels]
  BY DEF IInv, TypeOK, ControlOK
<1>2. ASSUME NEW l, Walks(v, l)
      PROVE  pc'[w] = pc[w]
  BY <1>1, <1>2 DEF Walks, Proceed
<1>3. CASE BeginBackup(v) \/ BeginRestore(v) \/ BeginVerify(v)
  BY <1>1, <1>3 DEF BeginBackup, BeginRestore, BeginVerify, Begin
<1>4. CASE Flow(v) \/ ProducerDies(v) \/ ConsumerDies(v)
  BY <1>4 DEF Flow, Produce, ProducerEnds, BrokenPipe, Consume, ConsumerEnds,
              ProducerDies, ConsumerDies, others
<1>5. CASE Upload(v) \/ DropDatabase(v) \/ Kill(v)
  BY <1>1, <1>5 DEF Upload, DropDatabase, Kill, Ok, Bad, Proceed
<1> QED
  BY <1>2, <1>3, <1>4, <1>5, BackupWalks, RestoreWalks, VerifyWalks

\* A job that is at work and moves, other than by being killed, takes a step.
LEMMA Moved ==
    ASSUME IInv, NEW w \in Workers, [Next]_vars,
           pc[w] \notin Idle, pc'[w] # pc[w], pc'[w] # "killed"
    PROVE  BackupStep(w) \/ RestoreStep(w) \/ VerifyStep(w)
<1>1. pc \in [Workers -> Labels]
  BY DEF IInv, TypeOK, ControlOK
<1>2. ~BeginBackup(w) /\ ~BeginRestore(w) /\ ~BeginVerify(w)
  BY DEF BeginBackup, BeginRestore, BeginVerify, Begin, Busy
<1>3. ~Kill(w)
  BY <1>1 DEF Kill, Bad, Proceed
<1>4. ~Flow(w) /\ ~ProducerDies(w) /\ ~ConsumerDies(w)
  BY DEF Flow, Produce, ProducerEnds, BrokenPipe, Consume, ConsumerEnds,
         ProducerDies, ConsumerDies, others
<1>5. ~Use /\ vars' # vars
  BY DEF Use, others, vars
<1> QED
  BY <1>2, <1>3, <1>4, <1>5, Labelled DEF Next

\* What is uploaded, and its checksum reported, is the whole of what the database
\* held as the dump began (backup.go:95-201).
THEOREM BackupWhole == Spec => BackupIsWhole
<1> DEFINE Body ==
        \A w \in Workers :
            pc[w] = "b_upload" /\ pc'[w] = "b_files" /\ job[w].url =>
                store' = [of |-> pipe[w].src.of, whole |-> TRUE] /\ meta' = store'
<1>1. ASSUME IInv, [Next]_vars
      PROVE  Body
  <2> SUFFICES ASSUME NEW w \in Workers,
                      pc[w] = "b_upload", pc'[w] = "b_files", job[w].url
               PROVE  store' = [of |-> pipe[w].src.of, whole |-> TRUE] /\ meta' = store'
    OBVIOUS
  <2>1. BackupStep(w) \/ RestoreStep(w) \/ VerifyStep(w)
    BY <1>1, Moved DEF Idle
  <2>2. \A l : Walks(w, l) => l = "b_upload"
    BY DEF Walks, Proceed
  <2>3. Upload(w)
    BY <2>1, <2>2, BackupWalks, RestoreWalks, VerifyWalks
  <2>4. store' = file[w] /\ meta' = file[w]
    BY <1>1, <2>3 DEF Upload, Ok, Bad, Proceed, IInv, TypeOK, ControlOK
  <2>5. DumpSound(w) /\ file[w] \in Files
    BY <1>1 DEF IInv, Sound, TypeOK, ControlOK, Files
  <2>6. file[w] \in Dumps /\ file[w].of = pipe[w].src.of /\ file[w].whole
    BY <2>5 DEF DumpSound, Dumped, Files
  <2>7. file[w] = [of |-> pipe[w].src.of, whole |-> TRUE]
    BY <2>6 DEF Dumps
  <2> QED
    BY <2>4, <2>7
<1> QED
  BY <1>1, Soundness, PTL DEF Spec, BackupIsWhole

\* A database is dropped only once the backup to restore has been downloaded and,
\* with VerifyChecksum and a checksum, compared (backup.go:306-327).
THEOREM DroppedRightly == Spec => DroppedForTheRightBackup
<1> DEFINE Body ==
        \A w \in Workers :
            pc[w] = "r_drop" /\ db # None /\ db' = None =>
                file[w] # None /\ (Checked(job[w]) => job[w].sum = file[w])
<1>1. ASSUME IInv, [Next]_vars
      PROVE  Body
  BY <1>1 DEF IInv, Sound, RestoreSound, Fetched, Fetching
<1> QED
  BY <1>1, Soundness, PTL DEF Spec, DroppedForTheRightBackup

\* A verification succeeds only on a whole archive of the backup asked for that,
\* loaded without a statement skipped, makes a database of something
\* (verify.go:62-137).
THEOREM VerifiedRestorable == Spec => VerifiedIsRestorable
<1> DEFINE Body ==
        \A w \in Workers : pc[w] \in {"v_gzip", "v_ok"} /\ pc'[w] = "ok" =>
            /\ file[w].whole /\ job[w].sum \in {None, file[w]}
            /\ job[w].deep /\ ~flaw[w] => file[w].of # Empty
<1>1. ASSUME IInv, [Next]_vars
      PROVE  Body
  <2> SUFFICES ASSUME NEW w \in Workers,
                      pc[w] \in {"v_gzip", "v_ok"}, pc'[w] = "ok"
               PROVE  /\ file[w].whole /\ job[w].sum \in {None, file[w]}
                      /\ job[w].deep /\ ~flaw[w] => file[w].of # Empty
    OBVIOUS
  <2>1. VerifySound(w)
    BY <1>1 DEF IInv, Sound
  <2>2. CASE pc[w] = "v_ok"
    BY <2>1, <2>2 DEF VerifySound, Verified
  <2>3. CASE pc[w] = "v_gzip"
    <3>1. BackupStep(w) \/ RestoreStep(w) \/ VerifyStep(w)
      BY <1>1, <2>3, Moved DEF Idle
    <3>2. \A l : Walks(w, l) => l = "v_gzip"
      BY <2>3 DEF Walks, Proceed
    <3>3. VerifyStep(w)
      BY <2>3, <3>1, <3>2, BackupWalks, RestoreWalks
    <3>4. GzipIntegrity(w)
      <4>1. ~DownloadToVerify(w) /\ ~ChecksumToVerify(w) /\ ~CreateTestDatabase(w)
        BY <2>3 DEF DownloadToVerify, Download, ChecksumToVerify, Pass,
                    CreateTestDatabase, Ok, Bad, Proceed
      <4>2. ~StartTestLoad(w) /\ ~AwaitTestGunzip(w) /\ ~AwaitTestLoad(w)
        BY <2>3 DEF StartTestLoad, Pour, Spill, Fails, AwaitTestGunzip, AwaitProducer,
                    AwaitTestLoad, AwaitPsql, AwaitConsumer, Ok, Bad, Proceed
      <4>3. ~SanityChecks(w) /\ ~DropTestDatabase(w)
        BY <2>3 DEF SanityChecks, DropTestDatabase, Ok, Bad, Proceed
      <4> QED
        BY <3>3, <4>1, <4>2, <4>3 DEF VerifyStep
    <3>5. file[w].whole /\ ~job[w].deep
      BY <1>1, <2>3, <3>4
         DEF GzipIntegrity, Pass, DeepOrEnd, Ok, Bad, Proceed, IInv, TypeOK, ControlOK
    <3> QED
      BY <2>1, <2>3, <3>5 DEF VerifySound
  <2> QED
    BY <2>2, <2>3
<1> QED
  BY <1>1, Soundness, PTL DEF Spec, VerifiedIsRestorable
-----------------------------------------------------------------------------
(* What is known of a restore beside which nothing else runs.                *)
Restoring == {"r_check", "r_download", "r_sum", "r_stop", "r_pg", "r_drop", "r_create",
              "r_load", "r_fed", "r_loaded", "r_auth", "r_files", "r_restart", "r_health"}
Replacing == {"r_create", "r_load", "r_fed", "r_loaded", "r_auth", "r_files", "r_restart"}

\* Beside a job that is alone nothing is under way.
Solo == \A v, w \in Workers : v # w /\ alone[w] /\ Busy(w) => ~Busy(v)

\* Where a restore may be, and when a job has no file yet.
Placed(w) ==
    /\ job[w].kind = "restore" => pc[w] \in Restoring \cup {"hung"}
    /\ pc[w] \in Idle \cup {"r_check", "r_download"} => file[w] = None

\* Its file is there once it is downloaded, and its pipeline runs only while it loads.
Still(w) ==
    /\ pc[w] \notin {"r_check", "r_download"} => file[w] # None
    /\ pc[w] \notin {"r_fed", "r_loaded"} => Quiet(w)

\* While the database is replaced, postgres runs and no service does.
StackKnown(w) ==
    /\ pc[w] = "r_pg" /\ job[w].stop => stack = {}
    /\ pc[w] = "r_drop" => "pg" \in stack /\ (job[w].stop => stack = {"pg"})
    /\ pc[w] \in Replacing => stack = {"pg"}
    /\ pc[w] = "r_health" => stack = Running

\* What the pipeline has made of the database.
LoadKnown(w) ==
    pc[w] \in {"r_fed", "r_loaded", "r_auth"} =>
        /\ pipe[w].what = "load" /\ pipe[w].src = file[w]
        /\ pipe[w].prod # "off" /\ pipe[w].cons # "off"
        /\ db \in {Empty, Partial, file[w].of}
        /\ pipe[w].prod = "ok" /\ pipe[w].cons = "ok" /\ ~flaw[w] => db = file[w].of
        /\ pc[w] # "r_fed" => pipe[w].prod = "ok"
        /\ pc[w] = "r_auth" => pipe[w].cons = "ok" \/ flaw[w]

BaseKnown(w) ==
    /\ pc[w] = "r_create" => db = None /\ ~own
    /\ pc[w] = "r_load" => db = Empty
    /\ pc[w] \in {"r_files", "r_restart"} =>
          db = file[w].of \/ (flaw[w] /\ db = Partial)
    /\ pc[w] = "r_health" => db # None

\* Without a failing command nothing is wrong but a torn archive.
Unhurt(w) == ~hit[w] =>
    /\ ~flaw[w]
    /\ pc[w] \in {"r_fed", "r_loaded"} =>
          /\ pipe[w].cons # "err"
          /\ file[w].whole => pipe[w].prod # "err"

Lone(w)  == alone[w] /\ pc[w] \in Restoring
Known(w) == Still(w) /\ StackKnown(w) /\ LoadKnown(w) /\ BaseKnown(w) /\ Unhurt(w)

\* The inductive invariant of the two theorems below.
Alone == Solo /\ \A w \in Workers : Placed(w) /\ (Lone(w) => Known(w))

LEMMA Distinct == /\ None # Empty /\ None # Partial /\ Empty # Partial
                  /\ None \notin Bases
                  /\ Empty \notin Contents /\ Partial \notin Contents
<1>1. \A a, b : IsFiniteSet({a, b}) /\ Cardinality({a, b}) <= 2
  <2> TAKE a, b
  <2>1. IsFiniteSet({}) /\ Cardinality({}) = 0
    BY FS_EmptySet
  <2>2. IsFiniteSet({a}) /\ Cardinality({a}) = 1
    BY FS_Singleton
  <2>3. IsFiniteSet({a} \cup {b})
        /\ Cardinality({a} \cup {b}) =
              IF b \in {a} THEN Cardinality({a}) ELSE Cardinality({a}) + 1
    BY <2>2, FS_AddElement
  <2>4. {a} \cup {b} = {a, b}
    OBVIOUS
  <2> QED
    BY <2>2, <2>3, <2>4
<1>2. Cardinality({None, Empty, Partial}) = 3
  BY DumpAssumption
<1>3. None # Empty
  <2> SUFFICES ASSUME None = Empty PROVE FALSE
    OBVIOUS
  <2>1. {None, Empty, Partial} = {None, Partial}
    OBVIOUS
  <2>2. Cardinality({None, Partial}) <= 2
    BY <1>1
  <2> QED
    BY <1>2, <2>1, <2>2
<1>4. None # Partial
  <2> SUFFICES ASSUME None = Partial PROVE FALSE
    OBVIOUS
  <2>1. {None, Empty, Partial} = {None, Empty}
    OBVIOUS
  <2>2. Cardinality({None, Empty}) <= 2
    BY <1>1
  <2> QED
    BY <1>2, <2>1, <2>2
<1>5. Empty # Partial
  <2> SUFFICES ASSUME Empty = Partial PROVE FALSE
    OBVIOUS
  <2>1. {None, Empty, Partial} = {None, Empty}
    OBVIOUS
  <2>2. Cardinality({None, Empty}) <= 2
    BY <1>1
  <2> QED
    BY <1>2, <2>1, <2>2
<1>6. {None, Empty, Partial} \cap Contents = {}
  BY DumpAssumption
<1> QED
  BY <1>3, <1>4, <1>5, <1>6 DEF Bases

\* A step of job w at l that leads it to l2, where it is at work.
Goes(w, l, l2) ==
    /\ pc[w] = l /\ pc'[w] = l2
    /\ job'[w] = job[w] /\ file'[w] = file[w] /\ alone' = alone

LEMMA Going ==
    ASSUME TypeOK, NEW w \in Workers, NEW l, NEW l2, Ok(w, l, l2) \/ Bad(w, l, l2)
    PROVE  /\ pc[w] = l /\ pc'[w] = l2
           /\ l2 \notin Idle => Goes(w, l, l2)
           /\ Ok(w, l, l2) => hit' = hit
           /\ Bad(w, l, l2) => hit'[w]
<1>1. Proceed(w, l, l2, file[w])
  BY DEF Ok, Bad
<1>2. Ok(w, l, l2) => hit' = hit
  BY DEF Ok
<1>3. Bad(w, l, l2) => hit'[w]
  BY DEF Bad, Hit, TypeOK, ControlOK
<1>4. pc[w] = l /\ pc'[w] = l2
  BY <1>1 DEF Proceed, TypeOK, ControlOK
<1>5. l2 \notin Idle => Goes(w, l, l2)
  BY <1>1 DEF Proceed, Goes, TypeOK, ControlOK
<1> QED
  BY <1>2, <1>3, <1>4, <1>5

\* The steps of a restore one by one: each makes what the next relies on.
LEMMA RestoreKnows ==
    ASSUME IInv, NEW w \in Workers, Solo, Placed(w), Lone(w), Known(w),
           RestoreStep(w), pc'[w] \in Restoring
    PROVE  Known(w)'
<1> DEFINE p == pipe[w]
<1>0. /\ TypeOK /\ file[w] \in Files /\ p \in Pipes /\ stack \in SUBSET Running
      /\ pipe \in [Workers -> Pipes] /\ flaw \in [Workers -> BOOLEAN]
      /\ PipeSound(w)
  BY DEF IInv, Sound, TypeOK, ControlOK, PipeOK, HostOK, Files
<1>1. ASSUME NEW l, NEW l2, Ok(w, l, l2) \/ Bad(w, l, l2)
      PROVE  /\ Goes(w, l, l2) /\ l2 \in Restoring
             /\ Ok(w, l, l2) => hit' = hit
             /\ Bad(w, l, l2) => hit'[w]
  <2>1. pc'[w] = l2
    BY <1>0, <1>1, Going
  <2>2. l2 \notin Idle
    BY <2>1 DEF Restoring, Idle
  <2> QED
    BY <1>0, <1>1, <2>1, <2>2, Going
<1>2. ASSUME NEW l PROVE ~Ok(w, l, "failed") /\ ~Bad(w, l, "failed")
  BY <1>1 DEF Restoring
<1>3. CASE ValidateForRestore(w)
  <2>1. Ok(w, "r_check", "r_download") /\ UNCHANGED <<host, test, pipe, flaw>>
    BY <1>2, <1>3 DEF ValidateForRestore, Pass
  <2>2. Goes(w, "r_check", "r_download") /\ hit' = hit
    BY <1>1, <2>1
  <2> QED
    BY <2>1, <2>2 DEF Goes, host, Known, Still, StackKnown, LoadKnown, BaseKnown, Unhurt,
                      Quiet, Replacing
<1>4. CASE DownloadToRestore(w)
  <2>1. /\ Proceed(w, "r_download", "r_sum", store) /\ store # None
        /\ UNCHANGED <<hit, host, pipe, flaw>>
    BY <1>2, <1>4 DEF DownloadToRestore, Download
  <2>2. /\ pc[w] = "r_download" /\ pc'[w] = "r_sum" /\ file'[w] = store
    BY <1>0, <2>1 DEF Proceed, TypeOK, ControlOK, Idle
  <2> QED
    BY <2>1, <2>2 DEF host, Known, Still, StackKnown, LoadKnown, BaseKnown, Unhurt,
                      Quiet, Replacing
<1>5. CASE ChecksumToRestore(w)
  <2>1. Ok(w, "r_sum", StopOrNot(w)) /\ UNCHANGED <<host, test, pipe, flaw>>
    BY <1>2, <1>5, Checking DEF Pass
  <2>2. Goes(w, "r_sum", StopOrNot(w)) /\ hit' = hit
    BY <1>1, <2>1
  <2>3. StopOrNot(w) \in {"r_stop", "r_pg"} /\ (StopOrNot(w) = "r_pg" => ~job[w].stop)
    BY DEF StopOrNot
  <2> HIDE DEF p
  <2> QED
    BY <2>1, <2>2, <2>3 DEF Goes, host, Known, Still, StackKnown, LoadKnown, BaseKnown,
                      Unhurt, Quiet, Replacing
<1>6. CASE StopInstance(w)
  <2>1. /\ Ok(w, "r_stop", "r_pg") /\ stack' = {} /\ EvictAll
        /\ UNCHANGED <<db, own, store, meta, test, flaw>>
    BY <1>2, <1>6 DEF StopInstance
  <2>2. Goes(w, "r_stop", "r_pg") /\ hit' = hit
    BY <1>1, <2>1
  <2>3. Quiet(w)'
    <3>1. pipe'[w] = Evicted(p)
      BY <2>1 DEF EvictAll
    <3> QED
      BY <1>0, <2>2, <3>1, Evicting DEF Known, Still, Quiet, Goes
  <2> QED
    BY <2>1, <2>2, <2>3 DEF Goes, Known, Still, StackKnown, LoadKnown, BaseKnown,
                      Unhurt, Replacing
<1>7. CASE FindPostgres(w)
  <2>1. /\ Ok(w, "r_pg", "r_drop") /\ stack' = stack \cup {"pg"}
        /\ UNCHANGED <<db, own, store, meta, test, pipe, flaw>>
    BY <1>2, <1>7 DEF FindPostgres
  <2>2. Goes(w, "r_pg", "r_drop") /\ hit' = hit
    BY <1>1, <2>1
  <2>3. "pg" \in stack' /\ (job[w].stop => stack' = {"pg"})
    BY <2>1, <2>2 DEF Goes, Known, StackKnown
  <2> QED
    BY <2>1, <2>2, <2>3 DEF Goes, Known, Still, StackKnown, LoadKnown, BaseKnown,
                      Unhurt, Quiet, Replacing
<1>8. CASE DropDatabase(w)
  <2>1. /\ Ok(w, "r_drop", "r_create") /\ MayDrop /\ db' = None
        /\ UNCHANGED <<stack, own, store, meta, test, pipe, flaw>>
    BY <1>2, <1>8 DEF DropDatabase
  <2>2. Goes(w, "r_drop", "r_create") /\ hit' = hit
    BY <1>1, <2>1
  <2>3. stack = {"pg"} /\ ~own
    BY <1>0, <2>1 DEF MayDrop, Reachable, InUse, Running
  <2> QED
    BY <2>1, <2>2, <2>3 DEF Goes, Known, Still, StackKnown, LoadKnown, BaseKnown,
                      Unhurt, Quiet
<1>9. CASE CreateDatabase(w)
  <2>1. /\ Ok(w, "r_create", "r_load") /\ db' = Empty
        /\ UNCHANGED <<stack, own, store, meta, test, pipe, flaw>>
    BY <1>2, <1>9 DEF CreateDatabase
  <2>2. Goes(w, "r_create", "r_load") /\ hit' = hit
    BY <1>1, <2>1
  <2> QED
    BY <2>1, <2>2 DEF Goes, Known, Still, StackKnown, LoadKnown, BaseKnown,
                      Unhurt, Quiet, Replacing
<1>10. CASE StartLoad(w)
  <2>1. /\ Pour(w, "r_load", "r_fed", "load", file[w], file[w])
    BY <1>2, <1>10 DEF StartLoad, Fails, Spill
  <2>2. /\ pc[w] = "r_load" /\ pc'[w] = "r_fed" /\ file'[w] = file[w]
        /\ pipe'[w] = Started("load", file[w]) /\ UNCHANGED <<hit, flaw, host>>
    BY <1>0, <2>1 DEF Pour, Proceed, TypeOK, ControlOK, Idle
  <2> QED
    BY <2>2 DEF Started, host, Known, Still, StackKnown, LoadKnown, BaseKnown,
                      Unhurt, Replacing
<1>11. CASE AwaitGunzip(w)
  <2>1. /\ Ok(w, "r_fed", "r_loaded") /\ p.prod = "ok"
        /\ UNCHANGED <<host, test, pipe, flaw>>
    BY <1>2, <1>11 DEF AwaitGunzip, AwaitProducer
  <2>2. Goes(w, "r_fed", "r_loaded") /\ hit' = hit
    BY <1>1, <2>1
  <2> QED
    BY <2>1, <2>2 DEF Goes, host, Known, Still, StackKnown, LoadKnown, BaseKnown,
                      Unhurt, Replacing
<1>12. CASE AwaitLoad(w)
  <2>1. /\ Ok(w, "r_loaded", "r_auth") /\ p.cons # "run"
        /\ UNCHANGED <<host, test, pipe>>
        /\ \/ p.cons = "ok" /\ flaw' = flaw
           \/ p.cons = "err" /\ flaw' = [flaw EXCEPT ![w] = TRUE]
    BY <1>2, <1>12 DEF AwaitLoad, AwaitPsql, AwaitConsumer
  <2>2. Goes(w, "r_loaded", "r_auth") /\ hit' = hit
    BY <1>1, <2>1
  <2>3. (p.cons = "ok" /\ flaw'[w] = flaw[w]) \/ (p.cons = "err" /\ flaw'[w])
    BY <1>0, <2>1
  <2>4. pipe'[w] = p /\ db' = db /\ stack' = stack
    BY <2>1 DEF host
  <2>5. p.prod = "ok"
    BY <2>2 DEF Goes, Known, LoadKnown
  <2> QED
    <3>1. Still(w)'
      BY <2>1, <2>2, <2>4, <2>5 DEF Goes, Known, Still, Quiet
    <3>2. StackKnown(w)' /\ BaseKnown(w)'
      BY <2>2, <2>4 DEF Goes, Known, StackKnown, BaseKnown, Replacing
    <3>3. LoadKnown(w)'
      <4>1. p.prod = "ok" /\ p.cons = "ok" /\ ~flaw'[w] => db = file[w].of
        BY <2>1, <2>2, <2>3 DEF Goes, Known, LoadKnown
      <4> QED
        BY <2>1, <2>2, <2>3, <2>4, <2>5, <4>1 DEF Goes, Known, LoadKnown
    <3>4. Unhurt(w)'
      BY <2>2, <2>3 DEF Goes, Known, Unhurt
    <3> QED
      BY <3>1, <3>2, <3>3, <3>4 DEF Known
<1>13. CASE FixAuthPermissions(w)
  <2>1. /\ Ok(w, "r_auth", "r_files") /\ db \in Contents \cup {Partial}
        /\ UNCHANGED <<host, test, pipe, flaw>>
    BY <1>2, <1>13 DEF FixAuthPermissions
  <2>2. Goes(w, "r_auth", "r_files") /\ hit' = hit
    BY <1>1, <2>1
  <2>3. db = file[w].of \/ (flaw[w] /\ db = Partial)
    <3>1. db # Empty
      BY <2>1, Distinct
    <3> QED
      BY <2>2, <3>1 DEF Goes, Known, LoadKnown
  <2> QED
    BY <2>1, <2>2, <2>3 DEF Goes, host, Known, Still, StackKnown, LoadKnown, BaseKnown,
                      Unhurt, Quiet, Replacing
<1>14. CASE RestoreStorage(w)
  <2>1. /\ Ok(w, "r_files", "r_restart") \/ Bad(w, "r_files", "r_restart")
        /\ UNCHANGED <<host, test, pipe, flaw>>
    <3>1. ~Bad(w, "r_files", "hung")
      BY <1>1 DEF Restoring
    <3> QED
      BY <1>14, <3>1 DEF RestoreStorage, CopyFiles
  <2>2. Goes(w, "r_files", "r_restart") /\ (hit' = hit \/ hit'[w])
    BY <1>1, <2>1
  <2> QED
    BY <2>1, <2>2 DEF Goes, host, Known, Still, StackKnown, LoadKnown, BaseKnown,
                      Unhurt, Quiet, Replacing
<1>15. CASE RestartInstance(w)
  <2>1. /\ Ok(w, "r_restart", "r_health") /\ stack' = Running /\ EvictAll
        /\ UNCHANGED <<db, own, store, meta, test, flaw>>
    BY <1>2, <1>15 DEF RestartInstance
  <2>2. Goes(w, "r_restart", "r_health") /\ hit' = hit
    BY <1>1, <2>1
  <2>3. Quiet(w)'
    <3>1. pipe'[w] = Evicted(p)
      BY <2>1 DEF EvictAll
    <3> QED
      BY <1>0, <2>2, <3>1, Evicting DEF Known, Still, Quiet, Goes
  <2>4. db # None
    <3>1. db = file[w].of \/ db = Partial
      BY <2>2 DEF Goes, Known, BaseKnown
    <3>2. file[w] \in Dumps
      BY <1>0, <2>2 DEF Goes, Known, Still, Files
    <3> QED
      BY <3>1, <3>2, Distinct DEF Dumps
  <2> QED
    BY <2>1, <2>2, <2>3, <2>4 DEF Goes, Known, Still, StackKnown, LoadKnown, BaseKnown,
                      Unhurt, Replacing
<1>16. CASE HealthCheck(w)
  <2>1. Ok(w, "r_health", "ok")
    BY <1>2, <1>16 DEF HealthCheck
  <2> QED
    BY <1>1, <2>1 DEF Restoring
<1> QED
  BY <1>3, <1>4, <1>5, <1>6, <1>7, <1>8, <1>9, <1>10, <1>11, <1>12, <1>13, <1>14, <1>15,
     <1>16 DEF RestoreStep

\* What flows through the pipeline of a lone restore.
LEMMA FlowKnows ==
    ASSUME IInv, NEW w \in Workers, Lone(w), Known(w),
           Flow(w) \/ ProducerDies(w) \/ ConsumerDies(w)
    PROVE  Known(w)'
<1> DEFINE p == pipe[w]
           q == pipe'[w]
<1>0. /\ file[w] \in Files /\ p \in Pipes /\ pipe \in [Workers -> Pipes]
      /\ file \in [Workers -> Files] /\ flaw \in [Workers -> BOOLEAN]
      /\ hit \in [Workers -> BOOLEAN] /\ PipeSound(w)
  BY DEF IInv, Sound, TypeOK, ControlOK, PipeOK, Files
<1>1. p.prod = "run" \/ p.cons = "run"
  BY DEF Flow, Produce, ProducerEnds, BrokenPipe, Consume, ConsumerEnds, ProducerDies,
         ConsumerDies
<1>2. pc[w] \in {"r_fed", "r_loaded"}
  BY <1>1 DEF Known, Still, Quiet
<1>3. /\ p.what = "load" /\ p.src = file[w] /\ file[w] # None
      /\ p.prod # "off" /\ p.cons # "off"
      /\ db \in {Empty, Partial, file[w].of} /\ stack = {"pg"}
      /\ pc[w] = "r_loaded" => p.prod = "ok"
  BY <1>2 DEF Known, LoadKnown, Still, StackKnown, Replacing
<1>4. ASSUME q.what = "load", q.src = file[w], q.prod # "off", q.cons # "off",
             file'[w] = file[w], pc' = pc, stack' = stack, db' \in {Empty, Partial, file[w].of},
             pc[w] = "r_loaded" => q.prod = "ok",
             q.prod = "ok" /\ q.cons = "ok" /\ ~flaw'[w] => db' = file[w].of,
             ~hit'[w] => /\ ~hit[w] /\ ~flaw'[w] /\ q.cons # "err"
                         /\ file[w].whole => q.prod # "err"
      PROVE  Known(w)'
  <2>1. Still(w)' /\ StackKnown(w)' /\ BaseKnown(w)'
    BY <1>2, <1>3, <1>4 DEF Still, StackKnown, BaseKnown, Replacing
  <2>2. LoadKnown(w)'
    BY <1>2, <1>4 DEF LoadKnown
  <2>3. Unhurt(w)'
    BY <1>4 DEF Unhurt
  <2> QED
    BY <2>1, <2>2, <2>3 DEF Known
<1>5. /\ p.prod = "ok" /\ p.cons = "ok" /\ ~flaw[w] => db = file[w].of
      /\ ~hit[w] => /\ ~flaw[w] /\ p.cons # "err"
                    /\ file[w].whole => p.prod # "err"
  BY <1>2 DEF Known, LoadKnown, Unhurt
<1>6. CASE Produce(w)
  <2>1. UNCHANGED <<host, others, file, hit>>
        /\ q = [p EXCEPT !.left = p.left - 1, !.full = TRUE]
    BY <1>0, <1>6 DEF Produce
  <2>2. q.what = p.what /\ q.src = p.src /\ q.prod = p.prod /\ q.cons = p.cons
    BY <1>0, <2>1 DEF Pipes
  <2> QED
    BY <1>3, <1>4, <1>5, <2>1, <2>2 DEF host, others
<1>7. ASSUME NEW s \in {"ok", "err"}, pipe' = [pipe EXCEPT ![w].prod = s], p.prod = "run"
      PROVE  /\ q.what = p.what /\ q.src = p.src /\ q.prod = s /\ q.cons = p.cons
             /\ pc[w] = "r_fed" /\ p.cons # "ok"
  BY <1>0, <1>2, <1>3, <1>7 DEF Pipes, PipeSound
<1>8. CASE ProducerEnds(w)
  <2>1. PICK s \in {"ok", "err"} :
           /\ pipe' = [pipe EXCEPT ![w].prod = s] /\ p.prod = "run"
           /\ s = "err" => ~file[w].whole
    BY <1>3, <1>8 DEF ProducerEnds
  <2>2. UNCHANGED <<host, others, file, hit>>
    BY <1>8 DEF ProducerEnds
  <2>3. /\ q.what = p.what /\ q.src = p.src /\ q.prod = s /\ q.cons = p.cons
        /\ pc[w] = "r_fed" /\ p.cons # "ok"
    BY <1>7, <2>1
  <2> QED
    BY <1>3, <1>4, <1>5, <2>1, <2>2, <2>3 DEF host, others
<1>9. ~BrokenPipe(w)
  BY <1>2, <1>3 DEF BrokenPipe, Holding
<1>10. CASE ProducerDies(w)
  <2>1. /\ pipe' = [pipe EXCEPT ![w].prod = "err"] /\ p.prod = "run" /\ hit'[w]
        /\ UNCHANGED <<host, others, file>>
    BY <1>0, <1>10 DEF ProducerDies, Hit
  <2>2. /\ q.what = p.what /\ q.src = p.src /\ q.prod = "err" /\ q.cons = p.cons
        /\ pc[w] = "r_fed" /\ p.cons # "ok"
    BY <1>7, <2>1
  <2> QED
    BY <1>3, <1>4, <2>1, <2>2 DEF host, others
<1>11. CASE ConsumerDies(w)
  <2>1. /\ pipe' = [pipe EXCEPT ![w].cons = "err"] /\ hit'[w]
        /\ UNCHANGED <<host, others, file>>
    BY <1>0, <1>11 DEF ConsumerDies, Hit
  <2>2. q.what = p.what /\ q.src = p.src /\ q.prod = p.prod /\ q.cons = "err"
    BY <1>0, <2>1 DEF Pipes
  <2> QED
    BY <1>3, <1>4, <2>1, <2>2 DEF host, others
\* What a load makes of the database.
<1>12. ASSUME NEW base, NEW whole, Sink(w, base, whole)
       PROVE  db' = base /\ file'[w] = file[w] /\ stack' = stack
  BY <1>3, <1>12 DEF Sink
<1>13. CASE Consume(w)
  <2>1. /\ pipe' = [pipe EXCEPT ![w].full = FALSE] /\ p.cons = "run"
        /\ Sink(w, Partial, FALSE) /\ UNCHANGED <<others, hit>>
    BY <1>13 DEF Consume
  <2>2. q.what = p.what /\ q.src = p.src /\ q.prod = p.prod /\ q.cons = "run"
    BY <1>0, <2>1 DEF Pipes
  <2>3. db' = Partial /\ file'[w] = file[w] /\ stack' = stack
    BY <1>12, <2>1
  <2> QED
    BY <1>3, <1>4, <1>5, <2>1, <2>2, <2>3 DEF others
<1>14. CASE ConsumerEnds(w)
  <2>1. /\ pipe' = [pipe EXCEPT ![w].cons = "ok"] /\ UNCHANGED pc
        /\ p.cons = "run" /\ p.prod # "run" /\ ~p.full
    BY <1>14 DEF ConsumerEnds, EndOfFile
  <2>2. q.what = p.what /\ q.src = p.src /\ q.prod = p.prod /\ q.cons = "ok"
    BY <1>0, <2>1 DEF Pipes
  <2>3. p.prod = "ok" => Complete(p)
    BY <1>0, <1>3, <2>1 DEF Complete, PipeSound
  <2>4. CASE Sink(w, Partial, FALSE) /\ Hit(w) /\ flaw' = [flaw EXCEPT ![w] = TRUE]
    <3>1. hit'[w] /\ flaw'[w]
      BY <1>0, <2>4 DEF Hit
    <3>2. db' = Partial /\ file'[w] = file[w] /\ stack' = stack
      BY <1>12, <2>4
    <3> QED
      BY <1>3, <1>4, <2>1, <2>2, <3>1, <3>2
  <2>5. CASE /\ Sink(w, IF Complete(p) THEN p.src.of ELSE Partial, Complete(p))
             /\ UNCHANGED <<faults, hit, flaw>>
    <3>1. /\ db' = IF Complete(p) THEN p.src.of ELSE Partial
          /\ file'[w] = file[w] /\ stack' = stack
      BY <1>12, <2>5
    <3> QED
      BY <1>3, <1>4, <1>5, <2>1, <2>2, <2>3, <2>5, <3>1
  <2> QED
    BY <1>14, <2>4, <2>5 DEF ConsumerEnds
<1> QED
  BY <1>6, <1>8, <1>9, <1>10, <1>11, <1>13, <1>14 DEF Flow

\* Where the steps of a job lead.
LEMMA Leading ==
    ASSUME TypeOK, NEW w \in Workers, BackupStep(w) \/ RestoreStep(w) \/ VerifyStep(w)
    PROVE  /\ \E l, l2, f : Proceed(w, l, l2, f) /\ l \notin Idle /\ l # "hung"
           /\ pc[w] \notin Restoring =>
                 pc'[w] \notin Restoring /\ ~RestoreStep(w)
           /\ pc[w] \in Restoring => pc'[w] \in Restoring \cup {"hung"} \cup Idle
           /\ pc'[w] = "r_download" => pc[w] = "r_check" /\ file'[w] = file[w]
           /\ pc'[w] # "r_check"
<1> DEFINE Leads(l, l2) == \E f : /\ Proceed(w, l, l2, f)
                                  /\ l = "r_check" => f = file[w]
<1>1. ASSUME NEW l, NEW l2
      PROVE  /\ Ok(w, l, l2) => Leads(l, l2)
             /\ Bad(w, l, l2) => Leads(l, l2)
  BY DEF Ok, Bad
<1>2. ASSUME NEW l, NEW good, NEW bad
      PROVE  /\ \A cond : Pass(w, l, cond, good, bad) => Leads(l, good) \/ Leads(l, bad)
             /\ \A cond : Fails(w, l, cond, bad) => Leads(l, bad)
             /\ AwaitProducer(w, l, good, bad) => Leads(l, good) \/ Leads(l, bad)
             /\ AwaitPsql(w, l, good, bad) => Leads(l, good) \/ Leads(l, bad)
             /\ AwaitConsumer(w, l, good, bad) => Leads(l, good) \/ Leads(l, bad)
  <2> HIDE DEF Leads
  <2>1. \A cond : Pass(w, l, cond, good, bad) => Leads(l, good) \/ Leads(l, bad)
    BY <1>1 DEF Pass
  <2>2. \A cond : Fails(w, l, cond, bad) => Leads(l, bad)
    BY <1>1 DEF Fails
  <2>3. AwaitProducer(w, l, good, bad) => Leads(l, good) \/ Leads(l, bad)
    BY <1>1 DEF AwaitProducer
  <2>4. AwaitConsumer(w, l, good, bad) => Leads(l, good) \/ Leads(l, bad)
    BY <1>1 DEF AwaitConsumer
  <2>5. AwaitPsql(w, l, good, bad) => Leads(l, good) \/ Leads(l, bad)
    BY <1>1, <2>4 DEF AwaitPsql
  <2> QED
    BY <2>1, <2>2, <2>3, <2>4, <2>5
<1>3. ASSUME NEW l, NEW l2
      PROVE  /\ CopyFiles(w, l, l2) => Leads(l, l2) \/ Leads(l, "hung")
             /\ l # "r_check" /\ Download(w, l, l2) => Leads(l, l2) \/ Leads(l, "failed")
             /\ \A what, src, f :
                   l # "r_check" /\ Pour(w, l, l2, what, src, f) => Leads(l, l2)
             /\ \A what, src : Spill(w, l, l2, what, src) => Leads(l, l2)
  <2>1. CopyFiles(w, l, l2) => Leads(l, l2) \/ Leads(l, "hung")
    <3> HIDE DEF Leads
    <3> QED
      BY <1>1 DEF CopyFiles
  <2>2. l # "r_check" /\ Download(w, l, l2) => Leads(l, l2) \/ Leads(l, "failed")
    BY <1>1 DEF Download
  <2>3. \A what, src, f : l # "r_check" /\ Pour(w, l, l2, what, src, f) => Leads(l, l2)
    BY DEF Pour
  <2>4. \A what, src : Spill(w, l, l2, what, src) => Leads(l, l2)
    <3> HIDE DEF Leads
    <3> QED
      BY <1>1 DEF Spill
  <2> QED
    BY <2>1, <2>2, <2>3, <2>4
<1> DEFINE Backing == {"b_check", "b_dump", "b_dumped", "b_gzipped", "b_sum", "b_upload",
                       "b_files"}
           Verify  == {"v_download", "v_sum", "v_gzip", "v_create", "v_load", "v_fed",
                       "v_loaded", "v_sane", "v_ok", "v_failed"}
           Ends3   == {"ok", "failed", "hung"}
           LeadsIn(from, to) == \E l \in from, l2 \in to : Leads(l, l2)
<1>4. CASE BackupStep(w)
  <2>1. LeadsIn(Backing, Backing \cup Ends3)
    <3> HIDE DEF Leads
    <3>1. CASE ValidateForBackup(w) \/ StartDump(w) \/ ChecksumDump(w)
      BY <1>2, <1>3, <3>1 DEF ValidateForBackup, StartDump, ChecksumDump
    <3>2. CASE AwaitDump(w) \/ AwaitGzip(w)
      BY <1>2, <3>2 DEF AwaitDump, AwaitGzip
    <3>3. CASE Upload(w) \/ BackupStorage(w)
      BY <1>1, <1>3, <3>3 DEF Upload, BackupStorage
    <3> QED
      BY <1>4, <3>1, <3>2, <3>3 DEF BackupStep
  <2>2. PICK l \in Backing, l2 \in Backing \cup Ends3 : \E f : Proceed(w, l, l2, f)
    BY <2>1
  <2>3. pc[w] = l /\ pc'[w] = l2
    BY <2>2 DEF Proceed, TypeOK, ControlOK
  <2>4. l \notin Idle /\ l # "hung" /\ l \notin Restoring /\ l2 \notin Restoring
    BY DEF Idle, Restoring
  <2>5. ~RestoreStep(w)
    BY <2>3, <2>4, RestoreWalks DEF Walks, Proceed, Restoring
  <2> QED
    BY <2>2, <2>3, <2>4, <2>5 DEF Restoring
<1>5. CASE VerifyStep(w)
  <2>1. LeadsIn(Verify, Verify \cup Ends3)
    <3> HIDE DEF Leads
    <3>1. CASE DownloadToVerify(w) \/ ChecksumToVerify(w) \/ GzipIntegrity(w)
      BY <1>2, <1>3, <3>1 DEF DownloadToVerify, ChecksumToVerify, GzipIntegrity, DeepOrEnd
    <3>2. CASE StartTestLoad(w) \/ AwaitTestGunzip(w) \/ AwaitTestLoad(w)
      BY <1>2, <1>3, <3>2 DEF StartTestLoad, AwaitTestGunzip, AwaitTestLoad
    <3>3. CASE CreateTestDatabase(w) \/ SanityChecks(w) \/ DropTestDatabase(w)
      BY <1>1, <3>3 DEF CreateTestDatabase, SanityChecks, DropTestDatabase
    <3> QED
      BY <1>5, <3>1, <3>2, <3>3 DEF VerifyStep
  <2>2. PICK l \in Verify, l2 \in Verify \cup Ends3 : \E f : Proceed(w, l, l2, f)
    BY <2>1
  <2>3. pc[w] = l /\ pc'[w] = l2
    BY <2>2 DEF Proceed, TypeOK, ControlOK
  <2>4. l \notin Idle /\ l # "hung" /\ l \notin Restoring /\ l2 \notin Restoring
    BY DEF Idle, Restoring
  <2>5. ~RestoreStep(w)
    BY <2>3, <2>4, RestoreWalks DEF Walks, Proceed, Restoring
  <2> QED
    BY <2>2, <2>3, <2>4, <2>5 DEF Restoring
<1>6. CASE RestoreStep(w)
  <2> DEFINE Later == Restoring \ {"r_check", "r_download"}
             After == Restoring \ {"r_check"}
  <2>1. Leads("r_check", "r_download") \/ LeadsIn(After, Later \cup Ends3)
        \/ LeadsIn({"r_check"}, Ends3)
    <3> HIDE DEF Leads
    <3>1. CASE ValidateForRestore(w)
      BY <1>2, <3>1 DEF ValidateForRestore
    <3>6. CASE DownloadToRestore(w)
      BY <1>3, <3>6 DEF DownloadToRestore, Restoring
    <3>7. CASE ChecksumToRestore(w)
      <4>1. Leads("r_sum", StopOrNot(w)) \/ Leads("r_sum", "failed")
        BY <1>2, <3>7, Checking
      <4> QED
        BY <4>1 DEF StopOrNot, Restoring
    <3>2. CASE StopInstance(w) \/ FindPostgres(w) \/ DropDatabase(w) \/ CreateDatabase(w)
      BY <1>1, <3>2 DEF StopInstance, FindPostgres, DropDatabase, CreateDatabase, Restoring
    <3>3. CASE StartLoad(w) \/ AwaitGunzip(w) \/ AwaitLoad(w)
      BY <1>2, <1>3, <3>3 DEF StartLoad, AwaitGunzip, AwaitLoad, Restoring
    <3>4. CASE FixAuthPermissions(w) \/ RestoreStorage(w)
      BY <1>1, <1>3, <3>4 DEF FixAuthPermissions, RestoreStorage, Restoring
    <3>5. CASE RestartInstance(w) \/ HealthCheck(w)
      BY <1>1, <3>5 DEF RestartInstance, HealthCheck, Restoring
    <3> QED
      BY <1>6, <3>1, <3>2, <3>3, <3>4, <3>5, <3>6, <3>7 DEF RestoreStep
  <2>2. PICK l, l2, f :
           /\ l \in Restoring /\ l2 \in After \cup Ends3
           /\ Proceed(w, l, l2, f)
           /\ l = "r_check" => f = file[w]
           /\ l2 = "r_download" => l = "r_check"
    <3>1. CASE Leads("r_check", "r_download")
      BY <3>1 DEF Restoring
    <3>2. CASE LeadsIn(After, Later \cup Ends3)
      BY <3>2
    <3>3. CASE LeadsIn({"r_check"}, Ends3)
      BY <3>3 DEF Restoring
    <3> QED
      BY <2>1, <3>1, <3>2, <3>3
  <2>3. pc[w] = l /\ pc'[w] = l2 /\ (l2 \notin Idle => file'[w] = f)
    BY <2>2 DEF Proceed, TypeOK, ControlOK
  <2>4. l \notin Idle /\ l # "hung"
    BY <2>2 DEF Idle, Restoring
  <2> QED
    BY <2>2, <2>3, <2>4 DEF Idle, Restoring
<1> QED
  BY <1>4, <1>5, <1>6

\* What the step of one job leaves of the others.
LEMMA Besides ==
    ASSUME IInv, NEW w \in Workers,
           \/ Kill(w) \/ BackupStep(w) \/ RestoreStep(w) \/ VerifyStep(w)
           \/ Flow(w) \/ ProducerDies(w) \/ ConsumerDies(w)
    PROVE  /\ alone' = alone /\ Busy(w)
           /\ \A v \in Workers \ {w} :
                 /\ pc'[v] = pc[v] /\ job'[v] = job[v] /\ file'[v] = file[v]
                 /\ Busy(v)' => Busy(v)
<1>0. /\ TypeOK /\ pc \in [Workers -> Labels] /\ job \in [Workers -> Jobs]
      /\ file \in [Workers -> Dumps \cup {None}] /\ pipe \in [Workers -> Pipes]
  BY DEF IInv, TypeOK, ControlOK, PipeOK
<1>1. ASSUME \A v \in Workers \ {w} : /\ pc'[v] = pc[v]
                                      /\ pipe'[v] \in {pipe[v], Evicted(pipe[v])}
      PROVE  \A v \in Workers \ {w} : Busy(v)' => Busy(v)
  BY <1>0, <1>1, Evicting DEF Busy, Quiet
<1>2. ASSUME NEW l, NEW l2, NEW f, Proceed(w, l, l2, f), l \notin Idle
      PROVE  /\ alone' = alone /\ Busy(w)
             /\ \A v \in Workers \ {w} :
                   pc'[v] = pc[v] /\ job'[v] = job[v] /\ file'[v] = file[v]
  BY <1>0, <1>2 DEF Proceed, Busy
<1>3. CASE Kill(w)
  <2>1. Proceed(w, pc[w], "killed", file[w]) /\ pc[w] \notin Idle /\ pipe' = pipe
    BY <1>3 DEF Kill, Bad
  <2> QED
    BY <1>1, <1>2, <2>1
<1>4. CASE BackupStep(w) \/ RestoreStep(w) \/ VerifyStep(w)
  <2>1. PICK l, l2, f : Proceed(w, l, l2, f) /\ l \notin Idle
    BY <1>0, <1>4, Leading
  <2>2. \A v \in Workers \ {w} : pipe'[v] \in {pipe[v], Evicted(pipe[v])}
    <3>1. CASE BackupStep(w)
      BY <1>0, <3>1 DEF BackupStep, ValidateForBackup, StartDump, AwaitDump, AwaitGzip,
             ChecksumDump, Upload, BackupStorage, Pass, Fails, Pour, Spill, AwaitProducer,
             AwaitConsumer, CopyFiles
    <3>2. CASE VerifyStep(w)
      BY <1>0, <3>2 DEF VerifyStep, DownloadToVerify, ChecksumToVerify, GzipIntegrity,
             CreateTestDatabase, StartTestLoad, AwaitTestGunzip, AwaitTestLoad,
             SanityChecks, DropTestDatabase, Pass, Fails, Pour, Spill, AwaitProducer,
             AwaitConsumer, AwaitPsql, Download
    <3>3. CASE StopInstance(w) \/ RestartInstance(w)
      BY <3>3 DEF StopInstance, RestartInstance, Switch, EvictAll
    <3>4. CASE RestoreStep(w) /\ ~StopInstance(w) /\ ~RestartInstance(w)
      BY <1>0, <3>4 DEF RestoreStep, ValidateForRestore, DownloadToRestore,
             ChecksumToRestore, FindPostgres, DropDatabase, CreateDatabase, StartLoad,
             AwaitGunzip, AwaitLoad, FixAuthPermissions, RestoreStorage, HealthCheck,
             Pass, Fails, Pour, Spill, AwaitProducer, AwaitConsumer, AwaitPsql, Download,
             CopyFiles
    <3> QED
      BY <1>4, <3>1, <3>2, <3>3, <3>4
  <2> QED
    BY <1>1, <1>2, <2>1, <2>2
<1>5. CASE Flow(w) \/ ProducerDies(w) \/ ConsumerDies(w)
  <2>1. pipe[w].prod = "run" \/ pipe[w].cons = "run"
    BY <1>5 DEF Flow, Produce, ProducerEnds, BrokenPipe, Consume, ConsumerEnds,
                ProducerDies, ConsumerDies
  <2>2. UNCHANGED <<pc, job, alone>>
    BY <1>5 DEF Flow, Produce, ProducerEnds, BrokenPipe, Consume, ConsumerEnds,
                ProducerDies, ConsumerDies, others
  <2>3. \A v \in Workers \ {w} : pipe'[v] = pipe[v]
    BY <1>0, <1>5 DEF Flow, Produce, ProducerEnds, BrokenPipe, Consume, ConsumerEnds,
                ProducerDies, ConsumerDies
  <2>4. \A v \in Workers \ {w} : file'[v] = file[v]
    <3>1. UNCHANGED file \/ \E base, whole : Sink(w, base, whole)
      BY <1>5 DEF Flow, Produce, ProducerEnds, BrokenPipe, Consume, ConsumerEnds,
                ProducerDies, ConsumerDies
    <3> QED
      BY <1>0, <3>1 DEF Sink
  <2> QED
    BY <1>1, <2>1, <2>2, <2>3, <2>4 DEF Busy, Quiet
<1> QED
  BY <1>3, <1>4, <1>5

\* A file that is not there does not come from a pipeline.
LEMMA FlowPlaces ==
    ASSUME IInv, NEW w \in Workers, Placed(w),
           Flow(w) \/ ProducerDies(w) \/ ConsumerDies(w)
    PROVE  Placed(w)' /\ pc'[w] = pc[w]
<1>1. UNCHANGED <<pc, job>>
  BY DEF Flow, Produce, ProducerEnds, BrokenPipe, Consume, ConsumerEnds,
         ProducerDies, ConsumerDies, others
<1>2. file[w] = None => file'[w] = None
  <2>1. UNCHANGED file \/ \E base, whole : Sink(w, base, whole)
    BY DEF Flow, Produce, ProducerEnds, BrokenPipe, Consume, ConsumerEnds,
           ProducerDies, ConsumerDies
  <2> QED
    BY <2>1 DEF Sink
<1> QED
  BY <1>1, <1>2 DEF Placed

LEMMA AloneBegins ==
    ASSUME TypeOK, Alone, NEW w \in Workers,
           BeginBackup(w) \/ BeginRestore(w) \/ BeginVerify(w)
    PROVE  Alone'
<1> DEFINE beside == {v \in Workers \ {w} : Busy(v)}
<1>1. PICK j, l :
         /\ Begin(w, j, l) /\ l \in {"b_check", "r_check", "v_download"}
         /\ j.kind = "restore" => l = "r_check"
  <2>1. CASE BeginBackup(w)
    <3>1. PICK j \in BackupJobs : Begin(w, j, "b_check")
      BY <2>1 DEF BeginBackup
    <3>2. j.kind = "backup"
      BY DEF BackupJobs, JobsOf
    <3> QED
      BY <3>1, <3>2
  <2>2. CASE BeginRestore(w)
    BY <2>2 DEF BeginRestore
  <2>3. CASE BeginVerify(w)
    <3>1. PICK j \in VerifyJobs({None, meta}) : Begin(w, j, "v_download")
      BY <2>3 DEF BeginVerify
    <3>2. j.kind = "verify"
      BY DEF VerifyJobs, JobsOf
    <3> QED
      BY <3>1, <3>2
  <2> QED
    BY <2>1, <2>2, <2>3
<1>2. /\ ~Busy(w) /\ pc[w] \in Idle /\ UNCHANGED <<host, file>>
      /\ pc'[w] = l /\ job'[w] = j /\ flaw'[w] = FALSE /\ pipe'[w] = NoPipe
      /\ alone'[w] = (beside = {})
      /\ \A v \in Workers \ {w} : /\ pc'[v] = pc[v] /\ job'[v] = job[v]
                                  /\ pipe'[v] = pipe[v]
                                  /\ alone'[v] = (alone[v] /\ v \notin beside)
  BY <1>1 DEF Begin, Busy, TypeOK, ControlOK, PipeOK
<1>3. \A v \in Workers \ {w} : Busy(v)' <=> Busy(v)
  BY <1>2 DEF Busy, Quiet
<1>4. Solo'
  <2> SUFFICES ASSUME NEW v \in Workers, NEW u \in Workers, v # u, alone'[u], Busy(u)'
               PROVE  ~Busy(v)'
    BY DEF Solo
  <2>1. CASE u = w
    BY <1>2, <1>3, <2>1
  <2>2. CASE u # w
    BY <1>2, <1>3, <2>2
  <2> QED
    BY <2>1, <2>2
<1>5. ASSUME NEW v \in Workers \ {w}
      PROVE  Placed(v)' /\ ~Lone(v)'
  <2>1. Placed(v)'
    BY <1>2 DEF Alone, Placed
  <2>2. pc[v] \in Restoring => Busy(v)
    BY DEF Restoring, Busy, Idle
  <2> QED
    BY <1>2, <2>1, <2>2 DEF Lone
<1>6. Placed(w)'
  BY <1>1, <1>2 DEF Alone, Placed, Restoring
<1>7. Lone(w)' => Known(w)'
  <2>1. l = "r_check" => Known(w)'
    BY <1>2 DEF Known, Still, StackKnown, LoadKnown, BaseKnown, Unhurt, Quiet, NoPipe,
                Replacing
  <2>2. l # "r_check" => ~Lone(w)'
    BY <1>1, <1>2 DEF Lone, Restoring
  <2> QED
    BY <2>1, <2>2
<1> QED
  BY <1>4, <1>5, <1>6, <1>7 DEF Alone

LEMMA LoneRestores == Spec => []Alone
<1>1. Init => Alone
  BY DEF Init, Alone, Solo, Placed, Lone, Busy, Quiet, NoPipe, NoJob, Idle, Restoring
<1>2. ASSUME IInv, Alone, [Next]_vars PROVE Alone'
  <2>0. TypeOK
    BY <1>2 DEF IInv
  <2>1. CASE UNCHANGED vars
    <3>1. Solo'
      BY <1>2, <2>1 DEF Alone, Solo, Busy, Quiet, vars
    <3>2. ASSUME NEW w \in Workers
          PROVE  Placed(w)' /\ (Lone(w)' => Known(w)')
      BY <1>2, <2>1 DEF Alone, Placed, Lone, Known, Still, StackKnown, LoadKnown,
                        BaseKnown, Unhurt, Quiet, vars, host
    <3> QED
      BY <3>1, <3>2 DEF Alone
  <2>2. CASE Use
    <3>1. /\ UNCHANGED <<pc, job, alone, pipe, file, flaw, hit, stack>>
          /\ stack = Running /\ db' \in Contents
      BY <2>2 DEF Use, others
    <3>2. Solo'
      BY <1>2, <3>1 DEF Alone, Solo, Busy, Quiet
    <3>3. ASSUME NEW w \in Workers
          PROVE  Placed(w)' /\ (Lone(w)' => Known(w)')
      <4>1. Placed(w)' /\ (Lone(w)' => Lone(w))
        BY <1>2, <3>1 DEF Alone, Placed, Lone
      <4>2. ASSUME Lone(w) PROVE Known(w)'
        <5>1. Known(w) /\ pc[w] \notin Replacing
          BY <1>2, <3>1, <4>2 DEF Alone, Known, StackKnown, Running
        <5>2. Still(w)' /\ StackKnown(w)' /\ Unhurt(w)'
          BY <3>1, <5>1 DEF Known, Still, StackKnown, Unhurt, Quiet
        <5>3. LoadKnown(w)' /\ BaseKnown(w)'
          BY <3>1, <5>1, Distinct DEF LoadKnown, BaseKnown, Replacing, Bases
        <5> QED
          BY <5>2, <5>3 DEF Known
      <4> QED
        BY <4>1, <4>2
    <3> QED
      BY <3>2, <3>3 DEF Alone
  <2>3. ASSUME NEW w \in Workers,
               \/ Kill(w) \/ BackupStep(w) \/ RestoreStep(w) \/ VerifyStep(w)
               \/ Flow(w) \/ ProducerDies(w) \/ ConsumerDies(w)
        PROVE  Alone'
    <3>1. /\ alone' = alone /\ Busy(w)
          /\ \A v \in Workers \ {w} :
                /\ pc'[v] = pc[v] /\ job'[v] = job[v] /\ file'[v] = file[v]
                /\ Busy(v)' => Busy(v)
      BY <1>2, <2>3, Besides
    <3>2. Solo'
      <4> SUFFICES ASSUME NEW v \in Workers, NEW u \in Workers, v # u, alone'[u], Busy(u)'
                   PROVE  ~Busy(v)'
        BY DEF Solo
      <4>1. alone[u] /\ Busy(u) /\ (Busy(v)' => Busy(v))
        BY <3>1
      <4> QED
        BY <1>2, <4>1 DEF Alone, Solo
    <3>3. ASSUME NEW v \in Workers \ {w}
          PROVE  Placed(v)' /\ ~Lone(v)'
      <4>1. Placed(v)'
        BY <1>2, <3>1 DEF Alone, Placed
      <4>2. Lone(v)' => alone[v] /\ Busy(v)
        BY <3>1 DEF Lone, Restoring, Busy, Idle
      <4> QED
        BY <1>2, <3>1, <4>1, <4>2 DEF Alone, Solo
    <3>4. Placed(w)' /\ (Lone(w)' => Known(w)')
      <4>0. Placed(w) /\ (Lone(w) => Known(w)) /\ Solo
        BY <1>2 DEF Alone
      <4>1. CASE Kill(w)
        <5>1. pc'[w] = "killed" /\ file'[w] = None /\ job'[w] = NoJob
          BY <2>0, <4>1 DEF Kill, Bad, Proceed, TypeOK, ControlOK, Idle
        <5> QED
          BY <5>1 DEF Placed, Lone, Restoring, NoJob
      <4>2. CASE Flow(w) \/ ProducerDies(w) \/ ConsumerDies(w)
        <5>1. Placed(w)' /\ pc'[w] = pc[w]
          BY <1>2, <4>0, <4>2, FlowPlaces
        <5>2. Lone(w)' => Lone(w)
          BY <3>1, <5>1 DEF Lone
        <5> QED
          BY <1>2, <4>0, <4>2, <5>1, <5>2, FlowKnows
      <4>3. CASE BackupStep(w) \/ RestoreStep(w) \/ VerifyStep(w)
        <5>1. PICK l, l2, f : Proceed(w, l, l2, f) /\ l \notin Idle /\ l # "hung"
          BY <2>0, <4>3, Leading
        <5>2. /\ pc[w] = l /\ pc'[w] = l2
              /\ l2 \in Idle => file'[w] = None /\ job'[w] = NoJob
              /\ l2 \notin Idle => job'[w] = job[w]
          BY <2>0, <5>1 DEF Proceed, TypeOK, ControlOK
        <5>3. /\ pc[w] \notin Restoring => pc'[w] \notin Restoring /\ ~RestoreStep(w)
              /\ pc[w] \in Restoring => pc'[w] \in Restoring \cup {"hung"} \cup Idle
              /\ pc'[w] = "r_download" => pc[w] = "r_check" /\ file'[w] = file[w]
              /\ pc'[w] # "r_check"
          BY <2>0, <4>3, Leading
        <5>4. Placed(w)'
          BY <4>0, <5>1, <5>2, <5>3 DEF Placed, NoJob
        <5>5. ASSUME Lone(w)' PROVE Known(w)'
          <6>1. pc[w] \in Restoring /\ Lone(w)
            BY <3>1, <5>3, <5>5 DEF Lone
          <6>2. RestoreStep(w)
            BY <4>3, <6>1, BackupWalks, VerifyWalks DEF Walks, Proceed, Restoring
          <6> QED
            BY <1>2, <4>0, <5>5, <6>1, <6>2, RestoreKnows DEF Lone
        <5> QED
          BY <5>4, <5>5
      <4> QED
        BY <2>3, <4>1, <4>2, <4>3
    <3> QED
      BY <3>2, <3>3, <3>4 DEF Alone
  <2> QED
    BY <1>2, <2>0, <2>1, <2>2, <2>3, AloneBegins DEF Next
<1> QED
  BY <1>1, <1>2, Soundness, PTL DEF Spec

\* A restore that ends takes a step of its own.
LEMMA RestoreEnding ==
    ASSUME IInv, Alone, [Next]_vars, NEW w \in Workers, alone[w],
           job[w].kind = "restore", pc[w] \notin Idle, pc'[w] \in {"ok", "failed"}
    PROVE  RestoreStep(w) /\ Lone(w) /\ Known(w)
<1>1. BackupStep(w) \/ RestoreStep(w) \/ VerifyStep(w)
  BY Moved DEF Idle
<1>2. TypeOK /\ pc[w] \in Restoring \cup {"hung"}
  BY DEF IInv, Alone, Placed
<1>3. pc[w] # "hung"
  BY <1>1, <1>2, Leading DEF Proceed
<1>4. pc[w] \in Restoring
  BY <1>2, <1>3
<1>5. RestoreStep(w)
  BY <1>1, <1>4, BackupWalks, VerifyWalks DEF Walks, Proceed, Restoring
<1> QED
  BY <1>4, <1>5 DEF Lone, Alone

\* A restore beside which nothing else runs restarts the services on what the backup
\* holds, but for what psql skipped, and reports success with all of them running.
THEOREM RestoredFaithfully == Spec => RestoreIsFaithful
<1> DEFINE Body ==
        \A w \in Workers : job[w].kind = "restore" /\ alone[w] =>
            /\ pc[w] = "r_restart" /\ pc'[w] = "r_health" =>
                   db = file[w].of \/ (flaw[w] /\ db \in {file[w].of, Partial})
            /\ Ends(w, "restore", "ok") => stack = Running /\ db # None
<1>1. ASSUME IInv, Alone, [Next]_vars
      PROVE  Body
  <2> SUFFICES ASSUME NEW w \in Workers, job[w].kind = "restore", alone[w]
               PROVE  /\ pc[w] = "r_restart" /\ pc'[w] = "r_health" =>
                             db = file[w].of \/ (flaw[w] /\ db \in {file[w].of, Partial})
                      /\ Ends(w, "restore", "ok") => stack = Running /\ db # None
    OBVIOUS
  <2>1. ASSUME pc[w] = "r_restart"
        PROVE  db = file[w].of \/ (flaw[w] /\ db \in {file[w].of, Partial})
    <3>1. Known(w)
      BY <1>1, <2>1 DEF Alone, Lone, Restoring
    <3> QED
      BY <2>1, <3>1 DEF Known, BaseKnown
  <2>2. ASSUME Ends(w, "restore", "ok")
        PROVE  stack = Running /\ db # None
    <3>1. RestoreStep(w) /\ Known(w) /\ TypeOK /\ pc'[w] = "ok"
      BY <1>1, <2>2, RestoreEnding DEF Ends, IInv
    <3>2. \A l, l2 : Ok(w, l, l2) \/ Bad(w, l, l2) => l2 = "ok" /\ pc[w] = l
      BY <3>1, Going
    <3>3. pc[w] = "r_health"
      <4>1. ~ValidateForRestore(w) /\ ~ChecksumToRestore(w) /\ ~StopInstance(w)
        BY <3>2, Checking DEF ValidateForRestore, StopInstance, Pass, StopOrNot
      <4>2. ~DownloadToRestore(w)
        <5>1. ~Proceed(w, "r_download", "r_sum", store)
          BY <3>1 DEF Proceed, TypeOK, ControlOK
        <5> QED
          BY <3>2, <5>1 DEF DownloadToRestore, Download
      <4>3. ~FindPostgres(w) /\ ~DropDatabase(w) /\ ~CreateDatabase(w)
        BY <3>2 DEF FindPostgres, DropDatabase, CreateDatabase
      <4>4. ~StartLoad(w)
        <5>1. ~Proceed(w, "r_load", "r_fed", file[w])
          BY <3>1 DEF Proceed, TypeOK, ControlOK
        <5> QED
          BY <3>2, <5>1 DEF StartLoad, Pour, Spill, Fails
      <4>5. ~AwaitGunzip(w) /\ ~AwaitLoad(w)
        BY <3>2 DEF AwaitGunzip, AwaitLoad, AwaitProducer, AwaitPsql, AwaitConsumer
      <4>6. ~FixAuthPermissions(w) /\ ~RestoreStorage(w) /\ ~RestartInstance(w)
        BY <3>2 DEF FixAuthPermissions, RestoreStorage, CopyFiles, RestartInstance
      <4>7. HealthCheck(w)
        BY <3>1, <4>1, <4>2, <4>3, <4>4, <4>5, <4>6 DEF RestoreStep
      <4> QED
        BY <3>2, <4>7 DEF HealthCheck
    <3> QED
      BY <3>1, <3>3 DEF Known, StackKnown, BaseKnown
  <2> QED
    BY <2>1, <2>2
<1> QED
  BY <1>1, Soundness, LoneRestores, PTL DEF Spec, RestoreIsFaithful

\* Whatever earlier restores have left behind, one that has the instance for itself,
\* meets no failing command and has the whole backup it asks for, of a real database,
\* succeeds, or fails at the drop with the database untouched: where psql connects to
\* the database it is to drop, or services that it was not to stop still do.
THEOREM RestoreRepeats == Spec => RestoreCanBeRepeated
<1> DEFINE Body ==
        \A w \in Workers :
            /\ Ends(w, "restore", "failed") /\ alone[w] /\ ~hit'[w]
            /\ file[w] \in [of : Contents, whole : {TRUE}]
            /\ Checked(job[w]) => job[w].sum = file[w]
            => /\ pc[w] = "r_drop" /\ db' = db
               /\ own \/ (stack = Running /\ ~job[w].stop)
<1>1. ASSUME IInv, Alone, [Next]_vars
      PROVE  Body
  <2> SUFFICES ASSUME NEW w \in Workers, Ends(w, "restore", "failed"), alone[w],
                      ~hit'[w], file[w] \in [of : Contents, whole : {TRUE}],
                      Checked(job[w]) => job[w].sum = file[w]
               PROVE  /\ pc[w] = "r_drop" /\ db' = db
                      /\ own \/ (stack = Running /\ ~job[w].stop)
    OBVIOUS
  <2> HIDE DEF Body
  <2>1. RestoreStep(w) /\ Known(w) /\ TypeOK /\ pc'[w] = "failed" /\ Solo
    BY <1>1, RestoreEnding DEF Ends, IInv, Alone
  <2>2. \A l, l2 : /\ ~Bad(w, l, l2)
                   /\ Ok(w, l, l2) => l2 = "failed" /\ pc[w] = l /\ ~hit[w]
    BY <2>1, Going
  <2>3. file[w] # None /\ file[w].whole /\ file[w].of \in Contents
    <3>1. file[w] \in Dumps
      BY DEF Dumps, Bases
    <3> QED
      BY <3>1, NoneAssumption
  <2>4. ~ValidateForRestore(w) /\ ~ChecksumToRestore(w)
    BY <2>2 DEF ValidateForRestore, ChecksumToRestore, Pass, StopOrNot
  <2>5. ~DownloadToRestore(w)
    <3>1. ~Proceed(w, "r_download", "r_sum", store)
      BY <2>1 DEF Proceed, TypeOK, ControlOK
    <3>2. pc[w] # "r_download"
      BY <1>1, <2>3 DEF Alone, Placed
    <3> QED
      BY <2>2, <3>1, <3>2 DEF DownloadToRestore, Download
  <2>6. ~StopInstance(w) /\ ~FindPostgres(w)
    BY <2>2 DEF StopInstance, FindPostgres
  <2>7. CASE DropDatabase(w)
    <3>1. pc[w] = "r_drop" /\ ~MayDrop /\ db' = db
      BY <2>2, <2>7 DEF DropDatabase
    <3>2. /\ "pg" \in stack /\ (job[w].stop => stack = {"pg"})
          /\ Quiet(w) /\ Busy(w)
      BY <2>1, <3>1 DEF Known, StackKnown, Still, Busy, Idle
    <3>3. \A v \in Workers : Quiet(v)
      BY <2>1, <3>2 DEF Solo, Busy
    <3>4. ASSUME ~own PROVE stack = Running /\ ~job[w].stop
      <4>1. stack = Running
        BY <3>1, <3>2, <3>3, <3>4 DEF MayDrop, Reachable, InUse, Quiet
      <4> QED
        BY <3>2, <4>1 DEF Running
    <3> QED
      BY <3>1, <3>4
  <2>8. ~CreateDatabase(w)
    BY <2>1, <2>2 DEF CreateDatabase, Reachable, Known, StackKnown, BaseKnown, Replacing
  <2>9. ~StartLoad(w)
    <3>1. ~Proceed(w, "r_load", "r_fed", file[w])
      BY <2>1 DEF Proceed, TypeOK, ControlOK
    <3> QED
      BY <2>1, <2>2, <3>1, Distinct
      DEF StartLoad, Pour, Spill, Fails, Known, StackKnown, BaseKnown, Replacing
  <2>10. ~AwaitGunzip(w)
    <3>1. pipe[w] \in Pipes
      BY <2>1 DEF TypeOK, PipeOK
    <3> SUFFICES ASSUME AwaitGunzip(w) PROVE FALSE
      OBVIOUS
    <3>2. pc[w] = "r_fed" /\ ~hit[w] /\ pipe[w].prod \notin {"run", "ok"}
      BY <2>2 DEF AwaitGunzip, AwaitProducer
    <3>3. pipe[w].prod # "err" /\ PipeSound(w)
      BY <1>1, <2>1, <2>3, <3>2 DEF Known, Unhurt, IInv, Sound
    <3>4. pipe[w].prod = "off"
      BY <3>1, <3>2, <3>3 DEF Pipes
    <3> QED
      BY <2>1, <3>2, <3>4 DEF Known, LoadKnown
  <2>11. ~AwaitLoad(w)
    <3>1. pipe[w] \in Pipes
      BY <2>1 DEF TypeOK, PipeOK
    <3> SUFFICES ASSUME AwaitLoad(w) PROVE FALSE
      OBVIOUS
    <3>2. pc[w] = "r_loaded" /\ ~hit[w] /\ pipe[w].cons \notin {"run", "ok"}
      BY <2>2 DEF AwaitLoad, AwaitPsql, AwaitConsumer
    <3>3. pipe[w].cons # "err" /\ pipe[w].cons # "off"
      BY <2>1, <3>2 DEF Known, Unhurt, LoadKnown
    <3> QED
      BY <3>1, <3>2, <3>3 DEF Pipes
  <2>12. ~FixAuthPermissions(w)
    <3> SUFFICES ASSUME FixAuthPermissions(w) PROVE FALSE
      OBVIOUS
    <3>1. pc[w] = "r_auth" /\ ~hit[w] /\ ("pg" \notin stack \/ db \notin Contents)
      BY <2>2 DEF FixAuthPermissions
    <3>2. stack = {"pg"} /\ ~flaw[w] /\ pipe[w].prod = "ok" /\ pipe[w].cons = "ok"
      BY <2>1, <3>1 DEF Known, StackKnown, Unhurt, LoadKnown, Replacing
    <3>3. db = file[w].of
      BY <2>1, <3>1, <3>2 DEF Known, LoadKnown
    <3> QED
      BY <2>3, <3>1, <3>2, <3>3
  <2>13. ~RestoreStorage(w) /\ ~RestartInstance(w)
    BY <2>2 DEF RestoreStorage, CopyFiles, RestartInstance
  <2>14. ~HealthCheck(w)
    BY <2>1, <2>2 DEF HealthCheck, Known, StackKnown
  <2> QED
    BY <2>1, <2>4, <2>5, <2>6, <2>7, <2>8, <2>9, <2>10, <2>11, <2>12, <2>13, <2>14
    DEF RestoreStep
<1> QED
  BY <1>1, Soundness, LoneRestores, PTL DEF Spec, RestoreCanBeRepeated
-----------------------------------------------------------------------------
(* No step of a job repeats.                                                 *)

\* What a pipeline may still do.
Fill(p) == 2 * p.left + (IF p.full THEN 1 ELSE 0)
           + (IF p.prod = "run" THEN 1 ELSE 0) + (IF p.cons = "run" THEN 1 ELSE 0)
Pending == 2 * Chunks + 2

\* The longest way from l to the end of a job, its pipeline included.
Height(l) ==
    CASE l \in {"hung", "v_ok", "v_failed", "r_health"} -> 1
      [] l \in {"b_files", "v_sane", "r_restart"}       -> 2
      [] l \in {"b_upload", "v_loaded", "r_files"}      -> 3
      [] l \in {"b_sum", "v_fed", "r_auth"}             -> 4
      [] l \in {"b_gzipped", "r_loaded"}                -> 5
      [] l \in {"b_dumped", "r_fed"}                    -> 6
      [] l = "v_load"                                   -> 5 + Pending
      [] l = "v_create"                                 -> 6 + Pending
      [] l \in {"b_dump", "v_gzip", "r_load"}           -> 7 + Pending
      [] l \in {"b_check", "v_sum", "r_create"}         -> 8 + Pending
      [] l \in {"v_download", "r_drop"}                 -> 9 + Pending
      [] l = "r_pg"                                     -> 10 + Pending
      [] l = "r_stop"                                   -> 11 + Pending
      [] l = "r_sum"                                    -> 12 + Pending
      [] l = "r_download"                               -> 13 + Pending
      [] l = "r_check"                                  -> 14 + Pending
      [] OTHER                                          -> 0

ToGo(w) == Height(pc[w]) + Fill(pipe[w])

\* A step of w brings w nearer to its end and takes nobody else away from his.
Wears(w) ==
    /\ ToGo(w)' < ToGo(w)
    /\ \A v \in Workers \ {w} : ToGo(v)' <= ToGo(v)

\* No job goes back to a step it has taken (backup.go:20 and 255 and verify.go:17
\* have no loop and no retry): whatever fails or dies, in whatever overlap, each
\* step that is neither the start of a job nor a write of the services brings one
\* job nearer to its end and takes none farther from it.  A job that does not end
\* therefore waits somewhere.
JobsWearOut ==
    [][\/ jobs' = jobs + 1
       \/ \E w \in Workers : Wears(w)
       \/ Use /\ \A w \in Workers : ToGo(w)' = ToGo(w)]_vars

LEMMA Heights ==
    /\ Pending \in Nat
    /\ \A l : Height(l) \in Nat /\ (l \notin Idle /\ l \in Labels => Height(l) > 0)
    /\ \A l \in Idle : Height(l) = 0
<1>1. Pending \in Nat
  BY DumpAssumption DEF Pending
<1> QED
  BY <1>1 DEF Height, Idle, Labels

LEMMA Fills ==
    /\ \A p \in Pipes : Fill(p) \in Nat /\ Evicted(p) \in Pipes /\ Fill(Evicted(p)) <= Fill(p)
    /\ \A src : \A what \in {"dump", "load", "test"} :
          Fill(Started(what, src)) \in Nat /\ Fill(Started(what, src)) <= Pending
<1>1. ASSUME NEW p \in Pipes
      PROVE  Fill(p) \in Nat /\ Evicted(p) \in Pipes /\ Fill(Evicted(p)) <= Fill(p)
  <2>1. p.left \in Nat
    BY DumpAssumption DEF Pipes
  <2>2. Evicted(p) \in Pipes
    BY EvictedOK
  <2>3. /\ Evicted(p).left = p.left /\ Evicted(p).full = p.full
        /\ Evicted(p).prod = "run" => p.prod = "run"
        /\ Evicted(p).cons = "run" => p.cons = "run"
    BY DEF Evicted, Pipes
  <2> QED
    BY <2>1, <2>2, <2>3 DEF Fill
<1>2. ASSUME NEW what \in {"dump", "load", "test"}, NEW src
      PROVE  Fill(Started(what, src)) \in Nat /\ Fill(Started(what, src)) <= Pending
  BY DumpAssumption DEF Fill, Started, Pending
<1> QED
  BY <1>1, <1>2

\* A step of w to a place nearer to its end, at which no pipeline starts ...
LEMMA Onward ==
    ASSUME TypeOK, NEW w \in Workers, NEW l, NEW l2, pc[w] = l,
           pc' = [pc EXCEPT ![w] = l2], Height(l2) < Height(l),
           pipe' = pipe \/ EvictAll
    PROVE  Wears(w)
<1>1. \A v \in Workers : pipe[v] \in Pipes /\ pipe'[v] \in {pipe[v], Evicted(pipe[v])}
  BY DEF TypeOK, PipeOK, EvictAll
<1>2. \A v \in Workers : /\ Fill(pipe[v]) \in Nat /\ Fill(pipe'[v]) \in Nat
                         /\ Fill(pipe'[v]) <= Fill(pipe[v])
  BY <1>1, Fills
<1>3. \A v \in Workers \ {w} : pc'[v] = pc[v]
  BY DEF TypeOK, ControlOK
<1>4. pc'[w] = l2
  BY DEF TypeOK, ControlOK
<1> QED
  BY <1>2, <1>3, <1>4, Heights DEF Wears, ToGo

\* ... and one at which w's pipeline starts.
LEMMA Pourer ==
    ASSUME TypeOK, NEW w \in Workers, NEW l, NEW l2, NEW what \in {"dump", "load", "test"},
           NEW src, NEW f, Pour(w, l, l2, what, src, f),
           Height(l2) + Pending < Height(l)
    PROVE  Wears(w)
<1>1. /\ pc[w] = l /\ pc' = [pc EXCEPT ![w] = l2]
      /\ pipe' = [pipe EXCEPT ![w] = Started(what, src)]
  BY DEF Pour, Proceed
<1>2. /\ pipe'[w] = Started(what, src) /\ pc'[w] = l2
      /\ \A v \in Workers \ {w} : pc'[v] = pc[v] /\ pipe'[v] = pipe[v]
      /\ \A v \in Workers : pipe[v] \in Pipes
  BY <1>1 DEF TypeOK, ControlOK, PipeOK
<1>3. Fill(pipe'[w]) <= Pending /\ Fill(pipe'[w]) \in Nat
  BY <1>2, Fills
<1>4. \A v \in Workers : Fill(pipe[v]) \in Nat
  BY <1>2, Fills
<1> QED
  BY <1>1, <1>2, <1>3, <1>4, Heights DEF Wears, ToGo

\* One that half starts still has a producer.
LEMMA Spiller ==
    ASSUME TypeOK, NEW w \in Workers, NEW l, NEW l2, NEW what \in {"dump", "load", "test"},
           NEW src, Spill(w, l, l2, what, src),
           Height(l2) + Pending < Height(l)
    PROVE  Wears(w)
<1> DEFINE q == [Started(what, src) EXCEPT !.cons = "err"]
<1>1. /\ pc[w] = l /\ pc' = [pc EXCEPT ![w] = l2]
      /\ pipe' = [pipe EXCEPT ![w] = q]
  BY DEF Spill, Bad, Proceed
<1>2. /\ pipe'[w] = q /\ pc'[w] = l2
      /\ \A v \in Workers \ {w} : pc'[v] = pc[v] /\ pipe'[v] = pipe[v]
      /\ \A v \in Workers : pipe[v] \in Pipes
  BY <1>1 DEF TypeOK, ControlOK, PipeOK
<1>3. Fill(q) <= Pending /\ Fill(q) \in Nat
  BY DumpAssumption DEF Fill, Started, Pending
<1>4. \A v \in Workers : Fill(pipe[v]) \in Nat
  BY <1>2, Fills
<1> HIDE DEF q
<1> QED
  BY <1>1, <1>2, <1>3, <1>4, Heights DEF Wears, ToGo

LEMMA Wearing ==
    ASSUME TypeOK, NEW w \in Workers, NEW l,
           \E l2 : /\ \E f : Proceed(w, l, l2, f)
                   /\ Height(l2) < Height(l)
                   /\ pipe' = pipe \/ EvictAll
    PROVE  Wears(w)
<1>1. PICK l2 : /\ \E f : Proceed(w, l, l2, f)
                /\ Height(l2) < Height(l)
                /\ pipe' = pipe \/ EvictAll
  OBVIOUS
<1>2. pc[w] = l /\ pc' = [pc EXCEPT ![w] = l2]
  BY <1>1 DEF Proceed
<1> QED
  BY <1>1, <1>2, Onward

\* The shapes of a step.
LEMMA WearingShapes ==
    ASSUME TypeOK, NEW w \in Workers, NEW l
    PROVE  /\ \A l2 : (Ok(w, l, l2) \/ Bad(w, l, l2)) /\ Height(l2) < Height(l)
                      /\ (pipe' = pipe \/ EvictAll) => Wears(w)
           /\ \A cond, good, bad :
                 Pass(w, l, cond, good, bad)
                 /\ Height(good) < Height(l) /\ Height(bad) < Height(l) => Wears(w)
           /\ \A cond, bad :
                 Fails(w, l, cond, bad) /\ Height(bad) < Height(l) => Wears(w)
           /\ \A good, bad :
                 (\/ AwaitProducer(w, l, good, bad) \/ AwaitPsql(w, l, good, bad)
                  \/ AwaitConsumer(w, l, good, bad))
                 /\ Height(good) < Height(l) /\ Height(bad) < Height(l) => Wears(w)
           /\ \A l2 : CopyFiles(w, l, l2)
                      /\ Height(l2) < Height(l) /\ Height("hung") < Height(l) => Wears(w)
           /\ \A l2 : Download(w, l, l2)
                      /\ Height(l2) < Height(l) /\ Height("failed") < Height(l) => Wears(w)
<1>1. ASSUME NEW l2, Ok(w, l, l2) \/ Bad(w, l, l2), Height(l2) < Height(l),
             pipe' = pipe \/ EvictAll
      PROVE  Wears(w)
  <2>1. Proceed(w, l, l2, file[w])
    BY <1>1 DEF Ok, Bad
  <2> QED
    BY <1>1, <2>1, Wearing
<1>2. ASSUME NEW cond, NEW good, NEW bad, Pass(w, l, cond, good, bad),
             Height(good) < Height(l), Height(bad) < Height(l)
      PROVE  Wears(w)
  <2>1. pipe' = pipe /\ (Ok(w, l, good) \/ Ok(w, l, bad) \/ Bad(w, l, bad))
    BY <1>2 DEF Pass
  <2> QED
    BY <1>1, <1>2, <2>1
<1>3. ASSUME NEW cond, NEW bad, Fails(w, l, cond, bad), Height(bad) < Height(l)
      PROVE  Wears(w)
  <2>1. pipe' = pipe /\ (Ok(w, l, bad) \/ Bad(w, l, bad))
    BY <1>3 DEF Fails
  <2> QED
    BY <1>1, <1>3, <2>1
<1>4. ASSUME NEW good, NEW bad,
             AwaitProducer(w, l, good, bad) \/ AwaitPsql(w, l, good, bad)
             \/ AwaitConsumer(w, l, good, bad),
             Height(good) < Height(l), Height(bad) < Height(l)
      PROVE  Wears(w)
  <2>1. pipe' = pipe /\ (Ok(w, l, good) \/ Ok(w, l, bad))
    BY <1>4 DEF AwaitProducer, AwaitPsql, AwaitConsumer
  <2> QED
    BY <1>1, <1>4, <2>1
<1>5. ASSUME NEW l2, CopyFiles(w, l, l2), Height(l2) < Height(l), Height("hung") < Height(l)
      PROVE  Wears(w)
  <2>1. /\ pipe' = pipe
        /\ Ok(w, l, l2) \/ Bad(w, l, l2) \/ Bad(w, l, "hung")
    BY <1>5 DEF CopyFiles
  <2> QED
    BY <1>1, <1>5, <2>1
<1>6. ASSUME NEW l2, Download(w, l, l2), Height(l2) < Height(l),
             Height("failed") < Height(l)
      PROVE  Wears(w)
  <2>1. /\ pipe' = pipe
        /\ Proceed(w, l, l2, store) \/ Ok(w, l, "failed") \/ Bad(w, l, "failed")
    BY <1>6 DEF Download
  <2>2. CASE Proceed(w, l, l2, store)
    BY <1>6, <2>1, <2>2, Wearing
  <2> QED
    BY <1>1, <1>6, <2>1, <2>2
<1>7. \A l2 : (Ok(w, l, l2) \/ Bad(w, l, l2)) /\ Height(l2) < Height(l)
             /\ (pipe' = pipe \/ EvictAll) => Wears(w)
  BY <1>1
<1>8. \A cond, good, bad :
         Pass(w, l, cond, good, bad)
         /\ Height(good) < Height(l) /\ Height(bad) < Height(l) => Wears(w)
  BY <1>2
<1>9. \A cond, bad : Fails(w, l, cond, bad) /\ Height(bad) < Height(l) => Wears(w)
  BY <1>3
<1>10. \A good, bad :
         (\/ AwaitProducer(w, l, good, bad) \/ AwaitPsql(w, l, good, bad)
          \/ AwaitConsumer(w, l, good, bad))
         /\ Height(good) < Height(l) /\ Height(bad) < Height(l) => Wears(w)
  BY <1>4
<1>11. \A l2 : CopyFiles(w, l, l2)
              /\ Height(l2) < Height(l) /\ Height("hung") < Height(l) => Wears(w)
  BY <1>5
<1>12. \A l2 : Download(w, l, l2)
              /\ Height(l2) < Height(l) /\ Height("failed") < Height(l) => Wears(w)
  BY <1>6
<1> QED
  BY <1>7, <1>8, <1>9, <1>10, <1>11, <1>12

LEMMA BackupWears ==
    ASSUME TypeOK, NEW w \in Workers, BackupStep(w)
    PROVE  Wears(w)
<1>1. /\ \A l \in Idle : Height(l) = 0
      /\ Height("hung") = 1 /\ Height("b_files") = 2 /\ Height("b_upload") = 3
      /\ Height("b_sum") = 4 /\ Height("b_gzipped") = 5 /\ Height("b_dumped") = 6
      /\ Height("b_dump") = 7 + Pending /\ Height("b_check") = 8 + Pending
  BY DEF Height, Idle
<1>2. Height("failed") = 0 /\ Height("ok") = 0
  BY <1>1 DEF Idle
<1>3. CASE ValidateForBackup(w)
  BY <1>1, <1>2, <1>3, Heights, WearingShapes DEF ValidateForBackup
<1>4. CASE StartDump(w)
  <2>1. CASE Pour(w, "b_dump", "b_dumped", "dump", [of |-> db, whole |-> TRUE],
                  [of |-> db, whole |-> FALSE])
    BY <1>1, <2>1, Heights, Pourer
  <2>2. CASE Fails(w, "b_dump", "pg" \notin stack \/ db = None, "failed")
    BY <1>1, <1>2, <2>2, Heights, WearingShapes
  <2>3. CASE Spill(w, "b_dump", "failed", "dump", [of |-> db, whole |-> TRUE])
    BY <1>1, <1>2, <2>3, Heights, Spiller
  <2> QED
    BY <1>4, <2>1, <2>2, <2>3 DEF StartDump
<1>5. CASE AwaitDump(w)
  BY <1>1, <1>2, <1>5, WearingShapes DEF AwaitDump
<1>6. CASE AwaitGzip(w)
  BY <1>1, <1>2, <1>6, WearingShapes DEF AwaitGzip
<1>7. CASE ChecksumDump(w)
  <2>1. pipe' = pipe /\ (Ok(w, "b_sum", "b_upload") \/ Bad(w, "b_sum", "failed"))
    BY <1>7 DEF ChecksumDump, Pass
  <2> QED
    BY <1>1, <1>2, <2>1, WearingShapes
<1>8. CASE Upload(w)
  <2>1. pipe' = pipe /\ (Ok(w, "b_upload", "b_files") \/ Bad(w, "b_upload", "failed"))
    BY <1>8 DEF Upload
  <2> QED
    BY <1>1, <1>2, <2>1, WearingShapes
<1>9. CASE BackupStorage(w)
  BY <1>1, <1>2, <1>9, WearingShapes DEF BackupStorage
<1> QED
  BY <1>3, <1>4, <1>5, <1>6, <1>7, <1>8, <1>9 DEF BackupStep

LEMMA RestoreWears ==
    ASSUME TypeOK, NEW w \in Workers, RestoreStep(w)
    PROVE  Wears(w)
<1>1. /\ Height("failed") = 0 /\ Height("ok") = 0 /\ Height("hung") = 1
      /\ Height("r_health") = 1 /\ Height("r_restart") = 2 /\ Height("r_files") = 3
      /\ Height("r_auth") = 4 /\ Height("r_loaded") = 5 /\ Height("r_fed") = 6
      /\ Height("r_load") = 7 + Pending /\ Height("r_create") = 8 + Pending
      /\ Height("r_drop") = 9 + Pending /\ Height("r_pg") = 10 + Pending
      /\ Height("r_stop") = 11 + Pending /\ Height("r_sum") = 12 + Pending
      /\ Height("r_download") = 13 + Pending /\ Height("r_check") = 14 + Pending
  BY DEF Height
<1>2. CASE ValidateForRestore(w)
  <2>1. /\ pipe' = pipe
        /\ Ok(w, "r_check", "r_download") \/ Bad(w, "r_check", "failed")
    BY <1>2 DEF ValidateForRestore, Pass
  <2> QED
    BY <1>1, <2>1, Heights, WearingShapes
<1>3. CASE DownloadToRestore(w)
  BY <1>1, <1>3, Heights, WearingShapes DEF DownloadToRestore
<1>4. CASE ChecksumToRestore(w)
  <2>1. Height(StopOrNot(w)) < Height("r_sum")
    BY <1>1, Heights DEF StopOrNot
  <2> QED
    BY <1>1, <1>4, <2>1, Heights, WearingShapes, Checking
<1>5. CASE StopInstance(w)
  <2>1. /\ pipe' = pipe \/ EvictAll
        /\ Ok(w, "r_stop", "r_pg") \/ Bad(w, "r_stop", "failed")
    BY <1>5 DEF StopInstance, Switch
  <2> QED
    BY <1>1, <2>1, Heights, WearingShapes
<1>6. CASE FindPostgres(w)
  <2>1. pipe' = pipe /\ (Ok(w, "r_pg", "r_drop") \/ Bad(w, "r_pg", "failed"))
    BY <1>6 DEF FindPostgres
  <2> QED
    BY <1>1, <2>1, Heights, WearingShapes
<1>7. CASE DropDatabase(w)
  <2>1. /\ pipe' = pipe
        /\ \/ Ok(w, "r_drop", "r_create") \/ Ok(w, "r_drop", "failed")
           \/ Bad(w, "r_drop", "failed")
    BY <1>7 DEF DropDatabase
  <2> QED
    BY <1>1, <2>1, Heights, WearingShapes
<1>8. CASE CreateDatabase(w)
  <2>1. /\ pipe' = pipe
        /\ \/ Ok(w, "r_create", "r_load") \/ Ok(w, "r_create", "failed")
           \/ Bad(w, "r_create", "failed")
    BY <1>8 DEF CreateDatabase
  <2> QED
    BY <1>1, <2>1, Heights, WearingShapes
<1>9. CASE StartLoad(w)
  <2>1. CASE Pour(w, "r_load", "r_fed", "load", file[w], file[w])
    BY <1>1, <2>1, Heights, Pourer
  <2>2. CASE Fails(w, "r_load", "pg" \notin stack \/ db = None, "failed")
    BY <1>1, <2>2, Heights, WearingShapes
  <2>3. CASE Spill(w, "r_load", "failed", "load", file[w])
    BY <1>1, <2>3, Heights, Spiller
  <2> QED
    BY <1>9, <2>1, <2>2, <2>3 DEF StartLoad
<1>10. CASE AwaitGunzip(w)
  BY <1>1, <1>10, WearingShapes DEF AwaitGunzip
<1>11. CASE AwaitLoad(w)
  BY <1>1, <1>11, WearingShapes DEF AwaitLoad
<1>12. CASE FixAuthPermissions(w)
  <2>1. /\ pipe' = pipe
        /\ \/ Ok(w, "r_auth", "r_files") \/ Ok(w, "r_auth", "failed")
           \/ Bad(w, "r_auth", "failed")
    BY <1>12 DEF FixAuthPermissions
  <2> QED
    BY <1>1, <2>1, WearingShapes
<1>13. CASE RestoreStorage(w)
  BY <1>1, <1>13, WearingShapes DEF RestoreStorage
<1>14. CASE RestartInstance(w)
  <2>1. /\ pipe' = pipe \/ EvictAll
        /\ Ok(w, "r_restart", "r_health") \/ Bad(w, "r_restart", "failed")
    BY <1>14 DEF RestartInstance, Switch
  <2> QED
    BY <1>1, <2>1, WearingShapes
<1>15. CASE HealthCheck(w)
  <2>1. /\ pipe' = pipe
        /\ \/ Ok(w, "r_health", "ok") \/ Ok(w, "r_health", "failed")
           \/ Bad(w, "r_health", "failed")
    BY <1>15 DEF HealthCheck
  <2> QED
    BY <1>1, <2>1, WearingShapes
<1> QED
  BY <1>2, <1>3, <1>4, <1>5, <1>6, <1>7, <1>8, <1>9, <1>10, <1>11, <1>12, <1>13, <1>14,
     <1>15 DEF RestoreStep

LEMMA VerifyWears ==
    ASSUME TypeOK, NEW w \in Workers, VerifyStep(w)
    PROVE  Wears(w)
<1>1. /\ Height("failed") = 0 /\ Height("ok") = 0
      /\ Height("v_ok") = 1 /\ Height("v_failed") = 1 /\ Height("v_sane") = 2
      /\ Height("v_loaded") = 3 /\ Height("v_fed") = 4 /\ Height("v_load") = 5 + Pending
      /\ Height("v_create") = 6 + Pending /\ Height("v_gzip") = 7 + Pending
      /\ Height("v_sum") = 8 + Pending /\ Height("v_download") = 9 + Pending
  BY DEF Height
<1>2. CASE DownloadToVerify(w)
  BY <1>1, <1>2, Heights, WearingShapes DEF DownloadToVerify
<1>3. CASE ChecksumToVerify(w)
  BY <1>1, <1>3, Heights, WearingShapes DEF ChecksumToVerify
<1>4. CASE GzipIntegrity(w)
  <2>1. Height(DeepOrEnd(w)) < Height("v_gzip")
    BY <1>1, Heights DEF DeepOrEnd
  <2> QED
    BY <1>1, <1>4, <2>1, Heights, WearingShapes DEF GzipIntegrity
<1>5. CASE CreateTestDatabase(w)
  <2>1. /\ pipe' = pipe
        /\ \/ Ok(w, "v_create", "v_load") \/ Ok(w, "v_create", "failed")
           \/ Bad(w, "v_create", "failed")
    BY <1>5 DEF CreateTestDatabase
  <2> QED
    BY <1>1, <2>1, Heights, WearingShapes
<1>6. CASE StartTestLoad(w)
  <2>1. CASE Pour(w, "v_load", "v_fed", "test", file[w], file[w])
    BY <1>1, <2>1, Heights, Pourer
  <2>2. CASE Fails(w, "v_load", "pg" \notin stack, "v_failed")
    BY <1>1, <2>2, Heights, WearingShapes
  <2>3. CASE Spill(w, "v_load", "v_failed", "test", file[w])
    BY <1>1, <2>3, Heights, Spiller
  <2> QED
    BY <1>6, <2>1, <2>2, <2>3 DEF StartTestLoad
<1>7. CASE AwaitTestGunzip(w)
  BY <1>1, <1>7, WearingShapes DEF AwaitTestGunzip
<1>8. CASE AwaitTestLoad(w)
  BY <1>1, <1>8, WearingShapes DEF AwaitTestLoad
<1>9. CASE SanityChecks(w)
  <2>1. /\ pipe' = pipe
        /\ \/ Ok(w, "v_sane", "v_ok") \/ Ok(w, "v_sane", "v_failed")
           \/ Bad(w, "v_sane", "v_failed")
    BY <1>9 DEF SanityChecks
  <2> QED
    BY <1>1, <2>1, WearingShapes
<1>10. CASE DropTestDatabase(w)
  <2>1. PICK r \in {"ok", "failed"}, l \in {"v_ok", "v_failed"} :
           pipe' = pipe /\ (Ok(w, l, r) \/ Bad(w, l, r))
    BY <1>10 DEF DropTestDatabase
  <2>2. Height(r) < Height(l)
    BY <1>1
  <2> QED
    BY <2>1, <2>2, WearingShapes
<1> QED
  BY <1>2, <1>3, <1>4, <1>5, <1>6, <1>7, <1>8, <1>9, <1>10 DEF VerifyStep

\* The commands of a pipeline come to their end, too.
LEMMA FlowWears ==
    ASSUME TypeOK, NEW w \in Workers, Flow(w) \/ ProducerDies(w) \/ ConsumerDies(w)
    PROVE  Wears(w)
<1> DEFINE p == pipe[w]
           q == pipe'[w]
<1>1. pipe \in [Workers -> Pipes] /\ p \in Pipes /\ p.left \in Nat
  BY DumpAssumption DEF TypeOK, PipeOK, Pipes
<1>2. /\ pc' = pc
      /\ \/ /\ p.left > 0 /\ ~p.full
            /\ pipe' = [pipe EXCEPT ![w].left = @ - 1, ![w].full = TRUE]
         \/ p.full /\ pipe' = [pipe EXCEPT ![w].full = FALSE]
         \/ \E s \in {"ok", "err"} :
               \/ p.prod = "run" /\ pipe' = [pipe EXCEPT ![w].prod = s]
               \/ p.cons = "run" /\ pipe' = [pipe EXCEPT ![w].cons = s]
  <2>1. CASE ProducerEnds(w)
    <3>1. PICK s \in {"ok", "err"} :
             p.prod = "run" /\ pipe' = [pipe EXCEPT ![w].prod = s]
      BY <2>1 DEF ProducerEnds
    <3> QED
      BY <2>1, <3>1 DEF ProducerEnds, others
  <2> QED
    BY <2>1 DEF Flow, Produce, BrokenPipe, Consume, ConsumerEnds, ProducerDies,
                ConsumerDies, others
<1>3. \A v \in Workers \ {w} : pipe'[v] = pipe[v]
  BY <1>1, <1>2
<1>4. Fill(q) \in Nat /\ Fill(q) < Fill(p)
  <2>1. CASE p.left > 0 /\ ~p.full
             /\ pipe' = [pipe EXCEPT ![w].left = @ - 1, ![w].full = TRUE]
    <3>1. q.left = p.left - 1 /\ q.full /\ q.prod = p.prod /\ q.cons = p.cons
      BY <1>1, <2>1 DEF Pipes
    <3> QED
      BY <1>1, <2>1, <3>1 DEF Fill
  <2>2. CASE p.full /\ pipe' = [pipe EXCEPT ![w].full = FALSE]
    <3>1. q.left = p.left /\ ~q.full /\ q.prod = p.prod /\ q.cons = p.cons
      BY <1>1, <2>2 DEF Pipes
    <3> QED
      BY <1>1, <2>2, <3>1 DEF Fill
  <2>3. ASSUME NEW s \in {"ok", "err"}, p.prod = "run",
               pipe' = [pipe EXCEPT ![w].prod = s]
        PROVE  Fill(q) \in Nat /\ Fill(q) < Fill(p)
    <3>1. /\ q.left = p.left /\ q.full = p.full /\ q.prod = s /\ q.cons = p.cons
      BY <1>1, <2>3 DEF Pipes
    <3> QED
      BY <1>1, <2>3, <3>1 DEF Fill
  <2>4. ASSUME NEW s \in {"ok", "err"}, p.cons = "run",
               pipe' = [pipe EXCEPT ![w].cons = s]
        PROVE  Fill(q) \in Nat /\ Fill(q) < Fill(p)
    <3>1. /\ q.left = p.left /\ q.full = p.full /\ q.prod = p.prod /\ q.cons = s
      BY <1>1, <2>4 DEF Pipes
    <3> QED
      BY <1>1, <2>4, <3>1 DEF Fill
  <2> QED
    BY <1>2, <2>1, <2>2, <2>3, <2>4
<1>5. Fill(p) \in Nat /\ \A v \in Workers : Fill(pipe[v]) \in Nat
  BY <1>1, Fills
<1> HIDE DEF p, q
<1>6. Fill(pipe'[w]) \in Nat /\ Fill(pipe'[w]) < Fill(pipe[w])
  BY <1>4 DEF p, q
<1> QED
  BY <1>2, <1>3, <1>5, <1>6, Heights DEF Wears, ToGo

LEMMA KillWears ==
    ASSUME TypeOK, NEW w \in Workers, Kill(w)
    PROVE  Wears(w)
<1>1. /\ pc[w] \notin Idle /\ pc[w] \in Labels
      /\ Bad(w, pc[w], "killed") /\ pipe' = pipe
  BY DEF Kill, TypeOK, ControlOK
<1>2. Height("killed") = 0 /\ Height(pc[w]) > 0
  BY <1>1, Heights DEF Idle
<1> QED
  BY <1>1, <1>2, WearingShapes

\* Each step but the start of a job and a write of the services uses up what some
\* job has yet to do.
THEOREM WornOut == Spec => JobsWearOut
<1> DEFINE Body ==
        \/ jobs' = jobs + 1
        \/ \E w \in Workers : Wears(w)
        \/ Use /\ \A w \in Workers : ToGo(w)' = ToGo(w)
<1>1. ASSUME TypeOK, [Next]_vars
      PROVE  [Body]_vars
  <2>2. ASSUME NEW w \in Workers,
               \/ BackupStep(w) \/ RestoreStep(w) \/ VerifyStep(w) \/ Kill(w)
               \/ Flow(w) \/ ProducerDies(w) \/ ConsumerDies(w)
        PROVE  Wears(w)
    BY <1>1, <2>2, BackupWears, RestoreWears, VerifyWears, KillWears, FlowWears
  <2>3. ASSUME NEW w \in Workers, BeginBackup(w) \/ BeginRestore(w) \/ BeginVerify(w)
        PROVE  jobs' = jobs + 1
    BY <2>3 DEF BeginBackup, BeginRestore, BeginVerify, Begin
  <2>4. ASSUME Use
        PROVE  \A w \in Workers : ToGo(w)' = ToGo(w)
    BY <2>4 DEF Use, others, ToGo
  <2> QED
    BY <1>1, <2>2, <2>3, <2>4 DEF Next
<1> QED
  BY <1>1, BackupTypes, PTL DEF Spec, JobsWearOut
-----------------------------------------------------------------------------
\* A command of w's pipeline has its next step to take: the guards of Flow.
Stirs(w) ==
    LET p == pipe[w] IN
    \/ p.prod = "run" /\ p.left > 0 /\ ~p.full
    \/ p.prod = "run" /\ p.left = 0
    \/ p.prod = "run" /\ p.cons = "err" /\ pc[w] \notin Holding
    \/ p.cons = "run" /\ p.full
    \/ p.cons = "run" /\ EndOfFile(w)

\* A pipeline with a command still running moves, whatever has died of it and
\* however much there is to come, but for the producer that a dead consumer leaves
\* blocked while the agent holds the pipe (backup.go:136, 412, verify.go:257): what
\* NoJobStuck says of the steps at which a job waits.
PipelinesMove == \A w \in Workers : ~Quiet(w) => Blocked(w) \/ Stirs(w)

\* With the pipe full a consumer reads, or is dead and has the producer blocked or
\* broken off; with the pipe empty a producer writes or ends, and the end of file
\* comes to the consumer.
THEOREM PipelinesDrain == Spec => []PipelinesMove
<1>1. IInv => PipelinesMove
  <2> SUFFICES ASSUME IInv, NEW w \in Workers, ~Quiet(w), ~Blocked(w)
               PROVE  Stirs(w)
    BY DEF PipelinesMove
  <2> DEFINE p == pipe[w]
  <2>1. p \in Pipes /\ PipeSound(w)
    BY DEF IInv, Sound, TypeOK, PipeOK
  <2>2. p.left \in Nat /\ p.full \in BOOLEAN
        /\ p.cons \in {"off", "run", "ok", "err"}
    BY <2>1, DumpAssumption DEF Pipes
  <2>3. CASE p.prod = "run"
    <3>1. p.cons \in {"run", "err"}
      BY <2>1, <2>2, <2>3 DEF PipeSound
    <3> QED
      BY <2>2, <2>3, <3>1 DEF Stirs, Blocked
  <2>4. CASE p.prod # "run"
    BY <2>2, <2>4 DEF Quiet, Stirs, EndOfFile
  <2> QED
    BY <2>3, <2>4
<1> QED
  BY <1>1, Soundness, PTL
=============================================================================
