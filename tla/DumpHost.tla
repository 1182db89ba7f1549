------------------------------ MODULE DumpHost ------------------------------
(* What backup, restore and verification of one Supabase instance share: its *)
(* database and containers, the object in the store, and for each job the    *)
(* pipeline of two commands that the agent starts, waits for and looks at in *)
(* that order.  Docker, Postgres, gzip and the store are external.           *)
EXTENDS Naturals, FiniteSets

CONSTANTS
    Workers,    \* CLI processes
    Contents,   \* what the database may hold
    None,       \* no database, object, checksum or file
    Empty,      \* a database as CREATE DATABASE makes it
    Partial,    \* a database loaded in part
    Chunks,     \* pipe-fulls in a dump
    MaxJobs,    \* jobs begun
    MaxFaults   \* commands that fail of themselves

ASSUME DumpAssumption ==
    /\ Cardinality({None, Empty, Partial}) = 3
    /\ {None, Empty, Partial} \cap Contents = {}
    /\ Chunks \in Nat \ {0, 1}
    /\ MaxJobs \in Nat /\ MaxFaults \in Nat

VARIABLES
    db,       \* the database "postgres"
    stack,    \* which of postgres and the services that log in to it run
    own,      \* psql without -d connects to "postgres" itself
    store,    \* the object the presigned URLs lead to
    meta,     \* the dump whose checksum the last finished backup reported
    pc,       \* where each job is
    job,      \* its configuration
    file,     \* its file in /tmp
    test,     \* its test database
    pipe,     \* its pipeline
    jobs,     \* jobs begun so far
    faults,   \* failures of themselves so far
    hit,      \* one of them was in this job
    alone,    \* nothing else ran beside it (properties only)
    flaw      \* its psql skipped errors, or its death was excused (properties only)

host == <<db, stack, own, store, meta>>
vars == <<host, pc, job, file, test, pipe, jobs, faults, hit, alone, flaw>>

Idle  == {"idle", "ok", "failed", "killed"}
Bases == Contents \cup {Empty, Partial}

\* A compressed dump: of what, and whether to its end.
Dumps == [of : Bases, whole : BOOLEAN]

ASSUME NoneAssumption == None \notin Dumps

Running == {"pg", "app"}
-----------------------------------------------------------------------------
(* The pipeline                                                              *)
Pipes == [what : {"none", "dump", "load", "test"},
          src  : Dumps \cup {None},
          prod : {"off", "run", "ok", "err"}, cons : {"off", "run", "ok", "err"},
          left : 0..Chunks, full : BOOLEAN]
NoPipe == [what |-> "none", src |-> None, prod |-> "off", cons |-> "off",
           left |-> 0, full |-> FALSE]

\* A torn archive has less to give.
Started(what, src) ==
    [what |-> what, src |-> src, prod |-> "run", cons |-> "run",
     left |-> IF src.whole THEN Chunks ELSE Chunks - 1, full |-> FALSE]

\* Until it has waited for the producer the agent holds the reading end as well,
\* so that a producer without a consumer gets no SIGPIPE.
Holding == {"b_dumped", "r_fed", "v_fed"}

\* The processes of w's pipeline have ended.
Quiet(w) == pipe[w].prod # "run" /\ pipe[w].cons # "run"

\* Everything there was has been read.
Complete(p) == p.src # None /\ p.src.whole /\ p.left = 0 /\ ~p.full

\* The consumer dead, more than a pipe-full to come: the producer is blocked, and
\* the agent waits for it.
Blocked(w) ==
    /\ pc[w] \in Holding /\ pipe[w].prod = "run" /\ pipe[w].cons = "err"
    /\ pipe[w].full /\ pipe[w].left > 0

others == <<pc, job, jobs, alone, flaw>>

\* Something of job w fails of itself.
Hit(w) ==
    /\ faults < MaxFaults /\ faults' = faults + 1
    /\ hit' = [hit EXCEPT ![w] = TRUE]

Produce(w) ==
    /\ pipe[w].prod = "run" /\ pipe[w].left > 0 /\ ~pipe[w].full
    /\ pipe' = [pipe EXCEPT ![w].left = @ - 1, ![w].full = TRUE]
    /\ UNCHANGED <<host, others, file, test, faults, hit>>

\* gunzip complains of an archive that ends too soon.
ProducerEnds(w) ==
    /\ pipe[w].prod = "run" /\ pipe[w].left = 0
    /\ pipe' = [pipe EXCEPT ![w].prod = IF pipe[w].src.whole THEN "ok" ELSE "err"]
    /\ UNCHANGED <<host, others, file, test, faults, hit>>

\* With the agent gone nobody but the consumer holds the reading end.
BrokenPipe(w) ==
    /\ pipe[w].prod = "run" /\ pipe[w].cons = "err" /\ pc[w] \notin Holding
    /\ pipe' = [pipe EXCEPT ![w].prod = "err"]
    /\ UNCHANGED <<host, others, file, test, faults, hit>>

\* What a consumer has made of what it has read so far.
Sink(w, base, whole) ==
    LET p == pipe[w] IN
    /\ db' = IF p.what = "load" THEN base ELSE db
    /\ test' = IF p.what = "test" THEN [test EXCEPT ![w] = base] ELSE test
    /\ file' = IF p.what = "dump" /\ file[w] # None
               THEN [file EXCEPT ![w].whole = whole] ELSE file
    /\ UNCHANGED <<stack, own, store, meta>>

Consume(w) ==
    /\ pipe[w].cons = "run" /\ pipe[w].full
    /\ pipe' = [pipe EXCEPT ![w].full = FALSE]
    /\ Sink(w, Partial, FALSE)
    /\ UNCHANGED <<others, faults, hit>>

\* Mutant: the agent keeps the writing end open, and no end of file ever comes.
EndOfFileNever(w) == FALSE

\* The producer is gone and the pipe empty.
EndOfFile(w) == pipe[w].prod # "run" /\ ~pipe[w].full

\* Without ON_ERROR_STOP psql exits with 0 whatever statements it had to skip.
ConsumerEnds(w) ==
    /\ pipe[w].cons = "run" /\ EndOfFile(w)
    /\ pipe' = [pipe EXCEPT ![w].cons = "ok"]
    /\ UNCHANGED <<pc, job, jobs, alone>>
    /\ \/ /\ Sink(w, IF Complete(pipe[w]) THEN pipe[w].src.of ELSE Partial,
                  Complete(pipe[w]))
          /\ UNCHANGED <<faults, hit, flaw>>
       \/ /\ pipe[w].what \in {"load", "test"}
          /\ Sink(w, Partial, FALSE)
          /\ Hit(w)
          /\ flaw' = [flaw EXCEPT ![w] = TRUE]

\* A command is killed, runs out of disk, or loses its container.
ProducerDies(w) ==
    /\ pipe[w].prod = "run" /\ Hit(w)
    /\ pipe' = [pipe EXCEPT ![w].prod = "err"]
    /\ UNCHANGED <<host, others, file, test>>

ConsumerDies(w) ==
    /\ pipe[w].cons = "run" /\ Hit(w)
    /\ pipe' = [pipe EXCEPT ![w].cons = "err"]
    /\ UNCHANGED <<host, others, file, test>>

Flow(w) ==
    \/ Produce(w) \/ ProducerEnds(w) \/ BrokenPipe(w) \/ Consume(w)
    \/ ConsumerEnds(w)
-----------------------------------------------------------------------------
(* Postgres and docker compose                                               *)
\* Stopping the container ends the pg_dump and psql that run in it.
Evicted(p) ==
    [p EXCEPT !.prod = IF p.what = "dump" /\ @ = "run" THEN "err" ELSE @,
              !.cons = IF p.what \in {"load", "test"} /\ @ = "run" THEN "err" ELSE @]
EvictAll == pipe' = [v \in Workers |-> Evicted(pipe[v])]

\* Somebody is connected to "postgres", which cannot be dropped then.
InUse ==
    \/ own
    \/ stack = Running
    \/ \E v \in Workers : \/ pipe[v].what = "dump" /\ pipe[v].prod = "run"
                          \/ pipe[v].what = "load" /\ pipe[v].cons = "run"

\* psql without -d finds a database to connect to.
Reachable == "pg" \in stack /\ (own => db # None)

\* The services change the database.
Use ==
    /\ stack = Running /\ db \in Contents
    /\ db' \in Contents \ {db}
    /\ UNCHANGED <<stack, own, store, meta, others, file, test, pipe, faults, hit>>
=============================================================================
