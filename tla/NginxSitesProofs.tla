-------------------------- MODULE NginxSitesProofs ---------------------------
(* Proofs about NginxSites, for any workers, sites, jobs and faults.         *)
EXTENDS NginxSites, TLAPS

\* What a step of a job does to the jobs.
Moves(w, l, l2) ==
    /\ ControlOK'
    /\ pc[w] = l /\ pc'[w] = l2 /\ job[w] \in Jobs
    /\ \A v \in Workers \ {w} : pc'[v] = pc[v] /\ job'[v] = job[v]
    /\ l2 \notin Idle => job'[w] = job[w]
    /\ beside' = beside
    /\ \/ touched' = touched
       \/ /\ l2 = "ok" /\ touched' = [touched EXCEPT ![job[w].site] = FALSE]
          /\ \A v \in Workers \ {w} : job[v].site # job[w].site

LEMMA Proceeding ==
    ASSUME ControlOK, NEW w \in Workers, NEW l \in Labels \ Idle, NEW l2 \in Labels,
           Ok(w, l, l2) \/ Bad(w, l, l2)
    PROVE  Moves(w, l, l2)
<1> USE DEF ControlOK
<1>1. Proceed(w, l, l2)
  BY DEF Ok, Bad
<1>2. faults' \in 0..MaxFaults /\ hit' \in [Workers -> BOOLEAN]
  <2>1. CASE Ok(w, l, l2)
    BY <2>1 DEF Ok
  <2>2. CASE Bad(w, l, l2)
    BY <2>2, SitesAssumption DEF Bad, Hit
  <2> QED
    BY <2>1, <2>2
<1>3. pc[w] = l /\ pc' = [pc EXCEPT ![w] = l2] /\ job[w] \in Jobs
  BY <1>1 DEF Proceed
<1>4. /\ job' \in [Workers -> Jobs \cup {NoJob}]
      /\ \A v \in Workers \ {w} : job'[v] = job[v]
      /\ l2 \notin Idle => job'[w] = job[w]
  <2>1. CASE l2 \in Idle
    BY <1>1, <2>1 DEF Proceed
  <2>2. CASE l2 \notin Idle
    BY <1>1, <2>2 DEF Proceed
  <2> QED
    BY <2>1, <2>2
<1>5. held' \in [Workers -> Confs \cup {Blank}]
  <2>1. CASE l2 \in Idle
    BY <1>1, <2>1 DEF Proceed
  <2>2. CASE l2 \notin Idle
    BY <1>1, <2>2 DEF Proceed
  <2> QED
    BY <2>1, <2>2
<1>6. \/ touched' = touched
      \/ /\ l2 = "ok" /\ touched' = [touched EXCEPT ![job[w].site] = FALSE]
         /\ \A v \in Workers \ {w} : job[v].site # job[w].site
  <2> DEFINE same == {v \in Workers \ {w} : job[v].site = job[w].site}
  <2>1. CASE l2 = "ok" /\ same = {}
    <3>1. touched' = [touched EXCEPT ![job[w].site] = FALSE]
      BY <1>1, <2>1 DEF Proceed
    <3> QED
      BY <2>1, <3>1
  <2>2. CASE ~(l2 = "ok" /\ same = {})
    BY <1>1, <2>2 DEF Proceed
  <2> QED
    BY <2>1, <2>2
<1>7. touched' \in [Sites -> BOOLEAN]
  BY <1>6
<1>8. UNCHANGED <<jobs, beside, sound>>
  BY <1>1 DEF Proceed
<1>9. pc' \in [Workers -> Labels] /\ pc'[w] = l2
      /\ \A v \in Workers \ {w} : pc'[v] = pc[v]
  BY <1>3
<1>10. \A v \in Workers : pc'[v] \notin Idle => job'[v] \in Jobs
  BY <1>3, <1>4, <1>9
<1> QED
  BY <1>2, <1>3, <1>4, <1>5, <1>6, <1>7, <1>8, <1>9, <1>10 DEF Moves

\* What a step of a job does to the disk and the server: a site other than its own
\* changes only by what the server loads, and a job that succeeds has just loaded.
Effect(w) ==
    /\ DiskOK'
    /\ \A s \in Sites : s # job[w].site => site'[s] = site[s]
    /\ loaded' = loaded \/ (loaded' = Served /\ site' = site)
    /\ pc'[w] = "ok" => loaded' = Served /\ site' = site

Step(w) ==
    /\ \E l \in Labels \ Idle, l2 \in Labels : Moves(w, l, l2)
    /\ Effect(w)

LEMMA ServedOK ==
    ASSUME DiskOK, Valid
    PROVE  Served \in [Sites -> {"none", "http", "https"}]
<1>1. CASE Included = 0
  BY <1>1 DEF Served
<1>2. CASE Included # 0
  <2>1. Included > 0
    BY <1>2 DEF Included, DiskOK, Confs
  <2>2. \A s \in Sites : site[s] # "broken"
    BY <2>1 DEF Valid, Present, Loadable
  <2>3. Served = site
    BY <1>2 DEF Served
  <2> QED
    BY <2>2, <2>3 DEF DiskOK
<1> QED
  BY <1>1, <1>2

LEMMA Testing ==
    ASSUME TypeOK, NEW w \in Workers, NEW l \in Labels \ Idle,
           NEW good \in Labels \ {"ok"}, NEW bad \in Labels \ {"ok"}, Test(w, l, good, bad)
    PROVE  Step(w)
<1>1. PICK l2 \in {good, bad} : Ok(w, l, l2) \/ Bad(w, l, l2)
  BY DEF Test
<1>2. Moves(w, l, l2)
  BY <1>1, Proceeding DEF TypeOK
<1>3. Effect(w)
  BY <1>2 DEF Effect, Test, TypeOK, DiskOK, disk, Moves
<1> QED
  BY <1>2, <1>3 DEF Step

LEMMA Reloading ==
    ASSUME TypeOK, NEW w \in Workers, NEW l \in Labels \ Idle,
           NEW good \in Labels, Reload(w, l, good)
    PROVE  Step(w)
<1>1. PICK l2 \in {good, "failed"} : Ok(w, l, l2) \/ Bad(w, l, l2)
  BY DEF Reload
<1>2. l2 \in Labels
  BY DEF Labels, Idle
<1>3. Moves(w, l, l2)
  BY <1>1, <1>2, Proceeding DEF TypeOK
<1>4. \/ loaded' = loaded /\ pc'[w] = "failed"
      \/ Valid /\ loaded' = Served
  <2>1. CASE Valid /\ Ok(w, l, good) /\ loaded' = Served
    BY <2>1
  <2>2. CASE ~Valid /\ Ok(w, l, "failed") /\ UNCHANGED loaded
    <3>1. pc'[w] = "failed"
      BY <2>2 DEF Ok, Proceed, TypeOK, ControlOK
    <3> QED
      BY <2>2, <3>1
  <2>3. CASE Bad(w, l, "failed") /\ loaded' \in {loaded, IF Valid THEN Served ELSE loaded}
    <3>1. pc'[w] = "failed"
      BY <2>3 DEF Bad, Proceed, TypeOK, ControlOK
    <3> QED
      BY <2>3, <3>1
  <2> QED
    BY <2>1, <2>2, <2>3 DEF Reload
<1>5. UNCHANGED <<conf, site, cert>>
  BY DEF Reload
<1>6. loaded' \in [Sites -> {"none", "http", "https"}]
  BY <1>4, ServedOK DEF TypeOK, DiskOK
<1>7. Effect(w)
  BY <1>4, <1>5, <1>6 DEF Effect, TypeOK, DiskOK
<1> QED
  BY <1>2, <1>3, <1>7 DEF Step

\* The three parts of a function that edits nginx.conf.
LEMMA Looking ==
    ASSUME TypeOK, NEW w \in Workers, NEW l \in Labels \ Idle, NEW there \in BOOLEAN,
           NEW t \in Labels \ Idle, NEW l2 \in Labels \ Idle, Look(w, l, there, t, l2)
    PROVE  Step(w)
<1>1. CASE Ok(w, l, l2) \/ Bad(w, l, "failed")
  <2>1. PICK m \in {l2, "failed"} : Ok(w, l, m) \/ Bad(w, l, m)
    BY <1>1
  <2>2. Moves(w, l, m)
    BY <2>1, Proceeding DEF TypeOK, Labels, Idle
  <2>3. UNCHANGED disk
    <3>1. pc'[w] # t \/ t = l2 \/ UNCHANGED disk
      BY DEF Look
    <3> QED
      BY DEF Look
  <2>4. Effect(w)
    BY <2>2, <2>3 DEF Effect, TypeOK, DiskOK, disk, Moves, Idle
  <2> QED
    BY <2>2, <2>4 DEF Step, Labels, Idle
<1>2. CASE /\ pc[w] = l
           /\ pc' = [pc EXCEPT ![w] = t]
           /\ held' = [held EXCEPT ![w] = conf]
           /\ UNCHANGED <<disk, job, jobs, faults, hit, beside, sound, touched>>
  <2>1. pc'[w] = t /\ pc' \in [Workers -> Labels]
        /\ \A v \in Workers \ {w} : pc'[v] = pc[v]
    BY <1>2 DEF TypeOK, ControlOK
  <2>2. held' \in [Workers -> Confs \cup {Blank}]
    BY <1>2 DEF TypeOK, ControlOK, DiskOK
  <2>3. job[w] \in Jobs
    BY <1>2 DEF TypeOK, ControlOK
  <2>4. ControlOK'
    BY <1>2, <2>1, <2>2, <2>3 DEF TypeOK, ControlOK
  <2>5. Moves(w, l, t)
    BY <1>2, <2>1, <2>3, <2>4 DEF Moves
  <2>6. Effect(w)
    BY <1>2, <2>1 DEF Effect, TypeOK, DiskOK, disk, Idle
  <2> QED
    BY <2>5, <2>6 DEF Step
<1> QED
  BY <1>1, <1>2 DEF Look

LEMMA Truncating ==
    ASSUME TypeOK, NEW w \in Workers, NEW t \in Labels \ Idle, NEW r \in Labels \ Idle,
           Truncate(w, t, r)
    PROVE  Step(w)
<1>1. PICK m \in {r, "failed"} : Ok(w, t, m) \/ Bad(w, t, m)
  BY DEF Truncate
<1>2. Moves(w, t, m)
  BY <1>1, Proceeding DEF TypeOK, Labels, Idle
<1>3. conf' \in {conf, Blank} /\ UNCHANGED <<site, cert, loaded>>
  BY DEF Truncate
<1>4. Effect(w)
  BY <1>2, <1>3 DEF Effect, TypeOK, DiskOK, Moves, Idle
<1> QED
  BY <1>2, <1>4 DEF Step, Labels, Idle

LEMMA Writing ==
    ASSUME TypeOK, NEW w \in Workers, NEW r \in Labels \ Idle,
           NEW made \in Confs \cup {Blank}, NEW l2 \in Labels \ Idle,
           Write(w, r, made, l2)
    PROVE  Step(w)
<1>1. PICK m \in {l2, "failed"} : Ok(w, r, m) \/ Bad(w, r, m)
  BY DEF Write
<1>2. Moves(w, r, m)
  BY <1>1, Proceeding DEF TypeOK, Labels, Idle
<1>3. conf' \in {made, Blank} /\ UNCHANGED <<site, cert, loaded>>
  BY DEF Write
<1>4. Effect(w)
  BY <1>2, <1>3 DEF Effect, TypeOK, DiskOK, Moves, Idle
<1> QED
  BY <1>2, <1>4 DEF Step, Labels, Idle

\* A step that leaves the disk alone and is no success.
LEMMA Watching ==
    ASSUME TypeOK, NEW w \in Workers, NEW l \in Labels \ Idle, NEW l2 \in Labels \ {"ok"},
           Ok(w, l, l2) \/ Bad(w, l, l2), UNCHANGED disk
    PROVE  Step(w)
<1>1. Moves(w, l, l2)
  BY Proceeding DEF TypeOK
<1>2. Effect(w)
  BY <1>1 DEF Effect, TypeOK, DiskOK, disk, Moves
<1> QED
  BY <1>1, <1>2 DEF Step

LEMMA ConfsHold ==
    /\ \A c \in Confs \cup {Blank} : WithZones(c) \in Confs \cup {Blank}
    /\ \A c \in Confs \cup {Blank} : WithBucket(c) \in Confs \cup {Blank}
    /\ \A c \in Confs : c.include # 2 => [c EXCEPT !.include = @ + 1] \in Confs
<1>1. ASSUME NEW c \in Confs, NEW n \in 0..2
      PROVE  /\ [c EXCEPT !.zones = n] \in Confs
             /\ [c EXCEPT !.include = n] \in Confs
             /\ [c EXCEPT !.bucket = TRUE] \in Confs
  <2> DEFINE N == 0..2
  <2> HIDE DEF N
  <2>1. c \in [include : N, zones : N, bucket : BOOLEAN] /\ n \in N
    BY DEF Confs, N
  <2>2. Confs = [include : N, zones : N, bucket : BOOLEAN]
    BY DEF Confs, N
  <2> QED
    BY <2>1, <2>2
<1>2. \A n \in 0..2 : n # 2 => n + 1 \in 0..2
  OBVIOUS
<1>3. \A c \in Confs : c.zones \in 0..2 /\ c.include \in 0..2
  BY DEF Confs
<1> QED
  BY <1>1, <1>2, <1>3 DEF WithZones, WithBucket

LEMMA InstallSteps ==
    ASSUME TypeOK, NEW w \in Workers, Install(w)
    PROVE  Step(w)
<1>1. CASE GrepInclude(w)
  <2>1. UNCHANGED disk /\ \E l2 \in {"i_zones", "i_sed"} : Ok(w, "i_grep", l2)
    BY <1>1 DEF GrepInclude
  <2> QED
    BY <2>1, Watching DEF Labels, Idle
<1>2. CASE AddInclude(w)
  <2>1. PICK m \in {"i_zones", "failed"} : Ok(w, "i_sed", m) \/ Bad(w, "i_sed", m)
    BY <1>2 DEF AddInclude
  <2>2. Moves(w, "i_sed", m)
    BY <2>1, Proceeding DEF TypeOK, Labels, Idle
  <2>3. conf' \in Confs \cup {Blank} /\ UNCHANGED <<site, cert, loaded>>
    BY <1>2, ConfsHold DEF AddInclude, TypeOK, DiskOK
  <2>4. Effect(w)
    BY <2>2, <2>3 DEF Effect, TypeOK, DiskOK, Moves, Idle
  <2> QED
    BY <2>2, <2>4 DEF Step, Labels, Idle
<1>3. CASE InstallZones(w)
  <2>1. WithZones(held[w]) \in Confs \cup {Blank} /\ ZonesThere \in BOOLEAN
    BY ConfsHold DEF TypeOK, ControlOK, ZonesThere
  <2> QED
    BY <1>3, <2>1, Looking, Truncating, Writing DEF InstallZones, AddZones, Labels, Idle
<1>4. CASE AddBucket(w)
  <2>1. /\ WithBucket(held[w]) \in Confs \cup {Blank}
        /\ (conf # Blank /\ conf.bucket) \in BOOLEAN
    BY ConfsHold DEF TypeOK, ControlOK, DiskOK, Confs
  <2> QED
    BY <1>4, <2>1, Looking, Truncating, Writing DEF AddBucket, Labels, Idle
<1>5. CASE InstallTest(w)
  BY <1>5, Testing DEF InstallTest, Labels, Idle
<1>6. CASE InstallReload(w)
  BY <1>6, Reloading DEF InstallReload, Labels, Idle
<1> QED
  BY <1>1, <1>2, <1>3, <1>4, <1>5, <1>6 DEF Install

\* A step that writes the job's site file, or some nothing, and is no success.
LEMMA SiteWriting ==
    ASSUME TypeOK, NEW w \in Workers, NEW l \in Labels \ Idle, NEW l2 \in Labels \ {"ok"},
           NEW k \in {"none", "http", "https", "broken"},
           Ok(w, l, l2) \/ Bad(w, l, l2),
           site' \in {site, [site EXCEPT ![job[w].site] = k]},
           UNCHANGED <<conf, cert, loaded>>
    PROVE  Step(w)
<1>1. Moves(w, l, l2)
  BY Proceeding DEF TypeOK
<1>2. /\ site' \in [Sites -> {"none", "http", "https", "broken"}]
      /\ \A s \in Sites : s # job[w].site => site'[s] = site[s]
  BY DEF TypeOK, DiskOK
<1>3. Effect(w)
  BY <1>1, <1>2 DEF Effect, TypeOK, DiskOK, Moves
<1> QED
  BY <1>1, <1>3 DEF Step

LEMMA CreateSiteSteps ==
    ASSUME TypeOK, NEW w \in Workers, CreateSite(w)
    PROVE  Step(w)
<1>1. CASE SiteZones(w)
  <2>1. WithZones(held[w]) \in Confs \cup {Blank} /\ ZonesThere \in BOOLEAN
    BY ConfsHold DEF TypeOK, ControlOK, ZonesThere
  <2> QED
    BY <1>1, <2>1, Looking, Truncating, Writing DEF SiteZones, AddZones, Labels, Idle
<1>2. CASE WriteSite(w)
  <2> DEFINE k == IF job[w].studio THEN Kind(w) ELSE "broken"
  <2>1. k \in {"none", "http", "https", "broken"}
    BY DEF Kind
  <2>2. CASE Ok(w, "s_file", "s_test") /\ site' = [site EXCEPT ![job[w].site] = k]
    <3> HIDE DEF k
    <3>1. UNCHANGED <<conf, cert, loaded>>
      BY <1>2 DEF WriteSite
    <3> QED
      BY <2>1, <2>2, <3>1, SiteWriting DEF Labels, Idle
  <2>3. CASE /\ Bad(w, "s_file", "failed")
             /\ site' \in {site, [site EXCEPT ![job[w].site] = "broken"]}
    <3>1. UNCHANGED <<conf, cert, loaded>>
      BY <1>2 DEF WriteSite
    <3> QED
      BY <2>3, <3>1, SiteWriting DEF Labels, Idle
  <2> QED
    BY <1>2, <2>2, <2>3 DEF WriteSite
<1>3. CASE SiteTest(w)
  BY <1>3, Testing DEF SiteTest, Labels, Idle
<1>4. CASE UndoSite(w)
  BY <1>4, SiteWriting DEF UndoSite, Labels, Idle
<1>5. CASE SiteReload(w)
  BY <1>5, Reloading DEF SiteReload, Labels, Idle
<1> QED
  BY <1>1, <1>2, <1>3, <1>4, <1>5 DEF CreateSite

LEMMA RemoveSiteSteps ==
    ASSUME TypeOK, NEW w \in Workers, RemoveSite(w)
    PROVE  Step(w)
<1>1. CASE RemoveFile(w)
  <2>1. UNCHANGED <<conf, cert, loaded>>
    BY <1>1 DEF RemoveFile
  <2>2. CASE Ok(w, "x_file", "x_test") /\ site' = [site EXCEPT ![job[w].site] = "none"]
    BY <2>1, <2>2, SiteWriting DEF Labels, Idle
  <2>3. CASE Bad(w, "x_file", "failed") /\ UNCHANGED site
    BY <2>1, <2>3, Watching DEF Labels, Idle, disk
  <2> QED
    BY <1>1, <2>2, <2>3 DEF RemoveFile
<1>2. CASE RemoveTest(w)
  BY <1>2, Testing DEF RemoveTest, Labels, Idle
<1>3. CASE RemoveReload(w)
  BY <1>3, Reloading DEF RemoveReload, Labels, Idle
<1> QED
  BY <1>1, <1>2, <1>3 DEF RemoveSite

LEMMA PairWriting ==
    ASSUME TypeOK, NEW w \in Workers, NEW dom \in {"main", "studio"},
           NEW l \in Labels \ Idle, NEW now \in Pairs, NEW l2 \in Labels \ Idle,
           WritePair(w, dom, l, now, l2)
    PROVE  Step(w)
<1>1. PICK m \in {l2, "failed"}, p \in Pairs :
         /\ Ok(w, l, m) \/ Bad(w, l, m)
         /\ cert' \in {cert, [cert EXCEPT ![job[w].site] = [@ EXCEPT ![dom] = p]]}
  BY DEF WritePair, Pairs
<1>2. Moves(w, l, m)
  BY <1>1, Proceeding DEF TypeOK, Labels, Idle
<1>3. cert' \in [Sites -> [main : Pairs, studio : Pairs]]
  <2>1. \A c \in [main : Pairs, studio : Pairs] :
           [c EXCEPT ![dom] = p] \in [main : Pairs, studio : Pairs]
    <3>1. CASE dom = "main"
      BY <3>1
    <3>2. CASE dom = "studio"
      BY <3>2
    <3> QED
      BY <3>1, <3>2
  <2> QED
    BY <1>1, <2>1 DEF TypeOK, DiskOK
<1>4. UNCHANGED <<conf, site, loaded>>
  BY DEF WritePair
<1>5. Effect(w)
  BY <1>2, <1>3, <1>4 DEF Effect, TypeOK, DiskOK, Moves, Idle
<1> QED
  BY <1>2, <1>5 DEF Step, Labels, Idle

LEMMA EnableTLSSteps ==
    ASSUME TypeOK, NEW w \in Workers, EnableTLS(w)
    PROVE  Step(w)
<1>1. AfterMain(w) \in Labels \ Idle
  BY DEF AfterMain, Labels, Idle
<1> QED
  BY <1>1, PairWriting DEF EnableTLS, WriteMain, WriteStudio, Labels, Idle, Pairs

LEMMA KillSteps ==
    ASSUME TypeOK, NEW w \in Workers, Kill(w)
    PROVE  Step(w)
BY Watching DEF Kill, TypeOK, ControlOK, Labels, Idle

LEMMA Stepping ==
    ASSUME TypeOK, NEW w \in Workers,
           Kill(w) \/ Install(w) \/ CreateSite(w) \/ RemoveSite(w) \/ EnableTLS(w)
    PROVE  Step(w)
BY KillSteps, InstallSteps, CreateSiteSteps, RemoveSiteSteps, EnableTLSSteps

LEMMA Beginning ==
    ASSUME TypeOK, NEW w \in Workers, BeginDeploy(w) \/ BeginRemove(w) \/ BeginTLS(w)
    PROVE  \E j \in Jobs : /\ TypeOK'
                           /\ job' = [job EXCEPT ![w] = j]
                           /\ touched' = [touched EXCEPT ![j.site] = TRUE]
                           /\ \A v \in Workers \ {w} : pc'[v] = pc[v]
                           /\ UNCHANGED disk
<1>1. PICK j \in Jobs, l \in {"i_grep", "x_file", "t_main1"} : Begin(w, j, l)
  BY DEF BeginDeploy, BeginRemove, BeginTLS
<1> DEFINE busy == {v \in Workers \ {w} : pc[v] \notin Idle}
<1>2. j.site \in Sites /\ \A x \in busy : job[x].site \in Sites
  BY DEF TypeOK, ControlOK, Jobs
<1>3. beside' \in [Workers -> SUBSET Sites]
  <2>1. beside' = [v \in Workers |->
                      IF v = w THEN {job[x].site : x \in busy}
                      ELSE IF v \in busy THEN beside[v] \cup {j.site} ELSE beside[v]]
    BY <1>1 DEF Begin
  <2>2. {job[x].site : x \in busy} \in SUBSET Sites
    BY <1>2
  <2> QED
    BY <1>2, <2>1, <2>2 DEF TypeOK, ControlOK
<1>4. sound' \in [Workers -> BOOLEAN]
  <2>1. (\A s \in Sites : Loadable(s)) \in BOOLEAN
    OBVIOUS
  <2> QED
    BY <1>1, <2>1 DEF Begin, TypeOK, ControlOK
<1>5. /\ pc' \in [Workers -> Labels] /\ job' \in [Workers -> Jobs \cup {NoJob}]
      /\ \A v \in Workers : pc'[v] \notin Idle => job'[v] \in Jobs
  BY <1>1 DEF Begin, TypeOK, ControlOK, Labels
<1>6. jobs' \in 0..MaxJobs /\ UNCHANGED faults
  BY <1>1, SitesAssumption DEF Begin, TypeOK, ControlOK
<1>7. hit' \in [Workers -> BOOLEAN] /\ touched' \in [Sites -> BOOLEAN]
  BY <1>1, <1>2 DEF Begin, TypeOK, ControlOK
<1>8. UNCHANGED <<disk, held>>
  BY <1>1 DEF Begin
<1>9. ControlOK'
  BY <1>3, <1>4, <1>5, <1>6, <1>7, <1>8 DEF TypeOK, ControlOK
<1>10. DiskOK'
  BY <1>8 DEF TypeOK, DiskOK, disk
<1> QED
  BY <1>1, <1>9, <1>10 DEF Begin, TypeOK, ControlOK

\* A job on a site keeps it marked.
Claimed == \A v \in Workers : pc[v] \notin Idle => touched[job[v].site]

\* What the server serves of a site that no job has disturbed is what its file says.
Settled == \A s \in Sites : ~touched[s] /\ loaded[s] # "none" => loaded[s] = site[s]

THEOREM ServingInvariance == Spec => [](TypeOK /\ Claimed /\ Settled)
<1>1. Init => TypeOK /\ Claimed /\ Settled
  <2> SUFFICES ASSUME Init PROVE TypeOK /\ Claimed /\ Settled
    OBVIOUS
  <2>1. conf \in Confs /\ site \in [Sites -> {"none", "http", "https"}]
    <3>1. \A n \in {0, 1}, b \in BOOLEAN :
             [include |-> n, zones |-> n, bucket |-> b] \in Confs
      <4>1. 0 \in 0..2 /\ 1 \in 0..2
        OBVIOUS
      <4> DEFINE N == 0..2
      <4> HIDE DEF N
      <4> QED
        BY <4>1 DEF Confs, N
    <3>2. site \in [Sites -> {"none", "http", "https"}]
      BY DEF Init
    <3> QED
      BY <3>1, <3>2 DEF Init
  <2>2. cert \in [Sites -> [main : Pairs, studio : Pairs]]
    BY DEF Init, Pairs
  <2>3. DiskOK
    BY <2>1, <2>2 DEF Init, DiskOK
  <2>4. ControlOK
    BY SitesAssumption DEF Init, ControlOK, Labels, Idle
  <2> QED
    BY <2>1, <2>3, <2>4 DEF Init, TypeOK, Claimed, Settled, Idle
<1>2. ASSUME TypeOK, Claimed, Settled, [Next]_vars
      PROVE  (TypeOK /\ Claimed /\ Settled)'
  <2>1. CASE UNCHANGED vars
    <3>1. DiskOK' /\ Settled'
      BY <1>2, <2>1 DEF vars, disk, TypeOK, DiskOK, Settled
    <3>2. ControlOK' /\ Claimed'
      BY <1>2, <2>1 DEF vars, TypeOK, ControlOK, Claimed
    <3> QED
      BY <3>1, <3>2 DEF TypeOK
  <2>2. ASSUME NEW w \in Workers, BeginDeploy(w) \/ BeginRemove(w) \/ BeginTLS(w)
        PROVE  (TypeOK /\ Claimed /\ Settled)'
    <3>1. PICK j \in Jobs : /\ TypeOK'
                            /\ job' = [job EXCEPT ![w] = j]
                            /\ touched' = [touched EXCEPT ![j.site] = TRUE]
                            /\ \A v \in Workers \ {w} : pc'[v] = pc[v]
                            /\ UNCHANGED disk
      BY <1>2, <2>2, Beginning
    <3>2. \A s \in Sites : touched[s] => touched'[s]
      BY <1>2, <3>1 DEF TypeOK, ControlOK
    <3>3. touched'[j.site] /\ job'[w] = j
      BY <1>2, <3>1 DEF TypeOK, ControlOK, Jobs
    <3>4. Claimed'
      BY <1>2, <3>1, <3>2, <3>3 DEF Claimed, TypeOK, ControlOK, Jobs
    <3>5. Settled'
      BY <1>2, <3>1, <3>2 DEF Settled, disk
    <3> QED
      BY <3>1, <3>4, <3>5
  <2>3. ASSUME NEW w \in Workers, Step(w)
        PROVE  (TypeOK /\ Claimed /\ Settled)'
    <3>1. PICK l \in Labels \ Idle, l2 \in Labels : Moves(w, l, l2)
      BY <2>3 DEF Step
    <3>2. job[w].site \in Sites /\ touched[job[w].site]
      BY <1>2, <3>1 DEF Moves, Claimed, Jobs
    <3>3. TypeOK'
      BY <2>3, <3>1 DEF Step, Effect, Moves, TypeOK
    <3>4. Claimed'
      <4> SUFFICES ASSUME NEW v \in Workers, pc'[v] \notin Idle
                   PROVE  touched'[job'[v].site]
        BY DEF Claimed
      <4>1. touched[job[v].site] /\ job'[v] = job[v]
        BY <1>2, <3>1 DEF Moves, Claimed
      <4>2. l2 = "ok" => v # w
        BY <3>1 DEF Moves, Idle
      <4>3. CASE touched' = touched
        BY <4>1, <4>3
      <4>4. CASE touched' # touched
        <5>1. /\ l2 = "ok" /\ touched' = [touched EXCEPT ![job[w].site] = FALSE]
              /\ \A x \in Workers \ {w} : job[x].site # job[w].site
          BY <3>1, <4>4 DEF Moves
        <5>2. job[v].site # job[w].site
          BY <4>2, <5>1
        <5>3. job[v].site \in Sites
          BY <1>2, <3>1, <4>1 DEF TypeOK, ControlOK, Moves, Jobs
        <5> QED
          BY <1>2, <4>1, <5>1, <5>2, <5>3 DEF TypeOK, ControlOK
      <4> QED
        BY <4>3, <4>4
    <3>5. Settled'
      <4> SUFFICES ASSUME NEW s \in Sites, ~touched'[s], loaded'[s] # "none"
                   PROVE  loaded'[s] = site'[s]
        BY DEF Settled
      <4>1. CASE loaded' = Served /\ site' = site
        BY <4>1 DEF Served
      <4>2. CASE ~(loaded' = Served /\ site' = site)
        <5>1. loaded' = loaded /\ l2 # "ok"
          BY <2>3, <3>1, <4>2 DEF Step, Effect, Moves
        <5>2. ~touched[s]
          BY <3>1, <5>1 DEF Moves
        <5>3. site'[s] = site[s]
          BY <2>3, <3>2, <5>2 DEF Step, Effect
        <5> QED
          BY <1>2, <5>1, <5>2, <5>3 DEF Settled
      <4> QED
        BY <4>1, <4>2
    <3> QED
      BY <3>3, <3>4, <3>5
  <2> QED
    BY <1>2, <2>1, <2>2, <2>3, Stepping DEF Next
<1> QED
  BY <1>1, <1>2, PTL DEF Spec

\* nginx.conf, the site files, the certificates and the jobs keep their types, and
\* what the server serves is never a broken file.
THEOREM SiteTypes == Spec => []TypeOK
BY ServingInvariance, PTL

\* However jobs on other sites interleave, fail or are killed, a site that the
\* server serves goes on being served as it was, while nginx.conf includes it.
THEOREM OthersKept == Spec => OthersKeepServing
<1>1. ASSUME TypeOK, Settled, Next, NEW s \in Sites,
             ~touched[s], loaded[s] # "none", loaded'[s] # loaded[s]
      PROVE  Included = 0
  <2>1. loaded' = Served
    <3>1. PICK w \in Workers :
             \/ BeginDeploy(w) \/ BeginRemove(w) \/ BeginTLS(w)
             \/ Step(w)
      BY <1>1, Stepping DEF Next
    <3>2. CASE Step(w)
      BY <1>1, <3>2 DEF Step, Effect
    <3>3. CASE BeginDeploy(w) \/ BeginRemove(w) \/ BeginTLS(w)
      BY <1>1, <3>3, Beginning DEF disk
    <3> QED
      BY <3>1, <3>2, <3>3
  <2> QED
    BY <1>1, <2>1 DEF Settled, Served
<1>2. TypeOK /\ Settled /\ [Next]_vars =>
         [\A s \in Sites : ~touched[s] /\ loaded[s] # "none" /\ loaded'[s] # loaded[s]
              => Included = 0]_vars
  BY <1>1
<1> QED
  BY <1>2, ServingInvariance, PTL DEF Spec, OthersKeepServing
-----------------------------------------------------------------------------
(* What a job that runs alone, or alone on its site, has brought about.      *)
Busy(w) == pc[w] \notin Idle
Own(w)  == job[w].site
Lone(w) == Busy(w) /\ beside[w] = {}

InstallLabels == {"i_grep", "i_sed", "i_zones", "i_ztrunc", "i_zwrite", "i_bucket",
                  "i_btrunc", "i_bwrite", "i_test", "i_reload"}
SiteLabels    == {"s_zones", "s_ztrunc", "s_zwrite", "s_file", "s_test", "s_undo",
                  "s_reload"}

\* A job is where its kind may be.
Fits(w) ==
    /\ pc[w] \in InstallLabels => job[w].kind = "deploy"
    /\ pc[w] \in SiteLabels => job[w].kind \in {"deploy", "tls"}
    /\ pc[w] \in {"x_file", "x_test", "x_reload"} => job[w].kind = "remove"
    /\ pc[w] \in {"t_main1", "t_main2", "t_studio1", "t_studio2"} => job[w].kind = "tls"
    /\ pc[w] \in {"t_studio1", "t_studio2"} => job[w].studio

\* The site file is as a job has written it, while no other was on that site.
Written(w) == Own(w) \notin beside[w] =>
    /\ pc[w] \in {"s_test", "s_reload", "s_undo"} =>
          site[Own(w)] = IF job[w].studio THEN Kind(w) ELSE "broken"
    /\ pc[w] \in {"x_test", "x_reload"} => site[Own(w)] = "none"

\* nginx.conf, or what a lone deployment is to make of it, has the include line.
Including(c) == c = Blank \/ c.include > 0
Includes(w) == Lone(w) /\ job[w].kind = "deploy" =>
    /\ pc[w] \notin {"i_grep", "i_sed"} => Including(conf)
    /\ pc[w] \in {"i_ztrunc", "i_zwrite", "i_btrunc", "i_bwrite", "s_ztrunc", "s_zwrite"}
          => Including(held[w])

\* What a lone job has tested is still so.
Tested(w) == Lone(w) =>
    /\ pc[w] = "s_reload" => Valid
    /\ pc[w] = "s_undo" /\ ~hit[w] => ~Valid

\* The certificates that a lone enable-TLS has written are pairs.
Certified(w) == Lone(w) =>
    /\ pc[w] \in {"t_studio1", "t_studio2"} => cert[Own(w)].main = "good"
    /\ job[w].kind = "tls" /\ job[w].studio /\ pc[w] \in SiteLabels =>
          cert[Own(w)] = [main |-> "good", studio |-> "good"]

\* A lone job that began with loadable files, and has met no failing command, still
\* has them, but for its own while it replaces the certificates or the file.
Intact(w) == Lone(w) /\ ~hit[w] /\ sound[w] =>
    /\ \A s \in Sites \ {Own(w)} : Loadable(s)
    /\ pc[w] \notin {"t_main2", "t_studio1", "t_studio2", "s_test", "s_reload", "s_undo"}
          => Loadable(Own(w))
    /\ pc[w] \in {"t_main2", "t_studio1", "t_studio2"} => site[Own(w)] # "broken"
    /\ pc[w] = "t_main2" /\ site[Own(w)] = "https" => cert[Own(w)].studio = "good"

Local(w) ==
    Fits(w) /\ Written(w) /\ Includes(w) /\ Tested(w) /\ Certified(w) /\ Intact(w)

\* A job knows the sites of all that run beside it.
Noted == \A v, w \in Workers : v # w /\ Busy(v) /\ Busy(w) => Own(v) \in beside[w]

\* Nothing is claimed of a job that has ended.
LEMMA Ended ==
    ASSUME NEW w \in Workers, pc'[w] \in Idle
    PROVE  Local(w)'
<1>1. /\ pc'[w] \notin InstallLabels \cup SiteLabels
      /\ pc'[w] \notin {"x_file", "x_test", "x_reload"}
      /\ pc'[w] \notin {"t_main1", "t_main2", "t_studio1", "t_studio2"}
  BY DEF Idle, InstallLabels, SiteLabels
<1>2. ~Lone(w)' /\ pc'[w] \notin {"s_test", "s_reload", "s_undo"}
  BY <1>1 DEF Lone, Busy, SiteLabels
<1> QED
  BY <1>1, <1>2 DEF Local, Fits, Written, Includes, Tested, Certified, Intact

\* A job goes on, and the sites it shares the VM with stay the same.
Runs(w, l, l2) ==
    /\ pc[w] = l /\ pc'[w] = l2
    /\ job'[w] = job[w] /\ beside'[w] = beside[w] /\ sound'[w] = sound[w]

LEMMA Running ==
    ASSUME ControlOK, NEW w \in Workers, NEW l \in Labels, NEW l2 \in Labels \ Idle,
           Ok(w, l, l2) \/ Bad(w, l, l2)
    PROVE  /\ Runs(w, l, l2) /\ held'[w] = held[w]
           /\ Ok(w, l, l2) => hit' = hit
           /\ Bad(w, l, l2) => hit'[w]
<1>1. Proceed(w, l, l2)
  BY DEF Ok, Bad
<1>2. Runs(w, l, l2) /\ held'[w] = held[w]
  BY <1>1 DEF Proceed, Runs, ControlOK
<1>3. Ok(w, l, l2) => hit' = hit
  BY DEF Ok
<1>4. Bad(w, l, l2) => hit'[w]
  BY DEF Bad, Hit, ControlOK
<1> QED
  BY <1>2, <1>3, <1>4

\* A step that only looks.
LEMMA OnlyLooking ==
    ASSUME UNCHANGED <<conf, site, cert>>
    PROVE  /\ Valid' <=> Valid
           /\ \A s \in Sites : Loadable(s)' <=> Loadable(s)
<1>1. \A s \in Sites : Loadable(s)' <=> Loadable(s)
  BY DEF Loadable
<1>2. Present' = Present /\ Included' = Included /\ Zoned' = Zoned
  BY DEF Present, Included, Zoned
<1> QED
  BY <1>1, <1>2 DEF Valid, Present

LEMMA LocalWhenLooking ==
    ASSUME NEW w \in Workers, NEW l, NEW l2, Local(w), Runs(w, l, l2), Own(w) \in Sites,
           UNCHANGED <<conf, site, cert>>, ~hit'[w] => ~hit[w],
           <<l, l2>> \in {<<"i_grep", "i_zones">>, <<"i_grep", "i_sed">>,
              <<"i_zones", "i_bucket">>, <<"i_zones", "i_ztrunc">>,
              <<"i_bucket", "i_test">>, <<"i_bucket", "i_btrunc">>,
              <<"i_test", "i_reload">>, <<"i_reload", "s_zones">>,
              <<"s_zones", "s_file">>, <<"s_zones", "s_ztrunc">>,
              <<"s_test", "s_reload">>, <<"s_test", "s_undo">>, <<"x_test", "x_reload">>},
           <<l, l2>> = <<"i_grep", "i_zones">> => Including(conf),
           l2 \in {"i_ztrunc", "i_btrunc", "s_ztrunc"} => held'[w] = conf,
           l2 = "s_reload" => Valid,
           l2 = "s_undo" /\ ~hit'[w] => ~Valid
    PROVE  Local(w)'
<1>1. l \notin Idle /\ l2 \notin Idle
  BY DEF Idle
<1>2. Own(w)' = Own(w) /\ Kind(w)' = Kind(w) /\ (Lone(w)' => Lone(w))
  BY <1>1 DEF Runs, Own, Kind, Lone, Busy
<1>3. Fits(w)'
  BY DEF Local, Runs, Fits, InstallLabels, SiteLabels
<1>4. Written(w)'
  BY <1>2 DEF Local, Runs, Written
<1>5. Includes(w)'
  BY <1>2 DEF Local, Runs, Includes, Including
<1>6. Tested(w)'
  BY <1>2, OnlyLooking DEF Local, Runs, Tested
<1>7. Certified(w)'
  BY <1>2 DEF Local, Runs, Certified, SiteLabels, Fits, InstallLabels
<1>8. Intact(w)'
  <2> SUFFICES ASSUME Lone(w)', ~hit'[w], sound'[w] PROVE Intact(w)'
    BY DEF Intact
  <2>1. Lone(w) /\ ~hit[w] /\ sound[w]
    BY <1>2 DEF Runs
  <2> QED
    BY <1>2, <2>1, OnlyLooking DEF Local, Runs, Intact
<1> QED
  BY <1>3, <1>4, <1>5, <1>6, <1>7, <1>8 DEF Local

LEMMA LocalWhenEditing ==
    ASSUME NEW w \in Workers, NEW l, NEW l2, Local(w), Runs(w, l, l2), Own(w) \in Sites,
           UNCHANGED <<site, cert>>, ~hit'[w] => ~hit[w], held'[w] = held[w],
           <<l, l2>> \in {<<"i_sed", "i_zones">>, <<"i_ztrunc", "i_zwrite">>,
              <<"i_zwrite", "i_bucket">>, <<"i_btrunc", "i_bwrite">>,
              <<"i_bwrite", "i_test">>, <<"s_ztrunc", "s_zwrite">>,
              <<"s_zwrite", "s_file">>},
           \/ Including(conf')
           \/ l2 # "i_zones" /\ (Including(held[w]) => Including(conf'))
    PROVE  Local(w)'
<1>1. l \notin Idle /\ l2 \notin Idle
  BY DEF Idle
<1>2. Own(w)' = Own(w) /\ (Lone(w)' => Lone(w))
  BY <1>1 DEF Runs, Own, Lone, Busy
<1>3. \A s \in Sites : Loadable(s)' <=> Loadable(s)
  BY DEF Loadable
<1>4. Fits(w)'
  BY DEF Local, Runs, Fits, InstallLabels, SiteLabels
<1>5. Written(w)' /\ Tested(w)'
  BY DEF Runs, Written, Tested
<1>6. Includes(w)'
  BY <1>2 DEF Local, Runs, Includes, Including
<1>7. Certified(w)'
  BY <1>2 DEF Local, Runs, Certified, SiteLabels, Fits, InstallLabels
<1>8. Intact(w)'
  <2> SUFFICES ASSUME Lone(w)', ~hit'[w], sound'[w] PROVE Intact(w)'
    BY DEF Intact
  <2>1. Lone(w) /\ ~hit[w] /\ sound[w]
    BY <1>2 DEF Runs
  <2> QED
    BY <1>2, <1>3, <2>1 DEF Local, Runs, Intact
<1> QED
  BY <1>4, <1>5, <1>6, <1>7, <1>8 DEF Local

LEMMA LocalWhenReplacing ==
    ASSUME NEW w \in Workers, NEW l, NEW l2, Local(w), Runs(w, l, l2), Own(w) \in Sites,
           NEW k, site' = [site EXCEPT ![Own(w)] = k], DiskOK,
           UNCHANGED <<conf, cert>>, hit'[w] = hit[w],
           \/ /\ l = "s_file" /\ l2 = "s_test"
              /\ k = IF job[w].studio THEN Kind(w) ELSE "broken"
           \/ l = "x_file" /\ l2 = "x_test" /\ k = "none"
    PROVE  Local(w)'
<1>1. l \notin Idle /\ l2 \notin Idle
  BY DEF Idle
<1>2. Own(w)' = Own(w) /\ Kind(w)' = Kind(w) /\ (Lone(w)' => Lone(w))
  BY <1>1 DEF Runs, Own, Kind, Lone, Busy
<1>3. site'[Own(w)] = k /\ \A s \in Sites \ {Own(w)} : site'[s] = site[s]
  BY DEF DiskOK
<1>4. \A s \in Sites \ {Own(w)} : Loadable(s)' <=> Loadable(s)
  BY <1>3 DEF Loadable
<1>5. Fits(w)'
  BY DEF Local, Runs, Fits, InstallLabels, SiteLabels
<1>6. Written(w)'
  <2>1. CASE l2 = "s_test"
    BY <1>2, <1>3, <2>1 DEF Runs, Written
  <2>2. CASE l2 = "x_test"
    BY <1>2, <1>3, <2>2 DEF Runs, Written
  <2> QED
    BY <2>1, <2>2
<1>7. Includes(w)'
  BY <1>2 DEF Local, Runs, Includes, Including
<1>8. Tested(w)'
  BY DEF Runs, Tested
<1>9. Certified(w)'
  BY <1>2 DEF Local, Runs, Certified, SiteLabels, Fits, InstallLabels
<1>10. Intact(w)'
  <2> SUFFICES ASSUME Lone(w)', ~hit'[w], sound'[w] PROVE Intact(w)'
    BY DEF Intact
  <2>1. Lone(w) /\ ~hit[w] /\ sound[w]
    BY <1>2 DEF Runs
  <2>2. l2 = "x_test" => Loadable(Own(w))'
    BY <1>2, <1>3 DEF Loadable
  <2> QED
    BY <1>2, <1>4, <2>1, <2>2 DEF Local, Runs, Intact
<1> QED
  BY <1>5, <1>6, <1>7, <1>8, <1>9, <1>10 DEF Local

LEMMA LocalWhenCertifying ==
    ASSUME NEW w \in Workers, NEW l, NEW l2, Local(w), Runs(w, l, l2), Own(w) \in Sites,
           UNCHANGED <<conf, site>>, hit'[w] = hit[w],
           \A s \in Sites \ {Own(w)} : cert'[s] = cert[s],
           cert[Own(w)] \in [main : Pairs, studio : Pairs],
           cert'[Own(w)] \in [main : Pairs, studio : Pairs],
           \/ /\ l = "t_main1" /\ l2 = "t_main2"
              /\ cert'[Own(w)].studio = cert[Own(w)].studio
           \/ /\ l = "t_main2" /\ l2 = "t_studio1" /\ job[w].studio
              /\ cert'[Own(w)].main = "good"
           \/ /\ l = "t_main2" /\ l2 = "s_zones" /\ ~job[w].studio
              /\ cert'[Own(w)].main = "good"
              /\ cert'[Own(w)].studio = cert[Own(w)].studio
           \/ /\ l = "t_studio1" /\ l2 = "t_studio2"
              /\ cert'[Own(w)].main = cert[Own(w)].main
           \/ /\ l = "t_studio2" /\ l2 = "s_zones"
              /\ cert'[Own(w)].main = cert[Own(w)].main
              /\ cert'[Own(w)].studio = "good"
    PROVE  Local(w)'
<1>1. l \notin Idle /\ l2 \notin Idle
  BY DEF Idle
<1>2. Own(w)' = Own(w) /\ Kind(w)' = Kind(w) /\ (Lone(w)' => Lone(w))
  BY <1>1 DEF Runs, Own, Kind, Lone, Busy
<1>3. \A c \in [main : Pairs, studio : Pairs] :
         c.main = "good" /\ c.studio = "good" => c = [main |-> "good", studio |-> "good"]
  OBVIOUS
<1>4. \A s \in Sites \ {Own(w)} : Loadable(s)' <=> Loadable(s)
  BY DEF Loadable
<1>5. Loadable(Own(w)) =>
         /\ site[Own(w)] # "broken"
         /\ site[Own(w)] = "https" => cert[Own(w)].studio = "good"
  BY DEF Loadable
<1>6. site[Own(w)] # "broken"
      /\ (site[Own(w)] = "https" => cert'[Own(w)] = [main |-> "good", studio |-> "good"])
         => Loadable(Own(w))'
  BY <1>2 DEF Loadable
<1>7. Fits(w)'
  BY DEF Local, Runs, Fits, InstallLabels, SiteLabels
<1>8. Written(w)' /\ Tested(w)'
  BY DEF Runs, Written, Tested
<1>9. Includes(w)'
  BY DEF Local, Runs, Includes, Fits
<1>10. Certified(w)'
  <2> SUFFICES ASSUME Lone(w)' PROVE Certified(w)'
    BY DEF Certified
  <2>1. CASE l2 = "t_main2"
    BY <2>1 DEF Runs, Certified, SiteLabels
  <2>2. CASE l2 \in {"t_studio1", "t_studio2"}
    BY <1>2, <2>2 DEF Local, Runs, Certified, SiteLabels
  <2>3. CASE l2 = "s_zones"
    BY <1>2, <1>3, <2>3 DEF Local, Runs, Certified
  <2> QED
    BY <2>1, <2>2, <2>3
<1>11. Intact(w)'
  <2> SUFFICES ASSUME Lone(w)', ~hit'[w], sound'[w] PROVE Intact(w)'
    BY DEF Intact
  <2>1. Lone(w) /\ ~hit[w] /\ sound[w]
    BY <1>2 DEF Runs
  <2>2. site[Own(w)] # "broken"
    BY <1>5, <2>1 DEF Local, Runs, Intact
  <2>3. l2 = "t_main2" /\ site[Own(w)] = "https" => cert'[Own(w)].studio = "good"
    BY <1>5, <2>1 DEF Local, Runs, Intact
  <2>4. l2 = "s_zones" /\ site[Own(w)] = "https" =>
           cert'[Own(w)].main = "good" /\ cert'[Own(w)].studio = "good"
    BY <2>1 DEF Local, Runs, Intact, Certified
  <2>5. l2 = "s_zones" => Loadable(Own(w))'
    BY <1>3, <1>6, <2>2, <2>4
  <2>6. \A s \in Sites \ {Own(w)} : Loadable(s)'
    BY <1>4, <2>1 DEF Local, Intact
  <2> QED
    BY <1>2, <2>2, <2>3, <2>5, <2>6 DEF Runs, Intact
<1> QED
  BY <1>7, <1>8, <1>9, <1>10, <1>11 DEF Local

\* What a job does itself keeps its part of the invariant.
LEMMA LocalSteps ==
    ASSUME TypeOK, NEW w \in Workers, Local(w), pc'[w] \notin Idle,
           Install(w) \/ CreateSite(w) \/ RemoveSite(w) \/ EnableTLS(w)
    PROVE  Local(w)'
<1>1. ASSUME NEW l \in Labels \ Idle, NEW l2 \in Labels, Ok(w, l, l2) \/ Bad(w, l, l2)
      PROVE  /\ Runs(w, l, l2) /\ held'[w] = held[w] /\ Own(w) \in Sites
             /\ Ok(w, l, l2) => hit' = hit
             /\ Bad(w, l, l2) => hit'[w]
  <2>1. pc[w] = l /\ pc'[w] = l2
    BY <1>1 DEF Ok, Bad, Proceed, TypeOK, ControlOK
  <2>2. l2 \notin Idle
    BY <2>1
  <2>3. Own(w) \in Sites
    BY <1>1, <2>1 DEF TypeOK, ControlOK, Jobs, Own
  <2> QED
    BY <1>1, <2>2, <2>3, Running DEF TypeOK
<1>2. ASSUME NEW l \in Labels \ Idle, Bad(w, l, "failed")
      PROVE  FALSE
  BY <1>1, <1>2 DEF Runs, Labels, Idle
<1>3. ASSUME NEW there \in BOOLEAN, NEW l, NEW t, NEW l2,
             <<l, t, l2>> \in {<<"i_zones", "i_ztrunc", "i_bucket">>,
                <<"i_bucket", "i_btrunc", "i_test">>, <<"s_zones", "s_ztrunc", "s_file">>},
             Look(w, l, there, t, l2)
      PROVE  Local(w)'
  <2>1. l \in Labels \ Idle /\ l2 \in Labels \ Idle
    BY <1>3 DEF Labels, Idle
  <2>2. CASE there /\ Ok(w, l, l2) /\ UNCHANGED disk
    <3>1. Runs(w, l, l2) /\ hit' = hit /\ Own(w) \in Sites
      BY <1>1, <2>1, <2>2
    <3> QED
      BY <1>3, <2>2, <3>1, LocalWhenLooking DEF disk
  <2>3. CASE /\ ~there /\ pc[w] = l
             /\ pc' = [pc EXCEPT ![w] = t]
             /\ held' = [held EXCEPT ![w] = conf]
             /\ UNCHANGED <<disk, job, jobs, faults, hit, beside, sound, touched>>
    <3>1. Runs(w, l, t) /\ held'[w] = conf
      BY <2>3 DEF Runs, TypeOK, ControlOK
    <3>2. Own(w) \in Sites
      BY <2>1, <2>3 DEF TypeOK, ControlOK, Jobs, Own
    <3> QED
      BY <1>3, <2>3, <3>1, <3>2, LocalWhenLooking DEF disk
  <2> QED
    BY <1>2, <1>3, <2>1, <2>2, <2>3 DEF Look
<1>4. ASSUME NEW t, NEW r, Truncate(w, t, r),
             <<t, r>> \in {<<"i_ztrunc", "i_zwrite">>, <<"i_btrunc", "i_bwrite">>,
                           <<"s_ztrunc", "s_zwrite">>}
      PROVE  Local(w)'
  <2>1. t \in Labels \ Idle /\ r \in Labels \ Idle
    BY <1>4 DEF Labels, Idle
  <2>2. Ok(w, t, r) /\ conf' = Blank /\ UNCHANGED <<site, cert>>
    BY <1>2, <1>4, <2>1 DEF Truncate
  <2>3. Runs(w, t, r) /\ hit' = hit /\ held'[w] = held[w] /\ Own(w) \in Sites
    BY <1>1, <2>1, <2>2
  <2>4. Including(conf')
    BY <2>2 DEF Including
  <2> QED
    BY <1>4, <2>2, <2>3, <2>4, LocalWhenEditing
<1>5. ASSUME NEW r, NEW made, NEW l2, Write(w, r, made, l2),
             <<r, l2>> \in {<<"i_zwrite", "i_bucket">>, <<"i_bwrite", "i_test">>,
                            <<"s_zwrite", "s_file">>},
             Including(held[w]) => Including(made)
      PROVE  Local(w)'
  <2>1. r \in Labels \ Idle /\ l2 \in Labels \ Idle
    BY <1>5 DEF Labels, Idle
  <2>2. Ok(w, r, l2) /\ conf' = made /\ UNCHANGED <<site, cert>>
    BY <1>2, <1>5, <2>1 DEF Write
  <2>3. Runs(w, r, l2) /\ hit' = hit /\ held'[w] = held[w] /\ Own(w) \in Sites
    BY <1>1, <2>1, <2>2
  <2> QED
    BY <1>5, <2>2, <2>3, LocalWhenEditing
<1>6. /\ Including(held[w]) => Including(WithZones(held[w]))
      /\ Including(held[w]) => Including(WithBucket(held[w]))
  <2>1. held[w] \in Confs \cup {Blank}
    BY DEF TypeOK, ControlOK
  <2>2. CASE held[w] = Blank
    BY <2>2 DEF WithZones, WithBucket
  <2>3. CASE held[w] # Blank
    <3>1. held[w] \in Confs
      BY <2>1, <2>3
    <3>2. /\ WithZones(held[w]) \in Confs => WithZones(held[w]).include = held[w].include
          /\ WithBucket(held[w]).include = held[w].include
      BY <2>3, <3>1 DEF WithZones, WithBucket, Confs
    <3>3. WithZones(held[w]).include = held[w].include
      BY <2>3, <3>1 DEF WithZones, Confs
    <3> QED
      BY <2>3, <3>2, <3>3 DEF Including
  <2> QED
    BY <2>2, <2>3
<1>7. ASSUME NEW l, NEW good, NEW bad, Test(w, l, good, bad),
             <<l, good, bad>> \in {<<"i_test", "i_reload", "failed">>,
                <<"s_test", "s_reload", "s_undo">>, <<"x_test", "x_reload", "failed">>}
      PROVE  Local(w)'
  <2>1. l \in Labels \ Idle /\ good \in Labels \ Idle /\ bad \in Labels
    BY <1>7 DEF Labels, Idle
  <2>2. PICK m \in {good, bad} : Ok(w, l, m) \/ Bad(w, l, m)
    BY <1>7 DEF Test
  <2>3. m \in Labels
    BY <2>1
  <2>4. /\ Runs(w, l, m) /\ Own(w) \in Sites
        /\ Ok(w, l, m) => hit' = hit
        /\ Bad(w, l, m) => hit'[w]
    BY <1>1, <2>1, <2>2, <2>3
  <2>5. m # "failed"
    BY <2>4 DEF Runs, Idle
  <2>6. /\ m = "s_reload" => Valid
        /\ m = "s_undo" /\ ~hit'[w] => ~Valid
    <3>1. \A n \in Labels : Ok(w, l, n) \/ Bad(w, l, n) => n = m
      BY <1>1, <2>1, <2>4 DEF Runs
    <3>2. CASE Valid /\ Ok(w, l, good)
      BY <1>7, <2>1, <3>1, <3>2
    <3>3. CASE ~Valid /\ Ok(w, l, bad)
      BY <1>7, <2>1, <3>1, <3>3
    <3>4. CASE Bad(w, l, bad)
      <4>1. m = bad
        BY <2>1, <3>1, <3>4
      <4>2. hit'[w]
        BY <2>4, <3>4, <4>1
      <4> QED
        BY <1>7, <4>1, <4>2
    <3> QED
      BY <1>7, <3>2, <3>3, <3>4 DEF Test
  <2>7. UNCHANGED <<conf, site, cert>> /\ (~hit'[w] => ~hit[w])
    BY <1>7, <2>2, <2>4 DEF Test, disk
  <2> QED
    BY <1>7, <2>4, <2>5, <2>6, <2>7, LocalWhenLooking
<1>8. CASE GrepInclude(w)
  <2>1. PICK m \in {"i_zones", "i_sed"} :
           /\ Ok(w, "i_grep", m) /\ UNCHANGED disk
           /\ m = "i_zones" => Included > 0
    BY <1>8 DEF GrepInclude
  <2>2. Runs(w, "i_grep", m) /\ hit' = hit /\ Own(w) \in Sites
    BY <1>1, <2>1 DEF Labels, Idle
  <2>3. m = "i_zones" => Including(conf)
    BY <2>1 DEF Included, Including
  <2> QED
    BY <2>1, <2>2, <2>3, LocalWhenLooking DEF disk
<1>9. CASE AddInclude(w)
  <2>1. /\ Ok(w, "i_sed", "i_zones") /\ UNCHANGED <<site, cert>>
        /\ conf' = IF conf = Blank \/ conf.include = 2 THEN conf
                   ELSE [conf EXCEPT !.include = @ + 1]
    BY <1>2, <1>9 DEF AddInclude, Labels, Idle
  <2>2. Runs(w, "i_sed", "i_zones") /\ hit' = hit /\ held'[w] = held[w] /\ Own(w) \in Sites
    BY <1>1, <2>1 DEF Labels, Idle
  <2>3. Including(conf')
    <3>1. CASE conf = Blank \/ conf.include = 2
      BY <2>1, <3>1 DEF Including
    <3>2. CASE ~(conf = Blank \/ conf.include = 2)
      <4>1. conf \in Confs /\ conf.include \in 0..2
        BY <3>2 DEF TypeOK, DiskOK, Confs
      <4>2. conf'.include = conf.include + 1
        BY <2>1, <3>2, <4>1 DEF Confs
      <4> QED
        BY <4>1, <4>2 DEF Including
    <3> QED
      BY <3>1, <3>2
  <2> QED
    BY <2>1, <2>2, <2>3, LocalWhenEditing
<1>10. CASE InstallZones(w)
  <2>1. ZonesThere \in BOOLEAN
    BY DEF ZonesThere
  <2> QED
    BY <1>3, <1>4, <1>5, <1>6, <1>10, <2>1 DEF InstallZones, AddZones
<1>11. CASE SiteZones(w)
  <2>1. ZonesThere \in BOOLEAN
    BY DEF ZonesThere
  <2> QED
    BY <1>3, <1>4, <1>5, <1>6, <1>11, <2>1 DEF SiteZones, AddZones
<1>12. CASE AddBucket(w)
  <2> DEFINE there == conf # Blank /\ conf.bucket
  <2>1. there \in BOOLEAN
    BY DEF TypeOK, DiskOK, Confs
  <2>2. Look(w, "i_bucket", there, "i_btrunc", "i_test") => Local(w)'
    <3> HIDE DEF there
    <3> QED
      BY <1>3, <2>1
  <2>3. Truncate(w, "i_btrunc", "i_bwrite") => Local(w)'
    BY <1>4
  <2>4. Write(w, "i_bwrite", WithBucket(held[w]), "i_test") => Local(w)'
    BY <1>5, <1>6
  <2> QED
    BY <1>12, <2>2, <2>3, <2>4 DEF AddBucket
<1>13. CASE InstallTest(w) \/ SiteTest(w) \/ RemoveTest(w)
  BY <1>7, <1>13 DEF InstallTest, SiteTest, RemoveTest
<1>14. CASE InstallReload(w)
  <2>1. Ok(w, "i_reload", "s_zones") /\ UNCHANGED <<conf, site, cert>>
    <3>1. ~Ok(w, "i_reload", "failed") /\ ~Bad(w, "i_reload", "failed")
      BY <1>1 DEF Runs, Labels, Idle
    <3> QED
      BY <1>14, <3>1 DEF InstallReload, Reload
  <2>2. Runs(w, "i_reload", "s_zones") /\ hit' = hit /\ Own(w) \in Sites
    BY <1>1, <2>1 DEF Labels, Idle
  <2> QED
    BY <2>1, <2>2, LocalWhenLooking
<1>15. CASE WriteSite(w) \/ RemoveFile(w)
  <2>1. PICK l \in {"s_file", "x_file"}, l2 \in {"s_test", "x_test"},
             k \in {"none", "http", "https", "broken"} :
           /\ Ok(w, l, l2) /\ site' = [site EXCEPT ![Own(w)] = k]
           /\ UNCHANGED <<conf, cert>>
           /\ \/ /\ l = "s_file" /\ l2 = "s_test"
                 /\ k = IF job[w].studio THEN Kind(w) ELSE "broken"
              \/ l = "x_file" /\ l2 = "x_test" /\ k = "none"
    <3>1. CASE WriteSite(w)
      <4>1. /\ Ok(w, "s_file", "s_test") /\ UNCHANGED <<conf, cert>>
            /\ site' = [site EXCEPT ![Own(w)] =
                           IF job[w].studio THEN Kind(w) ELSE "broken"]
        BY <1>2, <3>1 DEF WriteSite, Own, Labels, Idle
      <4>2. (IF job[w].studio THEN Kind(w) ELSE "broken")
               \in {"none", "http", "https", "broken"}
        BY DEF Kind
      <4> QED
        BY <4>1, <4>2
    <3>2. CASE RemoveFile(w)
      <4>1. Ok(w, "x_file", "x_test") /\ site' = [site EXCEPT ![Own(w)] = "none"]
            /\ UNCHANGED <<conf, cert>>
        BY <1>2, <3>2 DEF RemoveFile, Own, Labels, Idle
      <4> QED
        BY <4>1
    <3> QED
      BY <1>15, <3>1, <3>2
  <2>2. Runs(w, l, l2) /\ hit' = hit /\ Own(w) \in Sites
    BY <1>1, <2>1 DEF Labels, Idle
  <2> QED
    BY <2>1, <2>2, LocalWhenReplacing DEF TypeOK
<1>16. CASE UndoSite(w) \/ SiteReload(w) \/ RemoveReload(w)
  <2>1. PICK l \in Labels \ Idle, l2 \in {"ok", "failed"} : Ok(w, l, l2) \/ Bad(w, l, l2)
    BY <1>16 DEF UndoSite, SiteReload, RemoveReload, Reload, Labels, Idle
  <2> QED
    BY <1>1, <2>1 DEF Runs, Labels, Idle
<1>17. CASE EnableTLS(w)
  <2>1. PICK l \in {"t_main1", "t_main2", "t_studio1", "t_studio2"},
             l2 \in {"t_main2", AfterMain(w), "t_studio2", "s_zones"},
             dom \in {"main", "studio"}, now \in {"bad", "good"} :
           /\ WritePair(w, dom, l, now, l2)
           /\ \/ l = "t_main1" /\ l2 = "t_main2" /\ dom = "main"
              \/ l = "t_main2" /\ l2 = AfterMain(w) /\ dom = "main" /\ now = "good"
              \/ l = "t_studio1" /\ l2 = "t_studio2" /\ dom = "studio"
              \/ l = "t_studio2" /\ l2 = "s_zones" /\ dom = "studio" /\ now = "good"
    BY <1>17 DEF EnableTLS, WriteMain, WriteStudio
  <2>2. l \in Labels \ Idle /\ l2 \in Labels \ Idle
    BY DEF AfterMain, Labels, Idle
  <2>3. /\ Ok(w, l, l2) /\ UNCHANGED <<conf, site>>
        /\ cert' = [cert EXCEPT ![Own(w)] = [@ EXCEPT ![dom] = now]]
    BY <1>2, <2>1, <2>2 DEF WritePair, Own
  <2>4. Runs(w, l, l2) /\ hit' = hit /\ Own(w) \in Sites
    BY <1>1, <2>2, <2>3
  <2>5. cert \in [Sites -> [main : Pairs, studio : Pairs]]
    BY DEF TypeOK, DiskOK
  <2>6. /\ \A s \in Sites \ {Own(w)} : cert'[s] = cert[s]
        /\ cert'[Own(w)] = [cert[Own(w)] EXCEPT ![dom] = now]
    BY <2>3, <2>4, <2>5
  <2>7. cert[Own(w)] \in [main : Pairs, studio : Pairs]
    BY <2>4, <2>5
  <2>8. /\ cert'[Own(w)] \in [main : Pairs, studio : Pairs]
        /\ dom = "main" => /\ cert'[Own(w)].studio = cert[Own(w)].studio
                           /\ cert'[Own(w)].main = now
        /\ dom = "studio" => /\ cert'[Own(w)].main = cert[Own(w)].main
                             /\ cert'[Own(w)].studio = now
    <3>1. CASE dom = "main"
      BY <2>6, <2>7, <3>1 DEF Pairs
    <3>2. CASE dom = "studio"
      BY <2>6, <2>7, <3>2 DEF Pairs
    <3> QED
      BY <3>1, <3>2
  <2> QED
    BY <2>1, <2>3, <2>4, <2>6, <2>7, <2>8, LocalWhenCertifying DEF AfterMain
<1> QED
  BY <1>8, <1>9, <1>10, <1>11, <1>12, <1>13, <1>14, <1>15, <1>16, <1>17
  DEF Install, CreateSite, RemoveSite, EnableTLS

\* What other jobs do keeps it: one on the same site is known to be there, and then
\* nothing is claimed of the file; and a lone job has no others.
LEMMA LocalOthers ==
    ASSUME TypeOK, NEW w \in Workers, NEW v \in Workers \ {w}, Noted, Local(v), Step(w)
    PROVE  Local(v)'
<1>1. PICK l \in Labels \ Idle, l2 \in Labels : Moves(w, l, l2)
  BY DEF Step
<1>2. pc'[v] = pc[v] /\ job'[v] = job[v] /\ beside' = beside /\ Busy(w)
  BY <1>1 DEF Moves, Busy
<1>3. CASE pc[v] \in Idle
  BY <1>2, <1>3, Ended
<1>4. CASE pc[v] \notin Idle
  <2>1. Own(w) \in beside[v]
    BY <1>2, <1>4 DEF Noted, Busy
  <2>2. ~Lone(v)' /\ Own(v)' = Own(v) /\ Kind(v)' = Kind(v)
    BY <1>2, <2>1 DEF Lone, Own, Kind
  <2>3. Own(v) \in Sites
    BY <1>4 DEF TypeOK, ControlOK, Jobs, Own
  <2>4. Own(v) \notin beside[v] => site'[Own(v)] = site[Own(v)]
    BY <2>1, <2>3 DEF Step, Effect, Own
  <2>5. Fits(v)'
    BY <1>2 DEF Local, Fits
  <2>6. Written(v)'
    BY <1>2, <2>2, <2>4 DEF Local, Written
  <2> QED
    BY <2>2, <2>5, <2>6 DEF Local, Includes, Tested, Certified, Intact
<1> QED
  BY <1>3, <1>4

\* A job that begins finds nothing done, and joins those that run beside others.
LEMMA LocalBeginning ==
    ASSUME TypeOK, NEW w \in Workers, Noted, \A v \in Workers : Local(v),
           BeginDeploy(w) \/ BeginRemove(w) \/ BeginTLS(w)
    PROVE  Noted' /\ \A v \in Workers : Local(v)'
<1>1. PICK j \in Jobs, l \in {"i_grep", "x_file", "t_main1"} :
         /\ Begin(w, j, l)
         /\ <<j.kind, l>> \in {<<"deploy", "i_grep">>, <<"remove", "x_file">>,
                               <<"tls", "t_main1">>}
  BY DEF BeginDeploy, BeginRemove, BeginTLS
<1> DEFINE busy == {v \in Workers \ {w} : pc[v] \notin Idle}
<1>2. /\ pc[w] \in Idle /\ l \notin Idle
      /\ pc'[w] = l /\ \A v \in Workers \ {w} : pc'[v] = pc[v]
      /\ job'[w] = j /\ \A v \in Workers \ {w} : job'[v] = job[v]
      /\ hit'[w] = FALSE /\ \A v \in Workers \ {w} : hit'[v] = hit[v]
      /\ sound'[w] = (\A s \in Sites : Loadable(s))
      /\ UNCHANGED <<conf, site, cert>>
  BY <1>1 DEF Begin, disk, TypeOK, ControlOK, Idle
<1>3. /\ beside'[w] = {job[x].site : x \in busy}
      /\ \A v \in busy : beside'[v] = beside[v] \cup {j.site}
  BY <1>1 DEF Begin
<1>4. Noted'
  <2> SUFFICES ASSUME NEW v \in Workers, NEW u \in Workers, u # v, Busy(v)', Busy(u)'
               PROVE  job'[v].site \in beside'[u]
    BY DEF Noted, Own
  <2>1. CASE u = w
    <3>1. v \in busy /\ job'[v] = job[v]
      BY <1>2, <2>1 DEF Busy
    <3> QED
      BY <1>3, <2>1, <3>1
  <2>2. CASE v = w
    <3>1. u \in busy
      BY <1>2, <2>2 DEF Busy
    <3> QED
      BY <1>2, <1>3, <2>2, <3>1
  <2>3. CASE u # w /\ v # w
    <3>1. u \in busy /\ Busy(u) /\ Busy(v) /\ job'[v] = job[v]
      BY <1>2, <2>3 DEF Busy
    <3>2. job[v].site \in beside[u]
      BY <3>1 DEF Noted, Own
    <3> QED
      BY <1>3, <3>1, <3>2
  <2> QED
    BY <2>1, <2>2, <2>3
<1>5. ASSUME NEW v \in busy PROVE Local(v)'
  <2>1. pc'[v] = pc[v] /\ job'[v] = job[v] /\ j.site \in beside'[v]
        /\ beside[v] \subseteq beside'[v]
    BY <1>2, <1>3
  <2>2. ~Lone(v)' /\ Own(v)' = Own(v) /\ Kind(v)' = Kind(v)
    BY <2>1 DEF Lone, Own, Kind
  <2>3. Fits(v)'
    BY <2>1 DEF Local, Fits
  <2>4. Written(v)'
    BY <1>2, <2>1, <2>2 DEF Local, Written
  <2> QED
    BY <2>2, <2>3, <2>4 DEF Local, Includes, Tested, Certified, Intact
<1>6. Local(w)'
  <2>1. Fits(w)'
    BY <1>1, <1>2 DEF Fits, InstallLabels, SiteLabels
  <2>2. Written(w)' /\ Tested(w)'
    BY <1>2 DEF Written, Tested
  <2>3. Includes(w)'
    BY <1>1, <1>2 DEF Includes
  <2>4. Certified(w)'
    BY <1>2 DEF Certified, SiteLabels
  <2>5. sound'[w] => \A s \in Sites : Loadable(s)'
    BY <1>2, OnlyLooking
  <2>6. Own(w)' \in Sites
    BY <1>2 DEF Own, Jobs
  <2>7. Intact(w)'
    BY <1>2, <2>5, <2>6 DEF Intact, Own
  <2> QED
    BY <2>1, <2>2, <2>3, <2>4, <2>7 DEF Local
<1>7. ASSUME NEW v \in Workers \ {w}, v \notin busy PROVE Local(v)'
  BY <1>2, <1>7, Ended
<1> QED
  BY <1>4, <1>5, <1>6, <1>7

\* The inductive invariant of the three theorems below.
Alone == Noted /\ \A w \in Workers : Local(w)

LEMMA LoneJobs == Spec => []Alone
<1>1. Init => Alone
  <2> SUFFICES ASSUME Init PROVE Alone
    OBVIOUS
  <2>1. \A w \in Workers : pc[w] = "idle"
    BY DEF Init
  <2>2. "idle" \notin InstallLabels \cup SiteLabels
    BY DEF InstallLabels, SiteLabels
  <2>3. \A w \in Workers : ~Busy(w) /\ ~Lone(w)
    BY <2>1 DEF Busy, Lone, Idle
  <2> QED
    BY <2>1, <2>2, <2>3
    DEF Alone, Noted, Local, Fits, Written, Includes, Tested, Certified, Intact
<1>2. ASSUME TypeOK, Alone, [Next]_vars PROVE Alone'
  <2>1. CASE UNCHANGED vars
    <3>1. Noted'
      BY <1>2, <2>1 DEF vars, Alone, Noted, Busy, Own
    <3>2. ASSUME NEW w \in Workers PROVE Local(w)'
      <4>1. Own(w)' = Own(w) /\ Kind(w)' = Kind(w) /\ (Lone(w)' <=> Lone(w))
        BY <2>1 DEF vars, Own, Kind, Lone, Busy
      <4>2. (Valid' <=> Valid) /\ \A s \in Sites : Loadable(s)' <=> Loadable(s)
        BY <2>1, OnlyLooking DEF vars, disk
      <4>3. Local(w)
        BY <1>2 DEF Alone
      <4>4. pc[w] \notin Idle => Own(w) \in Sites
        BY <1>2 DEF TypeOK, ControlOK, Jobs, Own
      <4>5. Fits(w)' /\ Written(w)' /\ Tested(w)'
        BY <2>1, <4>1, <4>2, <4>3 DEF vars, disk, Local, Fits, Written, Tested
      <4>6. Includes(w)' /\ Certified(w)'
        BY <2>1, <4>1, <4>3 DEF vars, disk, Local, Includes, Including, Certified
      <4>7. Intact(w)'
        BY <2>1, <4>1, <4>2, <4>3, <4>4 DEF vars, disk, Local, Intact, Lone, Busy
      <4> QED
        BY <4>5, <4>6, <4>7 DEF Local
    <3> QED
      BY <3>1, <3>2 DEF Alone
  <2>2. ASSUME NEW w \in Workers, BeginDeploy(w) \/ BeginRemove(w) \/ BeginTLS(w)
        PROVE  Alone'
    BY <1>2, <2>2, LocalBeginning DEF Alone
  <2>3. ASSUME NEW w \in Workers, Step(w),
               pc'[w] \in Idle \/ Install(w) \/ CreateSite(w) \/ RemoveSite(w) \/ EnableTLS(w)
        PROVE  Alone'
    <3>1. PICK l \in Labels \ Idle, l2 \in Labels : Moves(w, l, l2)
      BY <2>3 DEF Step
    <3>2. \A v \in Workers : /\ Busy(v)' => Busy(v) /\ job'[v] = job[v]
                             /\ beside'[v] = beside[v]
      BY <3>1 DEF Moves, Busy
    <3>3. Noted'
      BY <1>2, <3>2 DEF Alone, Noted, Own
    <3>4. Local(w)'
      <4>1. CASE pc'[w] \in Idle
        BY <4>1, Ended
      <4>2. CASE pc'[w] \notin Idle
        BY <1>2, <2>3, <4>2, LocalSteps DEF Alone
      <4> QED
        BY <4>1, <4>2
    <3>5. \A v \in Workers \ {w} : Local(v)'
      BY <1>2, <2>3, LocalOthers DEF Alone
    <3> QED
      BY <3>3, <3>4, <3>5 DEF Alone
  <2>4. ASSUME NEW w \in Workers, Kill(w) PROVE pc'[w] \in Idle
    BY <1>2, <2>4 DEF Kill, Bad, Proceed, TypeOK, ControlOK, Idle
  <2> QED
    BY <1>2, <2>1, <2>2, <2>3, <2>4, Stepping DEF Next
<1> QED
  BY <1>1, <1>2, SiteTypes, PTL DEF Spec

\* The job that ends is the one that takes the step, and what it does last.
LEMMA Ending ==
    ASSUME TypeOK, Next, NEW w \in Workers, Busy(w), pc'[w] \in {"ok", "failed"}
    PROVE  Install(w) \/ CreateSite(w) \/ RemoveSite(w) \/ EnableTLS(w)
<1>1. PICK v \in Workers : \/ BeginDeploy(v) \/ BeginRemove(v) \/ BeginTLS(v) \/ Kill(v)
                           \/ Install(v) \/ CreateSite(v) \/ RemoveSite(v) \/ EnableTLS(v)
  BY DEF Next
<1>2. CASE BeginDeploy(v) \/ BeginRemove(v) \/ BeginTLS(v)
  <2>1. PICK l \in {"i_grep", "x_file", "t_main1"} :
           pc[v] \in Idle /\ pc' = [pc EXCEPT ![v] = l]
    BY <1>2 DEF BeginDeploy, BeginRemove, BeginTLS, Begin
  <2>2. v = w
    BY <2>1 DEF Busy, TypeOK, ControlOK, Idle
  <2> QED
    BY <2>1, <2>2 DEF Busy
<1>3. CASE ~(BeginDeploy(v) \/ BeginRemove(v) \/ BeginTLS(v))
  <2>1. Step(v)
    BY <1>1, <1>3, Stepping
  <2>2. v = w
    BY <2>1 DEF Step, Moves, Busy, Idle
  <2>3. ~Kill(w)
    BY DEF Kill, Bad, Proceed, TypeOK, ControlOK
  <2> QED
    BY <1>1, <1>3, <2>2, <2>3
<1> QED
  BY <1>2, <1>3

\* How a job ends when no command has failed of itself.
LEMMA Verdicts ==
    ASSUME TypeOK, NEW w \in Workers, Busy(w), pc'[w] \in {"ok", "failed"},
           pc'[w] = "failed" => ~hit'[w],
           Install(w) \/ CreateSite(w) \/ RemoveSite(w) \/ EnableTLS(w)
    PROVE  /\ UNCHANGED <<conf, cert>>
           /\ hit' = hit
           /\ \/ /\ pc'[w] = "ok" /\ pc[w] \in {"s_reload", "x_reload"}
                 /\ Valid /\ loaded' = Served /\ site' = site
              \/ /\ pc'[w] = "failed" /\ ~Valid /\ site' = site
                 /\ pc[w] \in {"i_test", "i_reload", "x_test", "x_reload", "s_reload"}
              \/ /\ pc'[w] = "failed" /\ pc[w] = "s_undo"
                 /\ site' = [site EXCEPT ![Own(w)] = "none"]
<1>1. ASSUME NEW l, NEW l2, Ok(w, l, l2) \/ Bad(w, l, l2)
      PROVE  /\ pc[w] = l /\ pc'[w] = l2
             /\ Ok(w, l, l2) => hit' = hit
  BY <1>1 DEF Ok, Bad, Proceed, TypeOK, ControlOK
<1>2. ASSUME NEW l PROVE ~Bad(w, l, "failed")
  BY <1>1 DEF Bad, Hit, TypeOK, ControlOK
<1>3. ASSUME NEW l, NEW l2, l2 \notin Idle PROVE ~Ok(w, l, l2) /\ ~Bad(w, l, l2)
  BY <1>1, <1>3 DEF Idle
<1> DEFINE Quiet == UNCHANGED <<conf, site, cert>> /\ hit' = hit
<1>4. ASSUME NEW l, NEW good, NEW bad, Test(w, l, good, bad), good \notin Idle,
             bad = "failed" \/ bad \notin Idle
      PROVE  bad = "failed" /\ pc[w] = l /\ pc'[w] = "failed" /\ ~Valid /\ Quiet
  BY <1>1, <1>2, <1>3, <1>4 DEF Test, disk
<1>5. ASSUME NEW l, NEW good, Reload(w, l, good), good = "ok" \/ good \notin Idle
      PROVE  /\ pc[w] = l /\ Quiet
             /\ \/ good = "ok" /\ pc'[w] = "ok" /\ Valid /\ loaded' = Served
                \/ pc'[w] = "failed" /\ ~Valid
  BY <1>1, <1>2, <1>3, <1>5 DEF Reload
<1>6. ASSUME NEW l, NEW there, NEW t, NEW l2, l \notin Idle, t \notin Idle, l2 \notin Idle
      PROVE  ~Look(w, l, there, t, l2)
  <2>1. ~(pc[w] = l /\ pc' = [pc EXCEPT ![w] = t])
    BY <1>6 DEF TypeOK, ControlOK, Idle
  <2> QED
    BY <1>2, <1>3, <1>6, <2>1 DEF Look
<1>7. ASSUME NEW t, NEW r, r \notin Idle PROVE ~Truncate(w, t, r)
  BY <1>2, <1>3, <1>7 DEF Truncate
<1>8. ASSUME NEW r, NEW made, NEW l2, l2 \notin Idle PROVE ~Write(w, r, made, l2)
  BY <1>2, <1>3, <1>8 DEF Write
<1>9. ASSUME NEW dom, NEW l, NEW now, NEW l2, l2 \notin Idle
      PROVE  ~WritePair(w, dom, l, now, l2)
  BY <1>2, <1>3, <1>9 DEF WritePair
<1>10. CASE Install(w)
  <2>1. ~GrepInclude(w) /\ ~AddInclude(w)
    BY <1>2, <1>3 DEF GrepInclude, AddInclude, Idle
  <2>2. ~InstallZones(w)
    BY <1>6, <1>7, <1>8 DEF InstallZones, AddZones, Idle
  <2>3. ~AddBucket(w)
    BY <1>6, <1>7, <1>8 DEF AddBucket, Idle
  <2>4. InstallTest(w) => pc[w] = "i_test" /\ pc'[w] = "failed" /\ ~Valid /\ Quiet
    BY <1>4 DEF InstallTest, Idle
  <2>5. InstallReload(w) => pc[w] = "i_reload" /\ pc'[w] = "failed" /\ ~Valid /\ Quiet
    BY <1>5 DEF InstallReload, Idle
  <2> QED
    BY <1>10, <2>1, <2>2, <2>3, <2>4, <2>5 DEF Install
<1>11. CASE CreateSite(w)
  <2>1. ~SiteZones(w)
    BY <1>6, <1>7, <1>8 DEF SiteZones, AddZones, Idle
  <2>2. ~WriteSite(w) /\ ~SiteTest(w)
    BY <1>2, <1>3, <1>4 DEF WriteSite, SiteTest, Idle
  <2>3. UndoSite(w) => /\ pc[w] = "s_undo" /\ pc'[w] = "failed" /\ hit' = hit
                       /\ site' = [site EXCEPT ![Own(w)] = "none"]
                       /\ UNCHANGED <<conf, cert>>
    BY <1>1 DEF UndoSite, Own
  <2>4. SiteReload(w) =>
           /\ pc[w] = "s_reload" /\ Quiet
           /\ \/ pc'[w] = "ok" /\ Valid /\ loaded' = Served
              \/ pc'[w] = "failed" /\ ~Valid
    BY <1>5 DEF SiteReload
  <2> QED
    BY <1>11, <2>1, <2>2, <2>3, <2>4 DEF CreateSite
<1>12. CASE RemoveSite(w)
  <2>1. ~RemoveFile(w)
    BY <1>2, <1>3 DEF RemoveFile, Idle
  <2>2. RemoveTest(w) => pc[w] = "x_test" /\ pc'[w] = "failed" /\ ~Valid /\ Quiet
    BY <1>4 DEF RemoveTest, Idle
  <2>3. RemoveReload(w) =>
           /\ pc[w] = "x_reload" /\ Quiet
           /\ \/ pc'[w] = "ok" /\ Valid /\ loaded' = Served
              \/ pc'[w] = "failed" /\ ~Valid
    BY <1>5 DEF RemoveReload
  <2> QED
    BY <1>12, <2>1, <2>2, <2>3 DEF RemoveSite
<1>13. ~EnableTLS(w)
  <2>1. AfterMain(w) \notin Idle
    BY DEF AfterMain, Idle
  <2> QED
    BY <1>9, <2>1 DEF EnableTLS, WriteMain, WriteStudio, Idle
<1> QED
  BY <1>10, <1>11, <1>12, <1>13

\* A job that reports success has the server serve its site as it was asked to,
\* whatever runs on other sites: for every number of jobs and workers.
THEOREM SuccessIsServed == Spec => SuccessServes
<1> DEFINE Body == \A w \in Workers :
              /\ Ends(w, "ok")
              /\ job[w].site \notin beside[w]
              /\ Included = 1 \/ (beside[w] = {} /\ job[w].kind = "deploy")
              => loaded'[job[w].site] =
                    IF job[w].kind = "remove" THEN "none" ELSE Kind(w)
<1>1. TypeOK /\ Alone /\ [Next]_vars => [Body]_vars
  <2> SUFFICES ASSUME TypeOK, Alone, Next, NEW w \in Workers, Ends(w, "ok"),
                      Own(w) \notin beside[w],
                      Included = 1 \/ (beside[w] = {} /\ job[w].kind = "deploy")
               PROVE  loaded'[Own(w)] =
                         IF job[w].kind = "remove" THEN "none" ELSE Kind(w)
    BY DEF Own
  <2>1. Busy(w) /\ pc'[w] = "ok" /\ Local(w)
    BY DEF Ends, Busy, Alone
  <2>2. pc[w] \in {"s_reload", "x_reload"} /\ Valid /\ loaded' = Served
    BY <2>1, Ending, Verdicts
  <2>3. Own(w) \in Sites
    BY <2>1 DEF Busy, TypeOK, ControlOK, Jobs, Own
  <2>4. Included \in Nat /\ Included > 0
    <3>1. Included \in 0..2
      BY DEF Included, TypeOK, DiskOK, Confs
    <3>2. CASE Included = 1
      BY <3>2
    <3>3. CASE beside[w] = {} /\ job[w].kind = "deploy"
      <4>1. conf = Blank \/ conf.include > 0
        BY <2>1, <2>2, <3>3 DEF Local, Includes, Lone, Including
      <4> QED
        BY <2>2, <3>1, <4>1 DEF Valid, Included
    <3> QED
      BY <3>1, <3>2, <3>3
  <2>5. loaded'[Own(w)] = site[Own(w)]
    BY <2>2, <2>4 DEF Served
  <2>6. CASE pc[w] = "x_reload"
    BY <2>1, <2>5, <2>6 DEF Local, Written, Fits
  <2>7. CASE pc[w] = "s_reload"
    <3>1. site[Own(w)] = IF job[w].studio THEN Kind(w) ELSE "broken"
      BY <2>1, <2>7 DEF Local, Written
    <3>2. site[Own(w)] # "none"
      BY <3>1 DEF Kind
    <3>3. Own(w) \in Present
      BY <2>3, <3>2 DEF Present
    <3>4. Loadable(Own(w))
      BY <2>2, <2>4, <3>3 DEF Valid
    <3>5. site[Own(w)] = Kind(w)
      BY <3>1, <3>4 DEF Loadable
    <3>6. job[w].kind \in {"deploy", "tls"}
      BY <2>1, <2>7 DEF Local, Fits, SiteLabels
    <3> QED
      BY <2>5, <3>5, <3>6
  <2> QED
    BY <2>2, <2>6, <2>7
<1> QED
  BY <1>1, SiteTypes, LoneJobs, PTL DEF Spec, SuccessServes

\* A job that has the VM for itself and meets no failing command leaves loadable site
\* files where it found them, however it ends.
THEOREM LoadableIsLeft == Spec => LeavesLoadable
<1> DEFINE Body == \A w \in Workers :
              (Ends(w, "ok") \/ Ends(w, "failed")) /\ beside[w] = {} /\ ~hit'[w] /\ sound[w]
              /\ Included = 1 => \A s \in Sites : Loadable(s)'
<1>1. TypeOK /\ Alone /\ [Next]_vars => [Body]_vars
  <2> SUFFICES ASSUME TypeOK, Alone, Next, NEW w \in Workers,
                      Ends(w, "ok") \/ Ends(w, "failed"), beside[w] = {}, ~hit'[w],
                      sound[w], Included = 1
               PROVE  \A s \in Sites : Loadable(s)'
    OBVIOUS
  <2>1. Lone(w) /\ Busy(w) /\ pc'[w] \in {"ok", "failed"} /\ Local(w)
    BY DEF Ends, Busy, Lone, Alone
  <2>2. Install(w) \/ CreateSite(w) \/ RemoveSite(w) \/ EnableTLS(w)
    BY <2>1, Ending
  <2> HIDE DEF Body
  <2>3. /\ UNCHANGED <<conf, cert>>
        /\ \/ /\ pc[w] \in {"s_reload", "x_reload"} /\ Valid /\ site' = site
           \/ /\ ~Valid /\ site' = site
              /\ pc[w] \in {"i_test", "i_reload", "x_test", "x_reload", "s_reload"}
           \/ pc[w] = "s_undo" /\ site' = [site EXCEPT ![Own(w)] = "none"]
    BY <2>1, <2>2, Verdicts
  <2>4. ~hit[w]
    BY <2>1, <2>2, Verdicts
  <2>5. Own(w) \in Sites
    BY <2>1 DEF Busy, TypeOK, ControlOK, Jobs, Own
  <2>6. \A s \in Sites \ {Own(w)} : Loadable(s)
    BY <2>1, <2>4 DEF Local, Intact
  <2>7. CASE pc[w] = "s_undo"
    <3>1. site' = [site EXCEPT ![Own(w)] = "none"] /\ cert' = cert
      BY <2>3, <2>7
    <3>2. site'[Own(w)] = "none" /\ \A s \in Sites \ {Own(w)} : site'[s] = site[s]
      BY <2>5, <3>1 DEF TypeOK, DiskOK
    <3> QED
      BY <2>6, <3>1, <3>2 DEF Loadable
  <2>8. CASE pc[w] = "s_reload"
    <3>1. Valid /\ site' = site /\ cert' = cert
      BY <2>1, <2>3, <2>8 DEF Local, Tested
    <3>2. Present # {} => \A s \in Present : Loadable(s)
      BY <3>1 DEF Valid
    <3>3. \A s \in Sites \ Present : Loadable(s)
      BY DEF Present, Loadable
    <3> QED
      BY <3>1, <3>2, <3>3 DEF Loadable
  <2>9. CASE pc[w] \in {"i_test", "i_reload", "x_test", "x_reload"}
    <3>1. Loadable(Own(w)) /\ site' = site /\ cert' = cert
      BY <2>1, <2>3, <2>4, <2>9 DEF Local, Intact
    <3> QED
      BY <2>6, <3>1 DEF Loadable
  <2> QED
    BY <2>3, <2>7, <2>8, <2>9
<1> QED
  BY <1>1, SiteTypes, LoneJobs, PTL DEF Spec, LeavesLoadable

\* Enabling TLS once more with a studio domain fails only for what is wrong outside
\* its own site.
THEOREM TLSIsRepaired == Spec => TLSRepairs
<1> DEFINE Body == \A w \in Workers :
              Ends(w, "failed") /\ beside[w] = {} /\ ~hit'[w]
              /\ job[w].kind = "tls" /\ job[w].studio =>
                  \/ conf = Blank \/ Zoned # 1 \/ Included = 2
                  \/ \E s \in Sites \ {job[w].site} : ~Loadable(s)
<1>1. TypeOK /\ Alone /\ [Next]_vars => [Body]_vars
  <2> SUFFICES ASSUME TypeOK, Alone, Next, NEW w \in Workers,
                      Ends(w, "failed"), beside[w] = {}, ~hit'[w],
                      job[w].kind = "tls", job[w].studio,
                      \A s \in Sites \ {Own(w)} : Loadable(s)
               PROVE  conf = Blank \/ Zoned # 1 \/ Included = 2
    BY DEF Own
  <2> HIDE DEF Body
  <2>1. Lone(w) /\ Busy(w) /\ pc'[w] = "failed" /\ Local(w)
    BY DEF Ends, Busy, Lone, Alone
  <2>2. Install(w) \/ CreateSite(w) \/ RemoveSite(w) \/ EnableTLS(w)
    BY <2>1, Ending
  <2>3. \/ /\ ~Valid /\ pc[w] \in {"i_test", "i_reload", "x_test", "x_reload", "s_reload"}
        \/ pc[w] = "s_undo"
    BY <2>1, <2>2, Verdicts
  <2>4. ~hit[w]
    BY <2>1, <2>2, Verdicts
  <2>5. pc[w] \in {"s_undo", "s_reload"} /\ ~Valid
    BY <2>1, <2>3, <2>4 DEF Local, Fits, Tested, InstallLabels
  <2>6. Loadable(Own(w))
    <3>1. site[Own(w)] = "https"
      BY <2>1, <2>5 DEF Local, Written, Kind
    <3>2. cert[Own(w)] = [main |-> "good", studio |-> "good"]
      BY <2>1, <2>5 DEF Local, Certified, SiteLabels
    <3> QED
      BY <3>1, <3>2 DEF Loadable
  <2>7. \A s \in Present : Loadable(s)
    BY <2>6 DEF Present
  <2>8. Included \in 0..2 /\ Zoned \in 0..2
    BY DEF Included, Zoned, TypeOK, DiskOK, Confs
  <2> QED
    BY <2>5, <2>7, <2>8 DEF Valid
<1> QED
  BY <1>1, SiteTypes, LoneJobs, PTL DEF Spec, TLSRepairs
-----------------------------------------------------------------------------
(* No command of a job repeats.                                              *)

\* The most commands that a job at l still has before it.
Left(l) ==
    CASE l \in {"s_undo", "s_reload", "x_reload"} -> 1
      [] l \in {"s_test", "x_test"}               -> 2
      [] l \in {"s_file", "x_file"}               -> 3
      [] l = "s_zwrite"                           -> 4
      [] l = "s_ztrunc"                           -> 5
      [] l = "s_zones"                            -> 6
      [] l \in {"i_reload", "t_studio2"}          -> 7
      [] l \in {"i_test", "t_studio1"}            -> 8
      [] l \in {"i_bwrite", "t_main2"}            -> 9
      [] l \in {"i_btrunc", "t_main1"}            -> 10
      [] l = "i_bucket"                           -> 11
      [] l = "i_zwrite"                           -> 12
      [] l = "i_ztrunc"                           -> 13
      [] l = "i_zones"                            -> 14
      [] l = "i_sed"                              -> 15
      [] l = "i_grep"                             -> 16
      [] OTHER                                    -> 0

\* A job begins at w, and nobody else moves.
Arrives(w) ==
    /\ jobs' = jobs + 1 /\ pc[w] \in Idle
    /\ \A v \in Workers \ {w} : pc'[v] = pc[v]

\* A command of w, after which w has fewer before it and nobody else has moved.
Wears(w) ==
    /\ Left(pc'[w]) < Left(pc[w])
    /\ \A v \in Workers \ {w} : pc'[v] = pc[v]

\* Install, CreateSiteConfig, RemoveSiteConfig and WriteCertificate retry nothing
\* (nginx.go:53, 281, 518, tls.go:30): whatever fails, and whatever the jobs
\* beside it make of nginx.conf, a job is over after at most sixteen commands.
JobsWearOut == [][\E w \in Workers : Arrives(w) \/ Wears(w)]_vars

\* One command that goes on nearer to the end.
LEMMA Nearer ==
    ASSUME ControlOK, NEW w \in Workers, NEW l \in Labels \ Idle, NEW l2 \in Labels,
           Ok(w, l, l2) \/ Bad(w, l, l2), Left(l2) < Left(l)
    PROVE  Wears(w)
BY Proceeding DEF Wears, Moves

LEMMA LookingWears ==
    ASSUME ControlOK, NEW w \in Workers, NEW l \in Labels \ Idle, NEW there,
           NEW t \in Labels, NEW l2 \in Labels, Look(w, l, there, t, l2),
           Left("failed") < Left(l), Left(t) < Left(l), Left(l2) < Left(l)
    PROVE  Wears(w)
<1>1. \/ Ok(w, l, l2) \/ Bad(w, l, "failed")
      \/ pc[w] = l /\ pc' = [pc EXCEPT ![w] = t]
  BY DEF Look
<1> QED
  BY <1>1, Nearer DEF Wears, ControlOK, Labels, Idle

LEMMA TruncatingWears ==
    ASSUME ControlOK, NEW w \in Workers, NEW t \in Labels \ Idle, NEW r \in Labels,
           Truncate(w, t, r), Left("failed") < Left(t), Left(r) < Left(t)
    PROVE  Wears(w)
<1>1. Ok(w, t, r) \/ Bad(w, t, "failed")
  BY DEF Truncate
<1> QED
  BY <1>1, Nearer DEF Labels, Idle

LEMMA WritingWears ==
    ASSUME ControlOK, NEW w \in Workers, NEW r \in Labels \ Idle, NEW made,
           NEW l2 \in Labels, Write(w, r, made, l2),
           Left("failed") < Left(r), Left(l2) < Left(r)
    PROVE  Wears(w)
<1>1. Ok(w, r, l2) \/ Bad(w, r, "failed")
  BY DEF Write
<1> QED
  BY <1>1, Nearer DEF Labels, Idle

LEMMA TestingWears ==
    ASSUME ControlOK, NEW w \in Workers, NEW l \in Labels \ Idle, NEW good \in Labels,
           NEW bad \in Labels, Test(w, l, good, bad),
           Left(good) < Left(l), Left(bad) < Left(l)
    PROVE  Wears(w)
<1>1. Ok(w, l, good) \/ Ok(w, l, bad) \/ Bad(w, l, bad)
  BY DEF Test
<1> QED
  BY <1>1, Nearer

LEMMA ReloadingWears ==
    ASSUME ControlOK, NEW w \in Workers, NEW l \in Labels \ Idle, NEW good \in Labels,
           Reload(w, l, good), Left("failed") < Left(l), Left(good) < Left(l)
    PROVE  Wears(w)
<1>1. Ok(w, l, good) \/ Ok(w, l, "failed") \/ Bad(w, l, "failed")
  BY DEF Reload
<1> QED
  BY <1>1, Nearer DEF Labels, Idle

LEMMA PairWears ==
    ASSUME ControlOK, NEW w \in Workers, NEW dom, NEW l \in Labels \ Idle, NEW now,
           NEW l2 \in Labels, WritePair(w, dom, l, now, l2),
           Left("failed") < Left(l), Left(l2) < Left(l)
    PROVE  Wears(w)
<1>1. Ok(w, l, l2) \/ Bad(w, l, "failed")
  BY DEF WritePair
<1> QED
  BY <1>1, Nearer DEF Labels, Idle

LEMMA InstallWears ==
    ASSUME ControlOK, NEW w \in Workers, Install(w)
    PROVE  Wears(w)
<1> USE DEF Labels, Idle
<1>l. /\ Left("failed") = 0 /\ Left("s_zones") = 6
      /\ Left("i_reload") = 7 /\ Left("i_test") = 8 /\ Left("i_bwrite") = 9
      /\ Left("i_btrunc") = 10 /\ Left("i_bucket") = 11 /\ Left("i_zwrite") = 12
      /\ Left("i_ztrunc") = 13 /\ Left("i_zones") = 14 /\ Left("i_sed") = 15
      /\ Left("i_grep") = 16
  BY DEF Left
<1>1. CASE GrepInclude(w)
  BY <1>1, <1>l, Nearer DEF GrepInclude
<1>2. CASE AddInclude(w)
  <2>1. Ok(w, "i_sed", "i_zones") \/ Bad(w, "i_sed", "failed")
    BY <1>2 DEF AddInclude
  <2> QED
    BY <2>1, <1>l, Nearer
<1>3. CASE InstallZones(w)
  <2>1. \/ Look(w, "i_zones", ZonesThere, "i_ztrunc", "i_bucket")
        \/ Truncate(w, "i_ztrunc", "i_zwrite")
        \/ Write(w, "i_zwrite", WithZones(held[w]), "i_bucket")
    BY <1>3 DEF InstallZones, AddZones
  <2>2. ASSUME Look(w, "i_zones", ZonesThere, "i_ztrunc", "i_bucket")
        PROVE  Wears(w)
    BY <2>2, <1>l, LookingWears
  <2>3. ASSUME Truncate(w, "i_ztrunc", "i_zwrite")
        PROVE  Wears(w)
    BY <2>3, <1>l, TruncatingWears
  <2>4. ASSUME Write(w, "i_zwrite", WithZones(held[w]), "i_bucket")
        PROVE  Wears(w)
    BY <2>4, <1>l, WritingWears
  <2> QED
    BY <2>1, <2>2, <2>3, <2>4
<1>4. CASE AddBucket(w)
  <2> DEFINE there == conf # Blank /\ conf.bucket
  <2>1. \/ Look(w, "i_bucket", there, "i_btrunc", "i_test")
        \/ Truncate(w, "i_btrunc", "i_bwrite")
        \/ Write(w, "i_bwrite", WithBucket(held[w]), "i_test")
    BY <1>4 DEF AddBucket
  <2> HIDE DEF there
  <2> QED
    BY <2>1, <1>l, LookingWears, TruncatingWears, WritingWears
<1>5. CASE InstallTest(w)
  BY <1>5, <1>l, TestingWears DEF InstallTest
<1>6. CASE InstallReload(w)
  BY <1>6, <1>l, ReloadingWears DEF InstallReload
<1> QED
  BY <1>1, <1>2, <1>3, <1>4, <1>5, <1>6 DEF Install

LEMMA SiteWears ==
    ASSUME ControlOK, NEW w \in Workers, CreateSite(w) \/ RemoveSite(w)
    PROVE  Wears(w)
<1> USE DEF Labels, Idle
<1>l. /\ Left("failed") = 0 /\ Left("ok") = 0
      /\ Left("s_undo") = 1 /\ Left("s_reload") = 1 /\ Left("s_test") = 2
      /\ Left("s_file") = 3 /\ Left("s_zwrite") = 4 /\ Left("s_ztrunc") = 5
      /\ Left("s_zones") = 6
      /\ Left("x_reload") = 1 /\ Left("x_test") = 2 /\ Left("x_file") = 3
  BY DEF Left
<1>1. CASE SiteZones(w)
  <2>1. \/ Look(w, "s_zones", ZonesThere, "s_ztrunc", "s_file")
        \/ Truncate(w, "s_ztrunc", "s_zwrite")
        \/ Write(w, "s_zwrite", WithZones(held[w]), "s_file")
    BY <1>1 DEF SiteZones, AddZones
  <2>2. ASSUME Look(w, "s_zones", ZonesThere, "s_ztrunc", "s_file")
        PROVE  Wears(w)
    BY <2>2, <1>l, LookingWears
  <2>3. ASSUME Truncate(w, "s_ztrunc", "s_zwrite")
        PROVE  Wears(w)
    BY <2>3, <1>l, TruncatingWears
  <2>4. ASSUME Write(w, "s_zwrite", WithZones(held[w]), "s_file")
        PROVE  Wears(w)
    BY <2>4, <1>l, WritingWears
  <2> QED
    BY <2>1, <2>2, <2>3, <2>4
<1>2. CASE WriteSite(w)
  <2>1. Ok(w, "s_file", "s_test") \/ Bad(w, "s_file", "failed")
    BY <1>2 DEF WriteSite
  <2> QED
    BY <2>1, <1>l, Nearer
<1>3. CASE SiteTest(w) \/ RemoveTest(w)
  BY <1>3, <1>l, TestingWears DEF SiteTest, RemoveTest
<1>4. CASE SiteReload(w) \/ RemoveReload(w)
  BY <1>4, <1>l, ReloadingWears DEF SiteReload, RemoveReload
<1>5. CASE UndoSite(w)
  BY <1>5, <1>l, Nearer DEF UndoSite
<1>6. CASE RemoveFile(w)
  <2>1. Ok(w, "x_file", "x_test") \/ Bad(w, "x_file", "failed")
    BY <1>6 DEF RemoveFile
  <2> QED
    BY <2>1, <1>l, Nearer
<1> QED
  BY <1>1, <1>2, <1>3, <1>4, <1>5, <1>6 DEF CreateSite, RemoveSite

LEMMA TLSWears ==
    ASSUME ControlOK, NEW w \in Workers, EnableTLS(w) \/ Kill(w)
    PROVE  Wears(w)
<1> USE DEF Labels, Idle
<1>l. /\ Left("failed") = 0 /\ Left("s_zones") = 6
      /\ Left("t_studio2") = 7 /\ Left("t_studio1") = 8
      /\ Left("t_main2") = 9 /\ Left("t_main1") = 10
  BY DEF Left
<1>m. AfterMain(w) \in {"t_studio1", "s_zones"}
  BY DEF AfterMain
<1>1. CASE WriteMain(w)
  BY <1>1, <1>l, <1>m, PairWears DEF WriteMain
<1>2. CASE WriteStudio(w)
  BY <1>2, <1>l, PairWears DEF WriteStudio
<1>3. CASE Kill(w)
  <2>1. pc[w] \in Labels \ Idle /\ Bad(w, pc[w], "killed")
    BY <1>3 DEF Kill, ControlOK
  <2>2. Left("killed") < Left(pc[w])
    BY <2>1 DEF Left
  <2> QED
    BY <2>1, <2>2, Nearer
<1> QED
  BY <1>1, <1>2, <1>3 DEF EnableTLS

\* Every step begins a job or uses up one of some job's commands.
THEOREM JobsEnd == Spec => JobsWearOut
<1>1. ASSUME TypeOK, [Next]_vars
      PROVE  [\E w \in Workers : Arrives(w) \/ Wears(w)]_vars
  <2>1. ASSUME NEW w \in Workers,
               Install(w) \/ CreateSite(w) \/ RemoveSite(w) \/ EnableTLS(w) \/ Kill(w)
        PROVE  Wears(w)
    BY <1>1, <2>1, InstallWears, SiteWears, TLSWears DEF TypeOK
  <2>2. ASSUME NEW w \in Workers, BeginDeploy(w) \/ BeginRemove(w) \/ BeginTLS(w)
        PROVE  Arrives(w)
    BY <1>1, <2>2 DEF BeginDeploy, BeginRemove, BeginTLS, Begin, Arrives, TypeOK, ControlOK
  <2> QED
    BY <1>1, <2>1, <2>2 DEF Next
<1> QED
  BY <1>1, SiteTypes, PTL DEF Spec, JobsWearOut
=============================================================================
