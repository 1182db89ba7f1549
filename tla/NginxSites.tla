----------------------------- MODULE NginxSites -----------------------------
(* The Nginx that the instances of a VM share: nginx.conf, a file for each   *)
(* site, a certificate for each domain, and what the running server has      *)
(* loaded.  The jobs are the parts of deploy, enable-TLS and destroy that    *)
(* work on it (internal/nginx, internal/enabletls, internal/tls); nothing    *)
(* locks them against each other.  Nginx itself is external.                 *)
EXTENDS Naturals, FiniteSets

CONSTANTS
    Workers,    \* RPC handlers and CLI processes
    Sites,      \* subdomains
    NoSite,     \* the site of no job
    Blank,      \* nginx.conf without content
    MaxJobs,    \* jobs begun
    MaxFaults   \* commands that fail of themselves

ASSUME SitesAssumption ==
    /\ NoSite \notin Sites
    /\ Blank \notin [include : 0..2, zones : 0..2, bucket : BOOLEAN]
    /\ MaxJobs \in Nat /\ MaxFaults \in Nat

VARIABLES
    conf,     \* nginx.conf: how often it has our lines
    site,     \* the site files: "none", "http", "https" or "broken"
    cert,     \* fullchain.pem and privkey.pem of the two domains of a site
    loaded,   \* the sites as the server serves them
    pc,       \* where each job is
    job,      \* what it does
    held,     \* nginx.conf as it has read it
    jobs,     \* jobs begun so far
    faults,   \* failures of themselves so far
    hit,      \* one of them was in this job (properties only)
    beside,   \* the sites of the jobs that ran beside it (properties only)
    sound,    \* every site file could be loaded when it began (properties only)
    touched   \* a job on the site has not ended well since (properties only)

disk == <<conf, site, cert, loaded>>
vars == <<disk, pc, job, held, jobs, faults, hit, beside, sound, touched>>

Idle  == {"idle", "ok", "failed", "killed"}
Confs == [include : 0..2, zones : 0..2, bucket : BOOLEAN]
Pairs == {"none", "good", "bad"}

NoJob == [kind |-> "none", site |-> NoSite, studio |-> TRUE]
\* studio: the request names a studio domain.  It has the dashboard's credentials;
\* their password file is written as part of WriteSite.
Jobs  == [kind : {"deploy", "remove"}, site : Sites, studio : {TRUE}]
         \cup [kind : {"tls"}, site : Sites, studio : BOOLEAN]
-----------------------------------------------------------------------------
(* What `nginx -t` looks at                                                  *)
\* A site file can be loaded: the certificates it names are pairs.
Loadable(s) ==
    /\ site[s] # "broken"
    /\ site[s] = "https" => cert[s] = [main |-> "good", studio |-> "good"]

Present == {s \in Sites : site[s] # "none"}

\* How often nginx.conf has the include line, and the zones.
Included == IF conf = Blank THEN 0 ELSE conf.include
Zoned    == IF conf = Blank THEN 0 ELSE conf.zones

\* A zone has to be there, and only once, and no upstream may be defined twice.
Valid ==
    /\ conf # Blank
    /\ Zoned <= 1
    /\ Included > 0 /\ Present # {} =>
          Included = 1 /\ Zoned = 1 /\ \A s \in Present : Loadable(s)

\* What a server that loads the configuration serves.
Served == IF Included = 0 THEN [s \in Sites |-> "none"] ELSE site
-----------------------------------------------------------------------------
Hit(w) ==
    /\ faults < MaxFaults /\ faults' = faults + 1
    /\ hit' = [hit EXCEPT ![w] = TRUE]

\* Job w goes on at l2.
Proceed(w, l, l2) ==
    LET s == job[w].site
        same == {v \in Workers \ {w} : job[v].site = s}
    IN  /\ pc[w] = l
        /\ pc' = [pc EXCEPT ![w] = l2]
        /\ job' = IF l2 \in Idle THEN [job EXCEPT ![w] = NoJob] ELSE job
        /\ held' = IF l2 \in Idle THEN [held EXCEPT ![w] = Blank] ELSE held
        /\ touched' = IF l2 = "ok" /\ same = {}
                      THEN [touched EXCEPT ![s] = FALSE] ELSE touched
        /\ UNCHANGED <<jobs, beside, sound>>

Ok(w, l, l2)  == Proceed(w, l, l2) /\ UNCHANGED <<faults, hit>>
Bad(w, l, l2) == Proceed(w, l, l2) /\ Hit(w)

Begin(w, j, l) ==
    LET busy == {v \in Workers \ {w} : pc[v] \notin Idle}
    IN  /\ pc[w] \in Idle /\ jobs < MaxJobs
        /\ jobs' = jobs + 1
        /\ job' = [job EXCEPT ![w] = j]
        /\ pc' = [pc EXCEPT ![w] = l]
        /\ hit' = [hit EXCEPT ![w] = FALSE]
        /\ beside' = [v \in Workers |->
                          IF v = w THEN {job[x].site : x \in busy}
                          ELSE IF v \in busy THEN beside[v] \cup {j.site}
                          ELSE beside[v]]
        /\ sound' = [sound EXCEPT ![w] = \A s \in Sites : Loadable(s)]
        /\ touched' = [touched EXCEPT ![j.site] = TRUE]
        /\ UNCHANGED <<disk, held, faults>>

BeginDeploy(w) == \E j \in Jobs : j.kind = "deploy" /\ Begin(w, j, "i_grep")
BeginRemove(w) == \E j \in Jobs : j.kind = "remove" /\ Begin(w, j, "x_file")
BeginTLS(w)    == \E j \in Jobs : j.kind = "tls" /\ Begin(w, j, "t_main1")

\* The agent is killed.
Kill(w) ==
    /\ pc[w] \notin Idle /\ Bad(w, pc[w], "killed")
    /\ UNCHANGED disk
-----------------------------------------------------------------------------
(* nginx.conf                                                                *)
\* EnsureIncludeDirective: grep ...
GrepInclude(w) ==
    /\ \/ Included > 0 /\ Ok(w, "i_grep", "i_zones")
       \/ Included = 0 /\ Ok(w, "i_grep", "i_sed")
    /\ UNCHANGED disk

\* ... and sed, which adds the line after "http {" in whatever is there by then.
AddInclude(w) ==
    /\ \/ /\ Ok(w, "i_sed", "i_zones")
          /\ conf' = IF conf = Blank \/ conf.include = 2 THEN conf
                     ELSE [conf EXCEPT !.include = @ + 1]
       \/ Bad(w, "i_sed", "failed") /\ UNCHANGED conf
    /\ UNCHANGED <<site, cert, loaded>>

\* A function that looks for its lines and reads nginx.conf when they are not
\* there (at l), truncates the file (t) and writes what it has made of what it
\* read (r); then the job is at l2.
Look(w, l, there, t, l2) ==
    /\ \/ there /\ Ok(w, l, l2) /\ UNCHANGED disk
       \/ /\ ~there /\ pc[w] = l
          /\ pc' = [pc EXCEPT ![w] = t]
          /\ held' = [held EXCEPT ![w] = conf]
          /\ UNCHANGED <<disk, job, jobs, faults, hit, beside, sound, touched>>
       \/ ~there /\ Bad(w, l, "failed") /\ UNCHANGED disk

Truncate(w, t, r) ==
    /\ \/ Ok(w, t, r) /\ conf' = Blank
       \/ Bad(w, t, "failed") /\ conf' \in {conf, Blank}
    /\ UNCHANGED <<site, cert, loaded>>

Write(w, r, made, l2) ==
    /\ \/ Ok(w, r, l2) /\ conf' = made
       \/ Bad(w, r, "failed") /\ conf' = Blank
    /\ UNCHANGED <<site, cert, loaded>>

ZonesThere == Zoned > 0

\* ConfigureRateLimiting, from Install and again from CreateSiteConfig.
WithZones(c) == IF c = Blank \/ c.zones = 2 THEN c ELSE [c EXCEPT !.zones = @ + 1]
AddZones(w, l, t, r, l2) ==
    \/ Look(w, l, ZonesThere, t, l2)
    \/ Truncate(w, t, r)
    \/ Write(w, r, WithZones(held[w]), l2)

InstallZones(w) == AddZones(w, "i_zones", "i_ztrunc", "i_zwrite", "i_bucket")
SiteZones(w)    == AddZones(w, "s_zones", "s_ztrunc", "s_zwrite", "s_file")

\* ConfigureServerNamesHashBucketSize
WithBucket(c) == IF c = Blank THEN c ELSE [c EXCEPT !.bucket = TRUE]
AddBucket(w) ==
    \/ Look(w, "i_bucket", conf # Blank /\ conf.bucket, "i_btrunc", "i_test")
    \/ Truncate(w, "i_btrunc", "i_bwrite")
    \/ Write(w, "i_bwrite", WithBucket(held[w]), "i_test")
-----------------------------------------------------------------------------
(* Test and reload                                                           *)
\* TestConfig
Test(w, l, good, bad) ==
    /\ \/ Valid /\ Ok(w, l, good)
       \/ ~Valid /\ Ok(w, l, bad)
       \/ Bad(w, l, bad)
    /\ UNCHANGED disk

\* Mutant: a restart, which stops the server before it reads the configuration.
Restart(w, l, good) ==
    /\ \/ Valid /\ Ok(w, l, good) /\ loaded' = Served
       \/ ~Valid /\ Ok(w, l, "failed") /\ loaded' = [s \in Sites |-> "none"]
    /\ UNCHANGED <<conf, site, cert>>

\* Reload: a configuration that is not valid by then leaves the old one loaded.
Reload(w, l, good) ==
    /\ \/ Valid /\ Ok(w, l, good) /\ loaded' = Served
       \/ ~Valid /\ Ok(w, l, "failed") /\ UNCHANGED loaded
       \/ Bad(w, l, "failed") /\ loaded' \in {loaded, IF Valid THEN Served ELSE loaded}
    /\ UNCHANGED <<conf, site, cert>>

\* The end of Install, after which the deployment comes to its site.
InstallTest(w)   == Test(w, "i_test", "i_reload", "failed")
InstallReload(w) == Reload(w, "i_reload", "s_zones")
-----------------------------------------------------------------------------
(* A site                                                                    *)
Kind(w) == IF job[w].kind = "tls" /\ job[w].studio THEN "https" ELSE "http"

\* CreateSiteConfig overwrites the file.  Without a studio domain the HTTPS file
\* names a certificate that no step has written.
WriteSite(w) ==
    /\ \/ /\ Ok(w, "s_file", "s_test")
          /\ site' = [site EXCEPT ![job[w].site] =
                         IF job[w].studio THEN Kind(w) ELSE "broken"]
       \/ /\ Bad(w, "s_file", "failed")
          /\ site' \in {site, [site EXCEPT ![job[w].site] = "broken"]}
    /\ UNCHANGED <<conf, cert, loaded>>

\* Mutant: what fails the test is left in place.
KeepSite(w) == Ok(w, "s_undo", "failed") /\ UNCHANGED disk

SiteTest(w) == Test(w, "s_test", "s_reload", "s_undo")

\* The rollback removes the file, and with it the one it replaced.
UndoSite(w) ==
    /\ Ok(w, "s_undo", "failed")
    /\ site' = [site EXCEPT ![job[w].site] = "none"]
    /\ UNCHANGED <<conf, cert, loaded>>

\* Mutant: the server keeps its configuration.
NoReload(w) == Ok(w, "s_reload", "ok") /\ UNCHANGED disk

SiteReload(w) == Reload(w, "s_reload", "ok")

\* RemoveSiteConfig
RemoveFile(w) ==
    /\ \/ Ok(w, "x_file", "x_test") /\ site' = [site EXCEPT ![job[w].site] = "none"]
       \/ Bad(w, "x_file", "failed") /\ UNCHANGED site
    /\ UNCHANGED <<conf, cert, loaded>>

RemoveTest(w)   == Test(w, "x_test", "x_reload", "failed")
RemoveReload(w) == Reload(w, "x_reload", "ok")
-----------------------------------------------------------------------------
(* Certificates                                                              *)
\* WriteCertificate writes certificate and key in either order over what is
\* there, so that between the two they are no pair.
WritePair(w, dom, l, now, l2) ==
    LET with(p) == [cert EXCEPT ![job[w].site] = [@ EXCEPT ![dom] = p]]
    IN  /\ \/ Ok(w, l, l2) /\ cert' = with(now)
           \/ Bad(w, l, "failed") /\ cert' \in {cert, with("bad")}
        /\ UNCHANGED <<conf, site, loaded>>

AfterMain(w) == IF job[w].studio THEN "t_studio1" ELSE "s_zones"

WriteMain(w) ==
    \/ WritePair(w, "main", "t_main1", "bad", "t_main2")
    \/ WritePair(w, "main", "t_main2", "good", AfterMain(w))

\* Mutant: a certificate that is there is not written again.
StudioOnce(w) ==
    \/ /\ Ok(w, "t_studio1", "s_zones") /\ cert[job[w].site].studio # "none"
       /\ UNCHANGED disk
    \/ WritePair(w, "studio", "t_studio1", "bad", "t_studio2")
    \/ WritePair(w, "studio", "t_studio2", "good", "s_zones")

WriteStudio(w) ==
    \/ WritePair(w, "studio", "t_studio1", "bad", "t_studio2")
    \/ WritePair(w, "studio", "t_studio2", "good", "s_zones")
-----------------------------------------------------------------------------
Install(w) ==
    \/ GrepInclude(w) \/ AddInclude(w) \/ InstallZones(w) \/ AddBucket(w)
    \/ InstallTest(w) \/ InstallReload(w)

CreateSite(w) ==
    \/ SiteZones(w) \/ WriteSite(w) \/ SiteTest(w) \/ UndoSite(w) \/ SiteReload(w)

RemoveSite(w) == RemoveFile(w) \/ RemoveTest(w) \/ RemoveReload(w)

EnableTLS(w) == WriteMain(w) \/ WriteStudio(w)

\* A fresh VM, or one on which every site is served or absent.
Init ==
    /\ \/ /\ conf = [include |-> 0, zones |-> 0, bucket |-> FALSE]
          /\ site = [s \in Sites |-> "none"]
       \/ /\ conf = [include |-> 1, zones |-> 1, bucket |-> TRUE]
          /\ site \in [Sites -> {"none", "http", "https"}]
    /\ cert = [s \in Sites |-> IF site[s] = "https"
                               THEN [main |-> "good", studio |-> "good"]
                               ELSE [main |-> "none", studio |-> "none"]]
    /\ loaded = site
    /\ pc = [w \in Workers |-> "idle"]
    /\ job = [w \in Workers |-> NoJob]
    /\ held = [w \in Workers |-> Blank]
    /\ jobs = 0 /\ faults = 0
    /\ hit = [w \in Workers |-> FALSE]
    /\ beside = [w \in Workers |-> {}]
    /\ sound = [w \in Workers |-> TRUE]
    /\ touched = [s \in Sites |-> FALSE]

Next == \E w \in Workers :
    \/ BeginDeploy(w) \/ BeginRemove(w) \/ BeginTLS(w) \/ Kill(w)
    \/ Install(w) \/ CreateSite(w) \/ RemoveSite(w) \/ EnableTLS(w)

Spec == Init /\ [][Next]_vars
-----------------------------------------------------------------------------
Labels ==
    Idle \cup
    {"i_grep", "i_sed", "i_zones", "i_ztrunc", "i_zwrite", "i_bucket", "i_btrunc",
     "i_bwrite", "i_test", "i_reload",
     "s_zones", "s_ztrunc", "s_zwrite", "s_file", "s_test", "s_undo", "s_reload",
     "x_file", "x_test", "x_reload", "t_main1", "t_main2", "t_studio1", "t_studio2"}

DiskOK ==
    /\ conf \in Confs \cup {Blank}
    /\ site \in [Sites -> {"none", "http", "https", "broken"}]
    /\ cert \in [Sites -> [main : Pairs, studio : Pairs]]
    /\ loaded \in [Sites -> {"none", "http", "https"}]

ControlOK ==
    /\ pc \in [Workers -> Labels]
    /\ job \in [Workers -> Jobs \cup {NoJob}]
    /\ \A w \in Workers : pc[w] \notin Idle => job[w] \in Jobs
    /\ held \in [Workers -> Confs \cup {Blank}]
    /\ jobs \in 0..MaxJobs /\ faults \in 0..MaxFaults
    /\ hit \in [Workers -> BOOLEAN] /\ sound \in [Workers -> BOOLEAN]
    /\ beside \in [Workers -> SUBSET Sites] /\ touched \in [Sites -> BOOLEAN]

TypeOK == DiskOK /\ ControlOK

Ends(w, r) == pc[w] \notin Idle /\ pc'[w] = r

\* A deployment, enable-TLS or removal that reports success has the server serve
\* the site as it was asked to (nginx.go:282-315, 518-537), also when jobs on other
\* sites run beside it: as long as nginx.conf still includes the site files,
\* which a deployment that has the VM for itself sees to.
SuccessServes ==
    [][\A w \in Workers :
          /\ Ends(w, "ok")
          /\ job[w].site \notin beside[w]
          /\ Included = 1 \/ (beside[w] = {} /\ job[w].kind = "deploy")
          => loaded'[job[w].site] =
                IF job[w].kind = "remove" THEN "none" ELSE Kind(w)]_vars

\* What the server serves of a site changes only if a job on that site is under
\* way or was the last to fail there: no job on another site takes it away, as
\* long as nginx.conf includes the site files.
OthersKeepServing ==
    [][\A s \in Sites :
          ~touched[s] /\ loaded[s] # "none" /\ loaded'[s] # loaded[s]
              => Included = 0]_vars

\* A job that has the VM for itself and meets no failing command leaves site
\* files that all can be loaded if it found such, so that the next start of Nginx
\* finds a configuration (nginx.go:301-306): also when it fails, as enable-TLS
\* does without a studio domain (enabletls.go:97).
LeavesLoadable ==
    [][\A w \in Workers :
          (Ends(w, "ok") \/ Ends(w, "failed")) /\ beside[w] = {} /\ ~hit'[w] /\ sound[w]
          /\ Included = 1 => \A s \in Sites : Loadable(s)']_vars

\* Enabling TLS once more repairs what a failed one has left: with the studio
\* domain, the VM for itself and no failing command it fails only for what is
\* wrong with nginx.conf or with another site.
TLSRepairs ==
    [][\A w \in Workers :
          Ends(w, "failed") /\ beside[w] = {} /\ ~hit'[w]
          /\ job[w].kind = "tls" /\ job[w].studio =>
              \/ conf = Blank \/ Zoned # 1 \/ Included = 2
              \/ \E s \in Sites \ {job[w].site} : ~Loadable(s)]_vars
=============================================================================
