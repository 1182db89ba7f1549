----------------------------- MODULE DestroyJob -----------------------------
(* internal/destroy and internal/resetvm: Destroy on one instance, which     *)
(* stops at its first failing step, and Reset, which destroys each instance  *)
(* without its port, prunes docker and resets the firewall whatever fails.   *)
EXTENDS InstanceHost

DestroyJobs == JobsOf("destroy", {None}, {None}, {"pg"}, {FALSE}, BOOLEAN)

ResetJob == [NoJob EXCEPT !.kind = "reset"]

BeginDestroy(w) == \E j \in DestroyJobs : Begin(w, j, "x_stop")

\* listInstanceSubdirs: an instance without a directory is not destroyed, nor any
\* when the directories cannot be listed, which fails the reset in the end.
BeginReset(w) ==
    \/ Begin(w, ResetJob, IF dir THEN "x_stop" ELSE "z_prune")
    \/ Begin(w, ResetJob, "zf_prune")

\* Mutant: a reset does not remember that destroying an instance failed.
Forget(w) == IF job[w].kind = "reset" THEN "z_prune" ELSE "failed"

\* Where a failing step of Destroy leads: a reset goes on, to fail in the end.
Failed(w) == IF job[w].kind = "reset" THEN "zf_prune" ELSE "failed"

\* Stop: the message of a missing directory or file is among the ignorable ones.
StopContainers(w) ==
    /\ \/ CanCompose /\ Ok(w, "x_stop", "x_volumes") /\ stack' = Stopped
       \/ (~dir \/ yml = None) /\ Ok(w, "x_stop", "x_volumes") /\ UNCHANGED stack
       \/ dir /\ yml = Broken /\ Ok(w, "x_stop", Failed(w)) /\ UNCHANGED stack
       \/ Bad(w, "x_stop", Failed(w)) /\ stack' \in {stack, Stopped}
    /\ UNCHANGED <<files, data, site, port>>

\* Mutant: a missing directory counts as a failure.
RemoveVolumesStrict(w) ==
    /\ \/ CanCompose /\ Ok(w, "x_volumes", "x_site") /\ stack' = NoStack
       \/ ~CanCompose /\ Ok(w, "x_volumes", Failed(w)) /\ UNCHANGED stack
    /\ UNCHANGED <<files, data, site, port>>

\* `down -v`: a missing directory is ignorable, a missing file is not, since only
\* the exit status and not the output is looked at.
RemoveVolumes(w) ==
    /\ \/ CanCompose /\ Ok(w, "x_volumes", "x_site") /\ stack' = NoStack
       \/ ~dir /\ Ok(w, "x_volumes", "x_site") /\ UNCHANGED stack
       \/ dir /\ ~CanCompose /\ Ok(w, "x_volumes", Failed(w)) /\ UNCHANGED stack
       \/ Bad(w, "x_volumes", Failed(w)) /\ stack' \in {stack, NoStack}
    /\ UNCHANGED <<files, data, site, port>>

\* removeNginxConfig; the certificates are removed with it.
RemoveSite(w) ==
    /\ \/ Ok(w, "x_site", "x_dir") /\ SiteRemoved
       \/ Bad(w, "x_site", Failed(w)) /\ SiteNotRemoved
    /\ UNCHANGED <<files, stack, data, port>>

\* `rm -rf`: when it fails some of the files are gone and the directory is not.
RemoveDirectory(w) ==
    /\ \/ /\ Ok(w, "x_dir", "x_orphans")
          /\ dir' = FALSE /\ yml' = None /\ bak' = None /\ env' = None
          /\ data' = None /\ mount' = NoMounts
       \/ /\ Bad(w, "x_dir", Failed(w))
          /\ yml' \in {yml, None} /\ env' \in {env, None} /\ data' \in {data, None}
          /\ mount' \in {mount, NoMounts}
          /\ UNCHANGED <<dir, bak>>
    /\ UNCHANGED <<stack, site, port>>

\* The IDs reach `docker rm -f` as one argument with line breaks in it, which
\* names no container; every error is ignored.
CleanupOrphans(w) ==
    /\ Ok(w, "x_orphans", "x_port")
    /\ UNCHANGED host

\* closeFirewallPort, the last step; a reset has passed port 0.
ClosePort(w) ==
    /\ \/ job[w].kind = "destroy" /\ Ok(w, "x_port", "ok")
            /\ port' = (port /\ ~job[w].port)
       \/ job[w].kind = "reset" /\ Ok(w, "x_port", "z_prune") /\ UNCHANGED port
       \/ job[w].port /\ Bad(w, "x_port", "failed") /\ UNCHANGED port
    /\ UNCHANGED <<files, stack, data, site>>

\* pruneDocker: a failure is recorded.
PruneDocker(w) ==
    /\ \/ Ok(w, "z_prune", "z_ufw") \/ Bad(w, "z_prune", "zf_ufw")
       \/ Ok(w, "zf_prune", "zf_ufw") \/ Bad(w, "zf_prune", "zf_ufw")
    /\ UNCHANGED host

\* resetUFW removes the rules of every port but the allowed ones, which the
\* instance's is not among; then stale configuration files are removed.
ResetUfw(w) ==
    /\ \/ port' = FALSE /\ (Ok(w, "z_ufw", "ok") \/ Ok(w, "zf_ufw", "failed"))
       \/ /\ Bad(w, "z_ufw", "failed") \/ Bad(w, "zf_ufw", "failed")
          /\ port' \in {port, FALSE}
    /\ UNCHANGED <<files, stack, data, site>>

DestroyStep(w) ==
    \/ BeginDestroy(w) \/ BeginReset(w)
    \/ StopContainers(w) \/ RemoveVolumes(w) \/ RemoveSite(w)
    \/ RemoveDirectory(w) \/ CleanupOrphans(w) \/ ClosePort(w)
    \/ PruneDocker(w) \/ ResetUfw(w)
=============================================================================
