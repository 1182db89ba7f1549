----------------------------- MODULE SelfUpgrade -----------------------------
(* internal/selfupgrade: concurrent vm.upgrade handlers (Run) working on one *)
(* directory.  A name in the directory refers to an inode, an open file      *)
(* writes to its inode whatever has since happened to the name, and opening  *)
(* with O_TRUNC an existing name empties the inode it refers to.  A binary   *)
(* is Chunks writes long; a chunk is the release it comes from.              *)
EXTENDS Naturals, Sequences, FiniteSets

CONSTANTS
    Upgrades,       \* the vm.upgrade requests; each downloads its own release
    Digested,       \* those that come with the SHA256 of their release
    Chunks          \* writes io.Copy needs for one binary

Old == "old"        \* the release installed at first, and its inode
NoFile == "nofile"  \* the name does not exist
Hole == "hole"      \* bytes a file skips over

Inodes == Upgrades \cup {Old}   \* a handler creates at most one, named after it

ASSUME UpgradeAssumption ==
    /\ Chunks \in Nat \ {0}
    /\ IsFiniteSet(Upgrades)
    /\ Digested \subseteq Upgrades
    /\ {Old, NoFile, Hole} \cap Upgrades = {}

VARIABLES
    exec,       \* the inode execPath names
    tmp,        \* the inode execPath + ".new" names, or NoFile
    data,       \* [Inodes -> Seq of chunks]
    pc,         \* where each handler is
    fd,         \* the inode each handler has open
    off,        \* each handler's write offset
    installed,  \* the upgrade swapped in last, or Old (properties only)
    restarts,   \* handlers whose delayed systemctl restart is pending
    live,       \* the inode the running process executes
    overlapped  \* two handlers have worked at the same time (properties only)

files == <<exec, tmp, data>>
vars == <<files, pc, fd, off, installed, restarts, live, overlapped>>

Working == {"copy", "check", "chmod", "rename"}
Active  == {u \in Upgrades : pc[u] \in Working}

\* What n writes of a download leave in an empty file, and all of them.
Part(v, n) == [k \in 1..n |-> v]
Image(v) == Part(v, Chunks)

\* s with chunk v written at offset n (the next write position is n + 1).
Written(s, n, v) ==
    [k \in 1..(IF Len(s) > n THEN Len(s) ELSE n + 1) |->
        IF k = n + 1 THEN v ELSE IF k <= Len(s) THEN s[k] ELSE Hole]

\* os.Remove(tmpPath): whichever inode the name refers to by now.
RemoveTmp == tmp' = NoFile

Goto(u, l) == pc' = [pc EXCEPT ![u] = l]
-----------------------------------------------------------------------------
Init ==
    /\ exec = Old
    /\ tmp = NoFile
    /\ data = [i \in Inodes |-> IF i = Old THEN Image(Old) ELSE <<>>]
    /\ pc = [u \in Upgrades |-> "idle"]
    /\ fd = [u \in Upgrades |-> NoFile]
    /\ off = [u \in Upgrades |-> 0]
    /\ installed = Old
    /\ restarts = {}
    /\ live = Old
    /\ overlapped = FALSE

\* Mutant: the download goes straight to the executable's name.
OpenExecutable(u) ==
    /\ pc[u] = "idle"
    /\ data' = [data EXCEPT ![exec] = <<>>]
    /\ fd' = [fd EXCEPT ![u] = exec]
    /\ off' = [off EXCEPT ![u] = 0]
    /\ Goto(u, "copy")
    /\ overlapped' = (overlapped \/ Active # {})
    /\ UNCHANGED <<exec, tmp, installed, restarts, live>>

\* The request is dispatched, the GET answered 200, the temp file opened.
OpenTmp(u) ==
    /\ pc[u] = "idle"
    /\ LET i == IF tmp = NoFile THEN u ELSE tmp
       IN  /\ tmp' = i
           /\ data' = [data EXCEPT ![i] = <<>>]
           /\ fd' = [fd EXCEPT ![u] = i]
    /\ off' = [off EXCEPT ![u] = 0]
    /\ Goto(u, "copy")
    /\ overlapped' = (overlapped \/ Active # {})
    /\ UNCHANGED <<exec, installed, restarts, live>>

\* No URL, one that is not http(s), or a binary path that cannot be resolved:
\* Run returns before it has touched anything.
Refuse(u) ==
    /\ pc[u] = "idle"
    /\ Goto(u, "failed")
    /\ UNCHANGED <<files, fd, off, installed, restarts, live, overlapped>>

\* Unreachable server, a status other than 200, or no temp file: every failure
\* of download() makes Run remove the temp name, opened by it or not.
FetchFail(u) ==
    /\ pc[u] = "idle"
    /\ RemoveTmp
    /\ Goto(u, "failed")
    /\ overlapped' = (overlapped \/ Active # {})
    /\ UNCHANGED <<exec, data, fd, off, installed, restarts, live>>

\* io.Copy writes the next part of the body at this handler's own offset.
CopyChunk(u) ==
    /\ pc[u] = "copy"
    /\ off[u] < Chunks
    /\ data' = [data EXCEPT ![fd[u]] = Written(@, off[u], u)]
    /\ off' = [off EXCEPT ![u] = @ + 1]
    /\ UNCHANGED <<exec, tmp, pc, fd, installed, restarts, live, overlapped>>

\* The body ends: whole, or early but cleanly, where the server closes the
\* connection of a response without a Content-Length.
CopyEnd(u) ==
    /\ pc[u] = "copy"
    /\ fd' = [fd EXCEPT ![u] = NoFile]
    /\ Goto(u, "check")
    /\ UNCHANGED <<files, off, installed, restarts, live, overlapped>>

\* Mutant: the digest is not looked at.
CheckLength(u) ==
    /\ pc[u] = "check"
    /\ off[u] > 0
    /\ Goto(u, "chmod")
    /\ UNCHANGED <<files, fd, off, installed, restarts, live, overlapped>>

\* Something came off the network, and if the request has a digest it is that of
\* the whole release: without one nothing else is looked at.
CheckOk(u) ==
    /\ pc[u] = "check"
    /\ off[u] > 0
    /\ u \in Digested => off[u] = Chunks
    /\ Goto(u, "chmod")
    /\ UNCHANGED <<files, fd, off, installed, restarts, live, overlapped>>

\* Read or write error, empty body, or digest mismatch.
CheckFail(u) ==
    /\ pc[u] \in {"copy", "check"}
    /\ fd' = [fd EXCEPT ![u] = NoFile]
    /\ RemoveTmp
    /\ Goto(u, "failed")
    /\ UNCHANGED <<exec, data, off, installed, restarts, live, overlapped>>

Chmod(u) ==
    /\ pc[u] = "chmod"
    /\ Goto(u, IF tmp = NoFile THEN "failed" ELSE "rename")
    /\ UNCHANGED <<files, fd, off, installed, restarts, live, overlapped>>

\* Mutant: nothing restarts the service after the swap.
RenameOnly(u) ==
    /\ pc[u] = "rename"
    /\ tmp # NoFile
    /\ exec' = tmp
    /\ RemoveTmp
    /\ Goto(u, "swapped")
    /\ installed' = u
    /\ UNCHANGED <<data, fd, off, restarts, live, overlapped>>

\* Rename, and on success schedule the restart and return the result.
Rename(u) ==
    /\ pc[u] = "rename"
    /\ IF tmp = NoFile
       THEN /\ Goto(u, "failed")
            /\ UNCHANGED <<exec, installed, restarts>>
       ELSE /\ exec' = tmp
            /\ installed' = u
            /\ Goto(u, "swapped")
            /\ restarts' = restarts \cup {u}
    /\ RemoveTmp
    /\ UNCHANGED <<data, fd, off, live, overlapped>>

\* The process dies, of a pending systemctl restart or of anything else, and
\* systemd starts what execPath names: handlers, files and timers are gone.
Reboot ==
    /\ live' = exec
    /\ pc' = [u \in Upgrades |-> IF pc[u] \in Working THEN "killed" ELSE pc[u]]
    /\ fd' = [u \in Upgrades |-> NoFile]
    /\ restarts' = {}
    /\ UNCHANGED <<files, off, installed, overlapped>>

Restart == restarts # {} /\ Reboot

Crash == Active # {} /\ Reboot

Handler(u) == \/ OpenTmp(u) \/ Refuse(u) \/ FetchFail(u) \/ CopyChunk(u)
              \/ CopyEnd(u) \/ CheckOk(u) \/ CheckFail(u) \/ Chmod(u) \/ Rename(u)

Next == \/ \E u \in Upgrades : Handler(u)
        \/ Restart
        \/ Crash

Spec == Init /\ [][Next]_vars

\* The restart's timer goroutine runs and systemctl does its work.
FairSpec == Spec /\ WF_vars(Restart)
-----------------------------------------------------------------------------
TypeOK ==
    /\ exec \in Inodes
    /\ tmp \in Inodes \cup {NoFile}
    /\ data \in [Inodes -> Seq(Upgrades \cup {Old, Hole})]
    /\ pc \in [Upgrades -> Working \cup {"idle", "swapped", "failed", "killed"}]
    /\ fd \in [Upgrades -> Inodes \cup {NoFile}]
    /\ off \in [Upgrades -> 0..Chunks]
    /\ installed \in Upgrades \cup {Old}
    /\ restarts \subseteq Upgrades
    /\ live \in Inodes
    /\ overlapped \in BOOLEAN

\* "Downloads the binary, verifies it, atomically replaces the running
\* executable" (selfupgrade.go:69): whenever the process dies, execPath names a
\* whole binary, the original or a release that has a digest.
ExecIsWhole ==
    \E v \in Digested \cup {Old} : data[exec] = Image(v)

\* What was swapped in last is there, and all of it if it came with a digest.
\* Without one it may be any beginning of the release, but not an empty file
\* (selfupgrade.go:166-169).
InstalledIsThere ==
    \E n \in 1..Chunks :
        /\ data[exec] = Part(installed, n)
        /\ n = Chunks \/ installed \in Upgrades \ Digested

\* What holds of that: with one upgrade at a time, each of them killed at any
\* point or not, the next boot finds the upgrade that was swapped in last.
OneAtATimeExecIsWhole ==
    ~overlapped => InstalledIsThere

\* The image of the running process is never written to, even when several
\* upgrades share the temp name (the comment at selfupgrade.go:114): a handler
\* dies with its process, so no open file outlives the restart.
LiveImageUntouched ==
    [][data'[live] = data[live]]_vars

\* A swapped-in binary gets to run: after a successful Run the process executes
\* what execPath names, unless a further swap is already pending its restart.
SwapIsRestarted ==
    \A u \in Upgrades : pc[u] = "swapped" ~> live = exec
=============================================================================
