-------------------------- MODULE SelfUpgradeProofs --------------------------
(* Proofs about SelfUpgrade, for any upgrades and any size of a binary.      *)
EXTENDS SelfUpgrade, TLAPS

Bytes == Upgrades \cup {Old, Hole}
Labels == Working \cup {"idle", "swapped", "failed", "killed"}

\* A write past the end leaves a hole, and one in the middle what was there.
LEMMA Writing ==
    ASSUME NEW s \in Seq(Bytes), NEW n \in Nat, NEW v \in Bytes
    PROVE  Written(s, n, v) \in Seq(Bytes)
<1> DEFINE m == IF Len(s) > n THEN Len(s) ELSE n + 1
<1>1. m \in Nat
  OBVIOUS
<1>2. \A k \in 1..m :
         (IF k = n + 1 THEN v ELSE IF k <= Len(s) THEN s[k] ELSE Hole) \in Bytes
  BY DEF Bytes
<1>3. Written(s, n, v) =
         [k \in 1..m |-> IF k = n + 1 THEN v ELSE IF k <= Len(s) THEN s[k] ELSE Hole]
  BY DEF Written
<1> HIDE DEF m
<1> QED
  BY <1>1, <1>2, <1>3

LEMMA Goes ==
    ASSUME TypeOK, NEW u \in Upgrades, NEW l \in Labels, Goto(u, l)
    PROVE  pc' \in [Upgrades -> Labels]
BY DEF TypeOK, Goto, Labels

LEMMA InitTypes == Init => TypeOK
<1> SUFFICES ASSUME Init PROVE TypeOK
  OBVIOUS
<1>1. \A i \in Inodes :
         (IF i = Old THEN Image(Old) ELSE <<>>) \in Seq(Bytes)
  <2>1. Image(Old) \in Seq(Bytes)
    BY UpgradeAssumption DEF Image, Part, Bytes
  <2> QED
    BY <2>1
<1>2. data \in [Inodes -> Seq(Bytes)]
  BY <1>1 DEF Init
<1>3. off \in [Upgrades -> 0..Chunks]
  BY UpgradeAssumption DEF Init
<1> QED
  BY <1>2, <1>3 DEF Init, TypeOK, Inodes, Bytes

LEMMA HandlerTypes ==
    ASSUME TypeOK, NEW u \in Upgrades, Handler(u)
    PROVE  TypeOK'
<1> USE DEF Bytes
<1>0. /\ "copy" \in Labels /\ "check" \in Labels /\ "chmod" \in Labels
      /\ "rename" \in Labels /\ "swapped" \in Labels /\ "failed" \in Labels
  BY DEF Labels, Working
<1>1. \A l \in Labels : Goto(u, l) => pc' \in [Upgrades -> Labels]
  BY Goes
<1>2. CASE OpenTmp(u)
  <2>1. PICK i \in Inodes : tmp' = i /\ data' = [data EXCEPT ![i] = <<>>]
                            /\ fd' = [fd EXCEPT ![u] = i]
    BY <1>2 DEF OpenTmp, TypeOK, Inodes
  <2>2. off' \in [Upgrades -> 0..Chunks]
    BY <1>2, UpgradeAssumption DEF OpenTmp, TypeOK
  <2>3. overlapped' \in BOOLEAN
    BY <1>2 DEF OpenTmp, TypeOK
  <2>4. pc' \in [Upgrades -> Labels]
    BY <1>0, <1>1, <1>2 DEF OpenTmp
  <2>5. data' \in [Inodes -> Seq(Upgrades \cup {Old, Hole})]
    BY <2>1 DEF TypeOK
  <2> QED
    BY <1>2, <2>1, <2>2, <2>3, <2>4, <2>5 DEF OpenTmp, TypeOK, Labels
<1>3. CASE FetchFail(u)
  <2>1. pc' \in [Upgrades -> Labels]
    BY <1>0, <1>1, <1>3 DEF FetchFail
  <2>2. overlapped' \in BOOLEAN
    BY <1>3 DEF FetchFail, TypeOK
  <2> QED
    BY <1>3, <2>1, <2>2 DEF FetchFail, TypeOK, RemoveTmp, Labels
<1>10. CASE Refuse(u)
  <2>1. pc' \in [Upgrades -> Labels]
    BY <1>0, <1>1, <1>10 DEF Refuse
  <2> QED
    BY <1>10, <2>1 DEF Refuse, TypeOK, files, Labels
<1>4. CASE CopyChunk(u)
  <2>1. off[u] \in Nat /\ off[u] + 1 \in 0..Chunks
    BY <1>4, UpgradeAssumption DEF CopyChunk, TypeOK
  <2>2. off' \in [Upgrades -> 0..Chunks]
    BY <1>4, <2>1 DEF CopyChunk, TypeOK
  <2>3. data' \in [Inodes -> Seq(Bytes)]
    <3>1. CASE fd[u] \in Inodes
      <4>1. data[fd[u]] \in Seq(Bytes)
        BY <3>1 DEF TypeOK
      <4>2. Written(data[fd[u]], off[u], u) \in Seq(Bytes)
        BY <2>1, <4>1, Writing
      <4> QED
        BY <1>4, <4>2 DEF CopyChunk, TypeOK
    <3>2. CASE fd[u] \notin Inodes
      BY <1>4, <3>2 DEF CopyChunk, TypeOK
    <3> QED
      BY <3>1, <3>2
  <2> QED
    BY <1>4, <2>2, <2>3 DEF CopyChunk, TypeOK
<1>5. CASE CopyEnd(u)
  <2>1. pc' \in [Upgrades -> Labels]
    BY <1>0, <1>1, <1>5 DEF CopyEnd
  <2> QED
    BY <1>5, <2>1 DEF CopyEnd, TypeOK, files, Labels
<1>6. CASE CheckOk(u)
  <2>1. pc' \in [Upgrades -> Labels]
    BY <1>0, <1>1, <1>6 DEF CheckOk
  <2> QED
    BY <1>6, <2>1 DEF CheckOk, TypeOK, files, Labels
<1>7. CASE CheckFail(u)
  <2>1. pc' \in [Upgrades -> Labels]
    BY <1>0, <1>1, <1>7 DEF CheckFail
  <2> QED
    BY <1>7, <2>1 DEF CheckFail, TypeOK, RemoveTmp, Labels
<1>8. CASE Chmod(u)
  <2>1. pc' \in [Upgrades -> Labels]
    BY <1>0, <1>1, <1>8 DEF Chmod
  <2> QED
    BY <1>8, <2>1 DEF Chmod, TypeOK, files, Labels
<1>9. CASE Rename(u)
  <2>1. pc' \in [Upgrades -> Labels]
    BY <1>0, <1>1, <1>9 DEF Rename
  <2>2. /\ exec' \in Inodes /\ restarts' \subseteq Upgrades
        /\ installed' \in Upgrades \cup {Old}
    BY <1>9 DEF Rename, TypeOK
  <2> QED
    BY <1>9, <2>1, <2>2 DEF Rename, TypeOK, RemoveTmp, Labels
<1> QED
  BY <1>2, <1>3, <1>4, <1>5, <1>6, <1>7, <1>8, <1>9, <1>10 DEF Handler

LEMMA NextTypes ==
    ASSUME TypeOK, [Next]_vars
    PROVE  TypeOK'
<1>1. CASE Reboot
  <2>1. pc' \in [Upgrades -> Labels]
    BY <1>1 DEF Reboot, TypeOK, Labels
  <2> QED
    BY <1>1, <2>1 DEF Reboot, TypeOK, files, Labels
<1>2. CASE UNCHANGED vars
  BY <1>2 DEF vars, files, TypeOK
<1> QED
  BY <1>1, <1>2, HandlerTypes DEF Next, Restart, Crash

\* Every variable keeps its type, however many upgrades share the temp name.
THEOREM UpgradeTypes == Spec => []TypeOK
BY InitTypes, NextTypes, PTL DEF Spec
-----------------------------------------------------------------------------
(* The inodes apart: nobody has the running image open, and the temp name    *)
(* leads neither to it nor to what the next boot will find.                  *)
Fresh ==
    \A u \in Upgrades : pc[u] = "idle" =>
        u \notin {exec, tmp, live} /\ \A v \in Upgrades : fd[v] # u

Parted ==
    /\ tmp # exec /\ tmp # live
    /\ \A u \in Upgrades : fd[u] # live
    /\ \A u \in Upgrades : pc[u] = "copy" => fd[u] \in Inodes

ImageInv == TypeOK /\ Fresh /\ Parted

(* As long as no two handlers have worked at a time, the one that works has  *)
(* the temp file for itself.                                                 *)
Single ==
    /\ \A u, v \in Active : u = v
    /\ InstalledIsThere
    /\ \A u \in Upgrades : pc[u] = "copy" => fd[u] = tmp
    /\ \A u \in Upgrades : pc[u] \in Working =>
          tmp # NoFile /\ data[tmp] = Part(u, off[u])
    /\ \A u \in Upgrades : pc[u] \in {"chmod", "rename"} =>
          off[u] \in 1..Chunks /\ (u \in Digested => off[u] = Chunks)

IInv == ImageInv /\ (~overlapped => Single)

LEMMA Names == NoFile \notin Inodes /\ Old \notin Upgrades /\ Upgrades \subseteq Inodes
BY UpgradeAssumption DEF Inodes, NoFile, Old

LEMMA InitImage == Init => Fresh /\ Parted
BY Names DEF Init, Fresh, Parted, Inodes

LEMMA HandlerImage ==
    ASSUME ImageInv, NEW u \in Upgrades, Handler(u)
    PROVE  Fresh' /\ Parted'
<1> USE DEF ImageInv
<1>0. pc \in [Upgrades -> Labels] /\ fd \in [Upgrades -> Inodes \cup {NoFile}]
  BY DEF TypeOK, Labels
<1>1. CASE OpenTmp(u)
  <2> DEFINE i == IF tmp = NoFile THEN u ELSE tmp
  <2>1. /\ tmp' = i /\ exec' = exec /\ live' = live
        /\ fd' = [fd EXCEPT ![u] = i] /\ pc' = [pc EXCEPT ![u] = "copy"]
        /\ pc[u] = "idle"
    BY <1>1 DEF OpenTmp, Goto
  <2>2. i \in Inodes /\ i \in {u, tmp} /\ i # exec /\ i # live
    BY <2>1, Names DEF Fresh, Parted, TypeOK
  <2> HIDE DEF i
  <2>3. Fresh'
    <3> SUFFICES ASSUME NEW v \in Upgrades, pc'[v] = "idle"
                 PROVE  v \notin {exec', tmp', live'} /\ \A x \in Upgrades : fd'[x] # v
      BY DEF Fresh
    <3>1. v # u /\ pc[v] = "idle"
      BY <1>0, <2>1
    <3>2. v # i
      BY <2>2, <3>1 DEF Fresh
    <3> QED
      BY <1>0, <2>1, <3>1, <3>2 DEF Fresh
  <2>4. Parted'
    BY <1>0, <2>1, <2>2 DEF Parted
  <2> QED
    BY <2>3, <2>4
<1>2. CASE FetchFail(u) \/ CheckFail(u)
  <2>1. /\ tmp' = NoFile /\ exec' = exec /\ live' = live
        /\ pc' = [pc EXCEPT ![u] = "failed"]
        /\ fd' = fd \/ fd' = [fd EXCEPT ![u] = NoFile]
    BY <1>2 DEF FetchFail, CheckFail, RemoveTmp, Goto
  <2> QED
    BY <1>0, <2>1, Names DEF Fresh, Parted, TypeOK
<1>3. CASE CopyChunk(u)
  BY <1>3 DEF CopyChunk, Fresh, Parted
<1>7. CASE Refuse(u)
  <2>1. UNCHANGED <<exec, tmp, live, fd>> /\ pc' = [pc EXCEPT ![u] = "failed"]
    BY <1>7 DEF Refuse, files, Goto
  <2> QED
    BY <1>0, <2>1 DEF Fresh, Parted
<1>4. CASE CopyEnd(u)
  <2>1. /\ UNCHANGED <<exec, tmp, live>> /\ pc' = [pc EXCEPT ![u] = "check"]
        /\ fd' = [fd EXCEPT ![u] = NoFile]
    BY <1>4 DEF CopyEnd, files, Goto
  <2> QED
    BY <1>0, <2>1, Names DEF Fresh, Parted, TypeOK
<1>5. CASE CheckOk(u) \/ Chmod(u)
  <2>1. /\ UNCHANGED <<exec, tmp, live, fd>>
        /\ \E l \in {"chmod", "failed", "rename"} : pc' = [pc EXCEPT ![u] = l]
    BY <1>5 DEF CheckOk, Chmod, files, Goto
  <2> QED
    BY <1>0, <2>1 DEF Fresh, Parted
<1>6. CASE Rename(u)
  <2>1. /\ tmp' = NoFile /\ exec' \in {exec, tmp} /\ live' = live /\ fd' = fd
        /\ exec' # NoFile
        /\ \E l \in {"failed", "swapped"} : pc' = [pc EXCEPT ![u] = l]
    BY <1>6, Names DEF Rename, RemoveTmp, Goto, TypeOK
  <2> QED
    BY <1>0, <2>1, Names DEF Fresh, Parted, TypeOK
<1> QED
  BY <1>1, <1>2, <1>3, <1>4, <1>5, <1>6, <1>7 DEF Handler

LEMMA RebootImage ==
    ASSUME ImageInv, Reboot
    PROVE  Fresh' /\ Parted'
<1>1. /\ live' = exec /\ exec' = exec /\ tmp' = tmp /\ exec \in Inodes
      /\ \A v \in Upgrades : fd'[v] = NoFile
      /\ \A v \in Upgrades : pc'[v] = "idle" => pc[v] = "idle"
      /\ \A v \in Upgrades : pc'[v] # "copy"
  BY DEF Reboot, files, ImageInv, TypeOK, Working
<1> QED
  BY <1>1, Names DEF ImageInv, Fresh, Parted

LEMMA NextImage ==
    ASSUME ImageInv, [Next]_vars
    PROVE  ImageInv'
<1>1. TypeOK'
  BY NextTypes DEF ImageInv
<1>2. CASE UNCHANGED vars
  BY <1>2 DEF vars, files, ImageInv, Fresh, Parted, TypeOK
<1> QED
  BY <1>1, <1>2, HandlerImage, RebootImage DEF Next, Restart, Crash, ImageInv

LEMMA Images == Spec => []ImageInv
<1>1. Init => ImageInv
  BY InitTypes, InitImage DEF ImageInv
<1> QED
  BY <1>1, NextImage, PTL DEF Spec

\* The running image is never written to, though several upgrades share the temp
\* name and each writes to whatever it once led to (selfupgrade.go:114).
THEOREM LiveUntouched == Spec => LiveImageUntouched
<1>1. ASSUME ImageInv, [Next]_vars
      PROVE  [data'[live] = data[live]]_vars
  <2> USE <1>1
  <2>0. TypeOK /\ Fresh /\ Parted
    BY DEF ImageInv
  <2>1. CASE Restart \/ Crash \/ UNCHANGED vars
    BY <2>1 DEF Restart, Crash, Reboot, files, vars
  <2>2. ASSUME NEW u \in Upgrades, OpenTmp(u)
        PROVE  data'[live] = data[live]
    <3>1. \E i \in {u, tmp} : i # live /\ data' = [data EXCEPT ![i] = <<>>]
      BY <2>0, <2>2 DEF OpenTmp, Fresh, Parted
    <3> QED
      BY <2>0, <3>1 DEF TypeOK
  <2>3. ASSUME NEW u \in Upgrades, CopyChunk(u)
        PROVE  data'[live] = data[live]
    BY <2>0, <2>3 DEF CopyChunk, Parted, TypeOK
  <2>4. ASSUME NEW u \in Upgrades,
               \/ Refuse(u) \/ FetchFail(u) \/ CopyEnd(u) \/ CheckOk(u) \/ CheckFail(u)
               \/ Chmod(u) \/ Rename(u)
        PROVE  data' = data
    BY <2>4 DEF Refuse, FetchFail, CopyEnd, CheckOk, CheckFail, Chmod, Rename, files
  <2> QED
    BY <2>1, <2>2, <2>3, <2>4 DEF Next, Handler
<1> QED
  BY <1>1, Images, PTL DEF Spec, LiveImageUntouched

LEMMA Lengthening ==
    ASSUME NEW n \in Nat, NEW u
    PROVE  Written(Part(u, n), n, u) = Part(u, n + 1)
<1> DEFINE s == [k \in 1..n |-> u]
<1>1. Len(s) = n
  OBVIOUS
<1>2. Written(s, n, u) =
         [k \in 1..(n + 1) |-> IF k = n + 1 THEN u ELSE IF k <= n THEN s[k] ELSE Hole]
  BY <1>1 DEF Written
<1>3. \A k \in 1..(n + 1) :
         (IF k = n + 1 THEN u ELSE IF k <= n THEN s[k] ELSE Hole) = u
  OBVIOUS
<1> QED
  BY <1>2, <1>3 DEF Part

LEMMA InitSingle == Init => Single
BY UpgradeAssumption
   DEF Init, Single, Active, Working, InstalledIsThere, Image, Part, Inodes

\* The one that works goes on with what it has written under the temp name.
LEMMA Staging ==
    ASSUME Single, NEW u \in Upgrades, NEW l \in {"check", "chmod", "rename"},
           pc \in [Upgrades -> Labels], pc[u] \in Working, pc' = [pc EXCEPT ![u] = l],
           \A v \in Upgrades \ {u} : pc[v] \notin Working,
           UNCHANGED <<exec, tmp, data, off, installed>>,
           l # "check" => off[u] \in 1..Chunks /\ (u \in Digested => off[u] = Chunks)
    PROVE  Single'
<1>1. pc'[u] = l /\ \A v \in Upgrades : pc'[v] \in Working => v = u
  OBVIOUS
<1>2. \A v \in Active' : v = u
  BY <1>1 DEF Active
<1>3. InstalledIsThere'
  BY DEF Single, InstalledIsThere
<1>4. \A v \in Upgrades : pc'[v] # "copy"
  BY <1>1 DEF Working
<1>5. \A v \in Upgrades : pc'[v] \in {"chmod", "rename"} => v = u
  BY <1>1 DEF Working
<1>6. tmp # NoFile /\ data[tmp] = Part(u, off[u])
  BY DEF Single
<1> QED
  BY <1>1, <1>2, <1>3, <1>4, <1>5, <1>6 DEF Single

\* Only the one that works takes a step, and it works in the temp file.
LEMMA HandlerSingle ==
    ASSUME IInv, NEW u \in Upgrades, Handler(u), ~overlapped'
    PROVE  Single'
<1> USE DEF Active, Working
<1>1. /\ TypeOK /\ Fresh /\ Parted
      /\ pc \in [Upgrades -> Labels] /\ fd \in [Upgrades -> Inodes \cup {NoFile}]
      /\ off \in [Upgrades -> 0..Chunks] /\ Chunks \in Nat
      /\ data \in [Inodes -> Seq(Bytes)] /\ exec \in Inodes
  BY UpgradeAssumption DEF IInv, ImageInv, TypeOK, Labels, Bytes
<1>2. CASE OpenTmp(u)
  <2>1. ~overlapped /\ Active = {}
    BY <1>1, <1>2 DEF OpenTmp, TypeOK
  <2>2. Single
    BY <2>1 DEF IInv
  <2>3. PICK i \in Inodes :
           /\ i # exec /\ tmp' = i /\ data' = [data EXCEPT ![i] = <<>>]
           /\ fd' = [fd EXCEPT ![u] = i] /\ i # NoFile
    BY <1>1, <1>2, Names DEF OpenTmp, Fresh, Parted, TypeOK
  <2>4. /\ pc' = [pc EXCEPT ![u] = "copy"] /\ off' = [off EXCEPT ![u] = 0]
        /\ exec' = exec /\ installed' = installed
    BY <1>2 DEF OpenTmp, Goto
  <2>5. \A v \in Upgrades : pc'[v] \in Working => v = u
    BY <1>1, <2>1, <2>4
  <2>6. data'[i] = Part(u, off'[u])
    BY <1>1, <2>3, <2>4 DEF Part
  <2>7. InstalledIsThere'
    BY <1>1, <2>2, <2>3, <2>4 DEF Single, InstalledIsThere
  <2> QED
    BY <1>1, <2>3, <2>4, <2>5, <2>6, <2>7 DEF Single
<1>3. CASE FetchFail(u)
  <2>1. ~overlapped /\ Active = {}
    BY <1>1, <1>3 DEF FetchFail, TypeOK
  <2>2. Single
    BY <2>1 DEF IInv
  <2>3. /\ pc' = [pc EXCEPT ![u] = "failed"]
        /\ UNCHANGED <<exec, data, installed>>
    BY <1>3 DEF FetchFail, Goto
  <2>4. \A v \in Upgrades : pc'[v] \notin Working
    BY <1>1, <2>1, <2>3
  <2> QED
    BY <2>2, <2>3, <2>4 DEF Single, InstalledIsThere
<1>5. CASE Refuse(u)
  <2>1. /\ ~overlapped /\ pc[u] = "idle" /\ pc' = [pc EXCEPT ![u] = "failed"]
        /\ UNCHANGED <<exec, tmp, data, fd, off, installed>>
    BY <1>5 DEF Refuse, Goto, files
  <2>2. Single
    BY <2>1 DEF IInv
  <2>3. \A v \in Upgrades : pc'[v] \in Working => pc[v] = pc'[v]
    BY <1>1, <2>1
  <2>4. \A v \in Upgrades : pc'[v] = "copy" => pc[v] = "copy"
    BY <1>1, <2>1
  <2>5. InstalledIsThere'
    BY <2>1, <2>2 DEF Single, InstalledIsThere
  <2> QED
    BY <2>1, <2>2, <2>3, <2>4, <2>5 DEF Single
<1>4. CASE ~OpenTmp(u) /\ ~FetchFail(u) /\ ~Refuse(u)
  <2>0. ~overlapped
    BY <1>4 DEF Handler, CopyChunk, CopyEnd, CheckOk, CheckFail, Chmod, Rename
  <2>1. Single /\ pc[u] \in Working
    BY <1>4, <2>0 DEF IInv, Handler, CopyChunk, CopyEnd, CheckOk, CheckFail, Chmod, Rename
  <2>2. \A v \in Upgrades \ {u} : pc[v] \notin Working
    BY <2>1 DEF Single
  <2>3. CASE CopyChunk(u)
    <3>1. /\ pc' = pc /\ exec' = exec /\ tmp' = tmp /\ fd' = fd /\ installed' = installed
          /\ data' = [data EXCEPT ![fd[u]] = Written(@, off[u], u)]
          /\ off' = [off EXCEPT ![u] = @ + 1] /\ pc[u] = "copy"
      BY <2>3 DEF CopyChunk
    <3>2. fd[u] = tmp /\ tmp # NoFile /\ tmp \in Inodes /\ tmp # exec
          /\ data[tmp] = Part(u, off[u])
      BY <1>1, <2>1, <3>1 DEF Single, TypeOK, Parted
    <3>3. off[u] \in Nat /\ off'[u] = off[u] + 1
      BY <1>1, <3>1
    <3>4. data'[tmp] = Part(u, off'[u])
      <4>1. Written(Part(u, off[u]), off[u], u) = Part(u, off[u] + 1)
        BY <3>3, Lengthening
      <4>2. data'[tmp] = Written(data[tmp], off[u], u)
        BY <1>1, <3>1, <3>2
      <4> QED
        BY <3>2, <3>3, <4>1, <4>2
    <3>5. InstalledIsThere'
      <4>1. data'[exec] = data[exec]
        BY <1>1, <3>1, <3>2
      <4>2. InstalledIsThere
        BY <2>1 DEF Single
      <4> QED
        BY <3>1, <4>1, <4>2 DEF InstalledIsThere
    <3> QED
      <4>1. pc'[u] = "copy" /\ \A v \in Upgrades : pc'[v] \in Working => v = u
        BY <2>2, <3>1
      <4>2. tmp' # NoFile /\ fd'[u] = tmp' /\ data'[tmp'] = Part(u, off'[u])
        BY <3>1, <3>2, <3>4
      <4> HIDE DEF Working
      <4>3. \A v \in Active' : v = u
        BY <4>1
      <4>4. \A v \in Upgrades : pc'[v] \in Working =>
              tmp' # NoFile /\ fd'[v] = tmp' /\ data'[tmp'] = Part(v, off'[v])
        BY <4>1, <4>2
      <4>5. \A v \in Upgrades : pc'[v] = "copy" => pc'[v] \in Working
        BY DEF Working
      <4>6. \A v \in Upgrades : pc'[v] \notin {"chmod", "rename"}
        BY <4>1 DEF Working
      <4> QED
        BY <3>5, <4>3, <4>4, <4>5, <4>6 DEF Single
  <2>4. CASE CopyEnd(u)
    <3>1. /\ pc' = [pc EXCEPT ![u] = "check"]
          /\ UNCHANGED <<exec, tmp, data, off, installed>>
      BY <2>4 DEF CopyEnd, Goto, files
    <3> QED
      BY <1>1, <2>1, <2>2, <3>1, Staging
  <2>5. CASE CheckOk(u)
    <3>1. /\ pc' = [pc EXCEPT ![u] = "chmod"]
          /\ UNCHANGED <<exec, tmp, data, off, installed>>
      BY <2>5 DEF CheckOk, Goto, files
    <3>2. off[u] \in 1..Chunks /\ (u \in Digested => off[u] = Chunks)
      BY <1>1, <2>5 DEF CheckOk
    <3> QED
      BY <1>1, <2>1, <2>2, <3>1, <3>2, Staging
  <2>6. CASE CheckFail(u)
    <3>1. pc' = [pc EXCEPT ![u] = "failed"] /\ UNCHANGED <<exec, data, installed>>
      BY <2>6 DEF CheckFail, Goto
    <3>2. \A v \in Upgrades : pc'[v] \notin Working
      BY <1>1, <2>2, <3>1
    <3> QED
      BY <2>1, <3>1, <3>2 DEF Single, InstalledIsThere
  <2>7. CASE Chmod(u)
    <3>1. /\ pc' = [pc EXCEPT ![u] = "rename"] /\ pc[u] = "chmod"
          /\ UNCHANGED <<exec, tmp, data, off, installed>>
      BY <2>1, <2>7 DEF Chmod, Goto, files, Single
    <3>2. off[u] \in 1..Chunks /\ (u \in Digested => off[u] = Chunks)
      BY <2>1, <3>1 DEF Single
    <3> QED
      BY <1>1, <2>1, <2>2, <3>1, <3>2, Staging
  <2>8. CASE Rename(u)
    <3>1. /\ pc' = [pc EXCEPT ![u] = "swapped"] /\ exec' = tmp
          /\ UNCHANGED <<data, off>> /\ installed' = u /\ pc[u] = "rename"
      BY <2>1, <2>8 DEF Rename, Goto, Single
    <3>2. \A v \in Upgrades : pc'[v] \notin Working
      BY <1>1, <2>2, <3>1
    <3>3. InstalledIsThere'
      <4>1. /\ data[tmp] = Part(u, off[u]) /\ off[u] \in 1..Chunks
            /\ u \in Digested => off[u] = Chunks
        BY <2>1, <3>1 DEF Single
      <4> QED
        BY <3>1, <4>1 DEF InstalledIsThere
    <3> QED
      BY <3>2, <3>3 DEF Single
  <2> QED
    BY <1>4, <2>3, <2>4, <2>5, <2>6, <2>7, <2>8 DEF Handler
<1> QED
  BY <1>2, <1>3, <1>4, <1>5

LEMMA NextSingle ==
    ASSUME IInv, [Next]_vars
    PROVE  IInv'
<1>1. ImageInv'
  BY NextImage DEF IInv
<1>2. CASE Reboot
  <2>1. ~overlapped' => InstalledIsThere'
    BY <1>2 DEF Reboot, files, IInv, Single, InstalledIsThere
  <2>2. \A u \in Upgrades : pc'[u] \notin Working
    BY <1>2 DEF Reboot, Working
  <2> QED
    BY <1>1, <2>1, <2>2 DEF IInv, Single, Active, Working
<1>3. CASE UNCHANGED vars
  BY <1>1, <1>3 DEF vars, files, IInv, Single, Active, InstalledIsThere
<1> QED
  BY <1>1, <1>2, <1>3, HandlerSingle DEF Next, Restart, Crash, IInv

\* With one upgrade at a time, killed at any point or not, the next boot finds
\* what was swapped in last: all of it where the request had a digest, and some
\* beginning of it where it had none (selfupgrade.go:69, 169).
THEOREM ExecWhole == Spec => []OneAtATimeExecIsWhole
<1>1. Init => IInv
  BY InitTypes, InitImage, InitSingle DEF IInv, ImageInv
<1>2. IInv => OneAtATimeExecIsWhole
  BY DEF IInv, Single, OneAtATimeExecIsWhole
<1> QED
  BY <1>1, <1>2, NextSingle, PTL DEF Spec
=============================================================================
