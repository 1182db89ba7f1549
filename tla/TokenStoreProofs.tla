-------------------------- MODULE TokenStoreProofs --------------------------
(* Proofs about TokenStore, for every set of tokens, with and without        *)
(* crashes and write errors.                                                 *)
EXTENDS TokenStore, FiniteSetTheorems, TLAPS

\* The inductive invariant, for any combination of crashes and write errors:
\* what the files and the hello may hold at each point of the rotation.
THEOREM RotationInvariance == Spec => [](TypeOK /\ RotationInv)
<1>1. Init => TypeOK /\ RotationInv
  BY TokenAssumption DEF Init, TypeOK, RotationInv, Boot, Absent
<1>2. TypeOK /\ RotationInv /\ [Next]_vars => (TypeOK /\ RotationInv)'
  <2> SUFFICES ASSUME TypeOK, RotationInv, [Next]_vars
               PROVE  TypeOK' /\ RotationInv'
    OBVIOUS
  <2> USE TokenAssumption DEF TypeOK, RotationInv, files
  <2>1. CASE SendHello
    BY <2>1 DEF SendHello, ReadToken, Boot, NoToken, Absent, Empty, Part
  <2>2. CASE \E t \in Tokens : WelcomeGrants(t)
    BY <2>2 DEF WelcomeGrants
  <2>3. CASE WelcomePlain
    BY <2>3 DEF WelcomePlain
  <2>4. CASE WelcomeFail
    BY <2>4 DEF WelcomeFail
  <2>5. CASE OpenSession
    BY <2>5 DEF OpenSession
  <2>6. CASE OpenFails
    BY <2>6 DEF OpenFails, HandshakeDone
  <2>7. CASE WriteSession
    BY <2>7 DEF WriteSession, NoToken
  <2>8. CASE WriteFails
    BY <2>8 DEF WriteFails, HandshakeDone
  <2>9. CASE RemoveBootstrap
    BY <2>9 DEF RemoveBootstrap, HandshakeDone
  <2>10. CASE SessionEnds
    BY <2>10 DEF SessionEnds
  <2>11. CASE Crash
    BY <2>11 DEF Crash
  <2>12. CASE UNCHANGED vars
    BY <2>12 DEF vars
  <2>13. QED
    BY <2>1, <2>2, <2>3, <2>4, <2>5, <2>6, <2>7, <2>8, <2>9, <2>10, <2>11,
       <2>12 DEF Next
<1>3. QED
  BY <1>1, <1>2, PTL DEF Spec

\* What readToken and rotateToken keep in the files is always of the kinds the
\* module names.
THEOREM TokenTypes == Spec => []TypeOK
BY RotationInvariance, PTL

\* Whatever fails or is killed, os.Remove of the bootstrap token follows a
\* completed write of a granted session token.
THEOREM BootstrapOutlives == Spec => BootstrapOutlivesRotation
<1>1. TypeOK /\ RotationInv /\ [Next]_vars
      => [boot = Boot /\ boot' = Absent => sess \in issued]_vars
  <2> SUFFICES ASSUME TypeOK, RotationInv, Next, boot = Boot, boot' = Absent
               PROVE  sess \in issued
    OBVIOUS
  <2>1. boot' # boot
    BY DEF Boot, Absent
  <2>2. pc = "remove"
    BY <2>1 DEF Next, SendHello, WelcomeGrants, WelcomePlain, WelcomeFail,
                OpenSession, OpenFails, WriteSession, WriteFails,
                RemoveBootstrap, SessionEnds, Crash, HandshakeDone, files
  <2>3. QED
    BY <2>2 DEF RotationInv
<1>2. QED
  BY <1>1, RotationInvariance, PTL DEF Spec, BootstrapOutlivesRotation

\* Until a write error no part of a token reaches the session file.
NoPart == "write" \notin mishaps => sess # Part /\ offered # Part

LEMMA WholeTokens == Spec => []NoPart
<1> USE DEF NoPart
<1>1. Init => NoPart
  BY DEF Init, Absent, Part, NoToken
<1>2. TypeOK /\ NoPart /\ [Next]_vars => NoPart'
  <2> SUFFICES ASSUME TypeOK, NoPart, [Next]_vars
               PROVE  NoPart'
    OBVIOUS
  <2>1. CASE SendHello
    BY <2>1 DEF SendHello, ReadToken, Boot, Absent, Empty, Part, NoToken, files,
                TypeOK
  <2>2. CASE WriteSession
    BY <2>2, TokenAssumption DEF WriteSession, TypeOK, NoToken, Part
  <2>3. CASE OpenSession \/ Crash
    BY <2>3 DEF OpenSession, Crash, files, Empty, NoToken, Part
  <2>4. CASE OpenFails \/ WriteFails
    BY <2>4 DEF OpenFails, WriteFails
  <2>5. CASE UNCHANGED <<sess, offered, mishaps>>
    BY <2>5
  <2>6. QED
    BY <2>1, <2>2, <2>3, <2>4, <2>5 DEF Next, vars, WelcomeGrants,
       WelcomePlain, WelcomeFail, RemoveBootstrap, SessionEnds, files
<1>3. QED
  BY <1>1, <1>2, RotationInvariance, PTL DEF Spec

\* Killing the process never makes the agent present a part of a token.
THEOREM GenuineHello == Spec => []HelloTokenIsGenuine
<1>1. RotationInv /\ NoPart => HelloTokenIsGenuine
  BY DEF RotationInv, NoPart, HelloTokenIsGenuine
<1>2. QED
  BY <1>1, RotationInvariance, WholeTokens, PTL

\* As long as nothing has gone wrong every hello presents the token of the last
\* handshake that granted one.
THEOREM GrantedTokenUsed == Spec => UsesGrantedToken
<1> DEFINE Stored == \/ latest = NoToken /\ sess = Absent /\ boot = Boot
                     \/ latest = sess /\ sess \in Tokens
           Current == mishaps = {} /\ pc \notin {"remove", "write"} => Stored
<1>1. Init => Current
  BY DEF Init
<1>2. TypeOK /\ RotationInv /\ Current /\ [Next]_vars => Current'
  <2> SUFFICES ASSUME TypeOK, RotationInv, Current, [Next]_vars
               PROVE  Current'
    OBVIOUS
  <2>1. CASE RemoveBootstrap
    BY <2>1 DEF RemoveBootstrap, HandshakeDone, RotationInv, TypeOK
  <2>2. CASE OpenSession \/ WriteSession
    BY <2>2 DEF OpenSession, WriteSession
  <2>3. CASE OpenFails \/ WriteFails \/ Crash
    BY <2>3 DEF OpenFails, WriteFails, Crash
  <2>4. CASE UNCHANGED <<files, latest, mishaps>> /\ pc \notin {"write", "remove"}
    BY <2>4 DEF files
  <2>5. CASE UNCHANGED vars
    BY <2>5 DEF vars, files
  <2>6. QED
    BY <2>1, <2>2, <2>3, <2>4, <2>5 DEF Next, WelcomeGrants, WelcomePlain,
       WelcomeFail, SendHello, SessionEnds
<1>3. TypeOK /\ Current /\ [Next]_vars
      => [mishaps = {} /\ pc = "idle" /\ pc' = "hello" =>
            offered' = IF latest = NoToken THEN Boot ELSE latest]_vars
  <2> SUFFICES ASSUME TypeOK, Current, Next,
                      mishaps = {}, pc = "idle", pc' = "hello"
               PROVE  offered' = IF latest = NoToken THEN Boot ELSE latest
    OBVIOUS
  <2>1. SendHello
    BY DEF Next, WelcomeGrants, WelcomePlain, WelcomeFail, OpenSession,
           OpenFails, WriteSession, WriteFails, RemoveBootstrap, SessionEnds,
           Crash
  <2>2. Stored
    OBVIOUS
  <2>3. QED
    BY <2>1, <2>2, TokenAssumption DEF SendHello, ReadToken, Boot, Absent,
       Empty, Part, NoToken
<1>4. QED
  BY <1>1, <1>2, <1>3, RotationInvariance, PTL DEF Spec, UsesGrantedToken

\* Two tokens have been granted.
Two == \E s, t \in issued : s # t

LEMMA TwoIsTwo == ASSUME TypeOK, Two PROVE Cardinality(issued) >= 2
<1>1. PICK s, t \in issued : s # t
  BY DEF Two
<1>2. IsFiniteSet(issued)
  BY TokenAssumption, FS_Subset DEF TypeOK
<1>3. IsFiniteSet({s}) /\ Cardinality({s}) = 1
  BY FS_Singleton
<1>4. IsFiniteSet({s} \cup {t}) /\ Cardinality({s} \cup {t}) = 2
  BY <1>1, <1>3, FS_AddElement
<1>5. Cardinality({s} \cup {t}) <= Cardinality(issued)
  BY <1>2, FS_Subset
<1>6. Cardinality(issued) \in Nat
  BY <1>2, FS_CardinalityType
<1>7. QED
  BY <1>4, <1>5, <1>6

\* Killing the agent or failing its writes in the midst of the first rotation
\* leaves it a token to say hello with, and a whole one unless it was a write that
\* failed.
THEOREM FirstRotationKeeps == Spec => []FirstRotationKeepsAToken
<1> DEFINE Stored == sess \notin {Absent, Empty} /\ pc \notin {"rotate", "write"}
           Kept == boot = Absent => Two \/ Stored
<1>1. Init => Kept
  BY DEF Init, Boot, Absent
<1>2. TypeOK /\ RotationInv /\ Kept /\ [Next]_vars => Kept'
  <2> SUFFICES ASSUME TypeOK, RotationInv, Kept, [Next]_vars, boot' = Absent
               PROVE  Two' \/ Stored'
    OBVIOUS
  <2>1. CASE \E t \in Tokens : WelcomeGrants(t)
    <3>1. PICK t \in Tokens : WelcomeGrants(t)
      BY <2>1
    <3>2. issued # {} /\ t \notin issued /\ issued' = issued \cup {t}
      BY <3>1 DEF WelcomeGrants, RotationInv, files
    <3>3. Two'
      BY <3>2 DEF Two
    <3>4. QED
      BY <3>3
  <2>2. CASE RemoveBootstrap
    <3>1. sess \in Tokens /\ sess' = sess /\ pc' = "session"
      BY <2>2 DEF RemoveBootstrap, HandshakeDone, RotationInv, TypeOK
    <3>2. QED
      BY <3>1, TokenAssumption
  <2>3. CASE OpenSession \/ WriteSession \/ OpenFails \/ WriteFails
    <3>1. pc \in {"rotate", "write"} /\ boot' = boot /\ issued' = issued
      BY <2>3 DEF OpenSession, WriteSession, OpenFails, WriteFails, files
    <3>2. QED
      BY <3>1 DEF Two
  <2>4. CASE SendHello \/ WelcomePlain \/ WelcomeFail \/ SessionEnds \/ Crash
    <3>1. UNCHANGED <<boot, sess, issued>> /\ pc' \in {"hello", "session", "idle"}
      BY <2>4 DEF SendHello, WelcomePlain, WelcomeFail, SessionEnds, Crash, files
    <3>2. QED
      BY <3>1 DEF Two
  <2>5. CASE UNCHANGED vars
    BY <2>5 DEF vars, files, Two
  <2>6. QED
    BY <2>1, <2>2, <2>3, <2>4, <2>5 DEF Next
<1>3. TypeOK /\ Kept => (Cardinality(issued) <= 1 => ReadToken # NoToken)
  <2> SUFFICES ASSUME TypeOK, Kept, ReadToken = NoToken
               PROVE  ~(Cardinality(issued) <= 1)
    OBVIOUS
  <2>1. boot = Absent /\ sess \in {Absent, Empty}
    BY TokenAssumption DEF ReadToken, TypeOK, Boot, Absent, Empty, Part, NoToken
  <2>2. Cardinality(issued) >= 2
    BY <2>1, TwoIsTwo
  <2>3. Cardinality(issued) \in Nat
    BY TokenAssumption, FS_Subset, FS_CardinalityType DEF TypeOK
  <2>4. QED
    BY <2>2, <2>3
<1>4. TypeOK /\ RotationInv /\ NoPart
      => ("write" \notin mishaps => ReadToken \in {Boot, NoToken} \cup issued)
  BY DEF ReadToken, RotationInv, NoPart, TypeOK
<1>5. TypeOK /\ RotationInv /\ NoPart /\ Kept => FirstRotationKeepsAToken
  BY <1>3, <1>4 DEF FirstRotationKeepsAToken
<1>6. QED
  BY <1>1, <1>2, <1>5, RotationInvariance, WholeTokens, PTL DEF Spec
=============================================================================
