----------------------------- MODULE TokenStore -----------------------------
(* internal/daemon: the two token files of the agent across handshakes and   *)
(* restarts (readToken, sendHello, recvWelcome, rotateToken).  A file holds  *)
(* a whole token, nothing, or a part of one; os.WriteFile empties the file   *)
(* before it writes.  The gateway is external.                               *)
EXTENDS FiniteSets, Naturals

CONSTANT Tokens     \* the session tokens the gateway may grant (bounds the run)

Boot    == "boot"       \* the bootstrap token
Absent  == "absent"     \* the file does not exist
Empty   == "empty"      \* the file exists and is empty
Part    == "part"       \* the file holds a proper prefix of a token
NoToken == "notoken"

ASSUME TokenAssumption ==
    /\ IsFiniteSet(Tokens)
    /\ Tokens \cap {Boot, Absent, Empty, Part, NoToken} = {}

VARIABLES
    boot,       \* content of bootstrapPath
    sess,       \* content of sessionPath
    pc,         \* where runOnce is
    offered,    \* the token of the last hello of this process, or NoToken
    welcome,    \* the session token of the welcome being handled, or NoToken
    issued,     \* the session tokens the gateway has granted so far
    latest,     \* the token of the last completed handshake that granted one
    mishaps     \* what has gone wrong so far (properties only)

files == <<boot, sess>>
vars == <<files, pc, offered, welcome, issued, latest, mishaps>>

\* Mutant: readToken returns the session file's content however short it is.
ReadAnySession ==
    IF sess # Absent THEN sess ELSE IF boot # Absent THEN boot ELSE NoToken

\* readToken: the session file if there is something in it, else the bootstrap
\* file; NoToken is its error.
ReadToken ==
    IF sess \notin {Absent, Empty} THEN sess
    ELSE IF boot # Absent THEN boot
    ELSE NoToken
-----------------------------------------------------------------------------
Init ==
    /\ boot = Boot
    /\ sess = Absent
    /\ pc = "idle"
    /\ offered = NoToken
    /\ welcome = NoToken
    /\ issued = {}
    /\ latest = NoToken
    /\ mishaps = {}

\* A hello goes out; without a token the connection attempt is over.
SendHello ==
    /\ pc = "idle"
    /\ ReadToken # NoToken
    /\ offered' = ReadToken
    /\ pc' = "hello"
    /\ UNCHANGED <<files, welcome, issued, latest, mishaps>>

\* A welcome with a fresh session token; the gateway has granted it from now on.
WelcomeGrants(t) ==
    /\ pc = "hello"
    /\ t \notin issued
    /\ issued' = issued \cup {t}
    /\ welcome' = t
    /\ pc' = "rotate"
    /\ UNCHANGED <<files, offered, latest, mishaps>>

\* A welcome without a session token.
WelcomePlain ==
    /\ pc = "hello"
    /\ pc' = "session"
    /\ UNCHANGED <<files, offered, welcome, issued, latest, mishaps>>

\* The gateway refuses, the answer is lost or malformed: back to the Run loop.
WelcomeFail ==
    /\ pc = "hello"
    /\ pc' = "idle"
    /\ UNCHANGED <<files, offered, welcome, issued, latest, mishaps>>

\* recvWelcome returns nil: the handshake is complete.
HandshakeDone ==
    /\ latest' = welcome
    /\ welcome' = NoToken
    /\ pc' = "session"

\* Mutant: rotateToken gives up the bootstrap token before it has the other.
RemoveThenOpen ==
    /\ pc = "rotate"
    /\ boot' = Absent
    /\ sess' = Empty
    /\ pc' = "write"
    /\ UNCHANGED <<offered, welcome, issued, latest, mishaps>>

\* Mutant: only the first session token is ever stored.
OpenNewSession ==
    /\ pc = "rotate"
    /\ IF sess = Absent
       THEN /\ sess' = Empty
            /\ pc' = "write"
            /\ UNCHANGED <<welcome, latest>>
       ELSE /\ HandshakeDone
            /\ UNCHANGED sess
    /\ UNCHANGED <<boot, offered, issued, mishaps>>

\* os.WriteFile creates or empties the session file.
OpenSession ==
    /\ pc = "rotate"
    /\ sess' = Empty
    /\ pc' = "write"
    /\ UNCHANGED <<boot, offered, welcome, issued, latest, mishaps>>

\* os.WriteFile cannot open the file: the error is logged, the session goes on.
OpenFails ==
    /\ pc = "rotate"
    /\ HandshakeDone
    /\ mishaps' = mishaps \cup {"write"}
    /\ UNCHANGED <<files, offered, issued>>

WriteSession ==
    /\ pc = "write"
    /\ sess' = welcome
    /\ pc' = "remove"
    /\ UNCHANGED <<boot, offered, welcome, issued, latest, mishaps>>

\* A short or refused write: the error is logged, the session goes on.
WriteFails ==
    /\ pc = "write"
    /\ sess' \in {Empty, Part}
    /\ HandshakeDone
    /\ mishaps' = mishaps \cup {"write"}
    /\ UNCHANGED <<boot, offered, issued>>

\* os.Remove of the bootstrap file; its failure is only logged.
RemoveBootstrap ==
    /\ pc = "remove"
    /\ boot' \in {Absent, boot}
    /\ HandshakeDone
    /\ UNCHANGED <<sess, offered, issued, mishaps>>

\* The session is over, runOnce returns and Run will call it again.
SessionEnds ==
    /\ pc = "session"
    /\ pc' = "idle"
    /\ UNCHANGED <<files, offered, welcome, issued, latest, mishaps>>

\* The process is killed and started again: only the files survive.
Crash ==
    /\ pc # "idle"
    /\ pc' = "idle"
    /\ offered' = NoToken
    /\ welcome' = NoToken
    /\ mishaps' = mishaps \cup {"crash"}
    /\ UNCHANGED <<files, issued, latest>>

Next ==
    \/ SendHello
    \/ \E t \in Tokens : WelcomeGrants(t)
    \/ WelcomePlain \/ WelcomeFail
    \/ OpenSession \/ OpenFails
    \/ WriteSession \/ WriteFails
    \/ RemoveBootstrap
    \/ SessionEnds
    \/ Crash

Spec == Init /\ [][Next]_vars
-----------------------------------------------------------------------------
TypeOK ==
    /\ boot \in {Boot, Absent}
    /\ sess \in Tokens \cup {Absent, Empty, Part}
    /\ pc \in {"idle", "hello", "rotate", "write", "remove", "session"}
    /\ offered \in Tokens \cup {Boot, Part, NoToken}
    /\ welcome \in Tokens \cup {NoToken}
    /\ issued \subseteq Tokens
    /\ latest \in Tokens \cup {NoToken}
    /\ mishaps \subseteq {"write", "crash"}

\* The order of rotateToken's two effects: the bootstrap token is given up only
\* when the session file holds a whole token the gateway granted, whatever
\* fails or is killed in between.
BootstrapOutlivesRotation ==
    [][boot = Boot /\ boot' = Absent => sess \in issued]_vars

\* Killing the process, even while the session file is empty, never makes the
\* agent say hello with anything but a token the gateway gave out; only a write
\* error can leave a part of a token behind.
HelloTokenIsGenuine ==
    "write" \notin mishaps => offered \in {NoToken, Boot} \cup issued

\* Until a second token is granted the agent can still say hello, at whatever
\* step of the rotation it is killed or a write fails; and unless a write has
\* failed half-way, with a whole token: the bootstrap token or the granted one.
FirstRotationKeepsAToken ==
    Cardinality(issued) <= 1 =>
        /\ ReadToken # NoToken
        /\ "write" \notin mishaps => ReadToken \in {Boot} \cup issued

\* Without crashes and write errors every hello presents the token of the last
\* handshake that granted one ("and uses from then on", README.md:19).
UsesGrantedToken ==
    [][mishaps = {} /\ pc = "idle" /\ pc' = "hello" =>
        offered' = IF latest = NoToken THEN Boot ELSE latest]_vars

\* The induction behind BootstrapOutlivesRotation and HelloTokenIsGenuine.
RotationInv ==
    /\ pc \in {"rotate", "write", "remove"} => welcome \in issued
    /\ pc = "remove" => sess = welcome
    /\ sess \in issued \cup {Absent, Empty, Part}
    /\ offered \in {NoToken, Boot, Part} \cup issued
    /\ boot = Absent => issued # {}
=============================================================================
