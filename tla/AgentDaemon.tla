----------------------------- MODULE AgentDaemon -----------------------------
(* The daemon of internal/daemon/daemon.go: the reconnect loop (Run,         *)
(* runOnce), the four goroutines of a session (readLoop, writeLoop,          *)
(* heartbeatLoop and the closer), the handler goroutines they spawn, and the *)
(* bounded channel sendCh, which outlives every session.  The gateway and    *)
(* the network are external: they send frames, close, break and stall.       *)
(*                                                                           *)
(* Data is abstracted to identities: a frame is a request, a notification or *)
(* something else (a response nobody waits for, or bytes that are no frame), *)
(* a response is the request it answers, a heartbeat is Heartbeat.           *)
EXTENDS Naturals, Sequences

CONSTANTS
    Requests,       \* ids of the requests the gateway may send (frame.ID and Method)
    Notifications,  \* frames with a method and no id
    Others,         \* frames the reader skips: stray responses, invalid JSON
    SendCap,        \* capacity of sendCh (64 in New)
    MaxBackoff      \* cap of the reconnect wait in seconds (60 in Run)

Calls == Requests \cup Notifications
Frames == Calls \cup Others

Heartbeat == "heartbeat"    \* the message heartbeatLoop queues
Close     == "close"        \* the peer's close frame, normal or going away
NoMsg     == "nomsg"        \* the writer holds no message

ASSUME DaemonAssumption ==
    /\ SendCap \in Nat \ {0}
    /\ MaxBackoff \in Nat \ {0}
    /\ {Heartbeat, Close, NoMsg} \cap Frames = {}
    /\ Requests \cap Notifications = {}
    /\ Calls \cap Others = {}

VARIABLES
    shutdown,   \* d.ctx is cancelled
    run,        \* where Run and runOnce are
    backoff,    \* the wait before the next dial, in seconds
    link,       \* d.conn: nil, up, down (broken, not yet noticed) or closed by us
    closeSent,  \* a close frame was written: every later write fails
    gerr,       \* the session's errgroup holds an error, so its context is done
    reader,     \* readLoop: check (ctx.Err), read (ReadMessage), done
    writer,     \* writeLoop: select, write, done
    beat,       \* heartbeatLoop: tick, done
    closer,     \* the goroutine that closes the connection: wait, done
    sendCh,     \* the channel's contents
    hand,       \* the message writeLoop took out of sendCh, or NoMsg
    sent,       \* frames the gateway has sent so far (ids are not reused)
    incoming,   \* what the reader has yet to read of this connection
    handler,    \* [Calls -> {"none", "running", "done"}]: the spawned goroutine
    wire,       \* responses written to a connection that is still up
    stale,      \* responses written to a connection that no longer is
    fate        \* how each response ended: none, delivered, dropped or lost

sessionVars == <<reader, writer, beat, closer>>
linkVars    == <<link, closeSent, gerr>>
superVars   == <<shutdown, run, backoff>>
msgVars     == <<sendCh, hand, wire, stale, fate>>
callVars    == <<sent, incoming, handler>>
vars == <<superVars, linkVars, sessionVars, msgVars, callVars>>
-----------------------------------------------------------------------------
(* Helpers.                                                                  *)

\* gctx.Done: the group's context ends with its first error or with d.ctx.
GroupDone == gerr \/ shutdown

\* x occurs in sequence s; x occurs at most once in s.
InSeq(s, x) == \E i \in 1..Len(s) : s[i] = x
Once(s, x)  == \A i, j \in 1..Len(s) : s[i] = x /\ s[j] = x => i = j

Queued(r) == InSeq(sendCh, r)

AllExited == /\ reader = "done"
             /\ writer = "done"
             /\ beat = "done"
             /\ closer = "done"

\* A loop that is told to stop returns ctx.Err(), an error for the group.
StopError == TRUE

\* Run's reaction to an error of runOnce: give up when shutting down, else wait.
AfterError == IF shutdown THEN "returned" ELSE "backoff"

NextBackoff == IF backoff * 2 < MaxBackoff THEN backoff * 2 ELSE MaxBackoff

\* sendCh <- msg without blocking: FALSE means the default branch, a drop.
HasRoom == Len(sendCh) < SendCap

\* The gateway can still send on this connection.
PeerOpen == /\ run = "serve"
            /\ link = "up"
            /\ ~closeSent
            /\ ~InSeq(incoming, Close)

\* The connection stops being up: what is in flight on it may or may not arrive.
Strand == /\ stale' = stale \cup wire
          /\ wire' = {}

\* The outcome of a message the writer cannot put on the wire.
LoseHand == IF hand \in Requests THEN [fate EXCEPT ![hand] = "lost"] ELSE fate
-----------------------------------------------------------------------------
(* New.                                                                      *)

Init ==
    /\ shutdown = FALSE
    /\ run = "loop"
    /\ backoff = 1
    /\ link = "nil"
    /\ closeSent = FALSE
    /\ gerr = FALSE
    /\ reader = "done" /\ writer = "done" /\ beat = "done" /\ closer = "done"
    /\ sendCh = <<>>
    /\ hand = NoMsg
    /\ sent = {}
    /\ incoming = <<>>
    /\ handler = [f \in Calls |-> "none"]
    /\ wire = {} /\ stale = {}
    /\ fate = [r \in Requests |-> "none"]
-----------------------------------------------------------------------------
(* Run and runOnce.                                                          *)

\* SIGINT or SIGTERM: Daemon.Shutdown cancels d.ctx.
Shutdown ==
    /\ ~shutdown
    /\ run # "returned"
    /\ shutdown' = TRUE
    /\ UNCHANGED <<run, backoff, linkVars, sessionVars, msgVars, callVars>>

\* for d.ctx.Err() == nil
LoopCheck ==
    /\ run = "loop"
    /\ run' = IF shutdown THEN "returned" ELSE "dial"
    /\ UNCHANGED <<shutdown, backoff, linkVars, sessionVars, msgVars, callVars>>

\* The dial succeeded: d.conn is set.  (It may win against a late Shutdown.)
DialOk ==
    /\ run = "dial"
    /\ run' = "hello"
    /\ link' = "up"
    /\ UNCHANGED <<shutdown, backoff, closeSent, gerr, sessionVars, msgVars, callVars>>

DialFail ==
    /\ run = "dial"
    /\ run' = AfterError
    /\ UNCHANGED <<shutdown, backoff, linkVars, sessionVars, msgVars, callVars>>

\* sendHello: the write may also be accepted by a connection already broken.
HelloOk ==
    /\ run = "hello"
    /\ run' = "welcome"
    /\ UNCHANGED <<shutdown, backoff, linkVars, sessionVars, msgVars, callVars>>

\* recvWelcome accepted the welcome; runOnce starts the group.
WelcomeOk ==
    /\ run = "welcome"
    /\ run' = "serve"
    /\ reader' = "check" /\ writer' = "select" /\ beat' = "tick" /\ closer' = "wait"
    /\ UNCHANGED <<shutdown, backoff, linkVars, msgVars, callVars>>

\* sendHello fails (no token, write error) or recvWelcome does (deadline, error
\* reply, bad frame, closed): the deferred function closes the connection.
HandshakeFail ==
    /\ run \in {"hello", "welcome"}
    /\ run' = AfterError
    /\ link' = "nil"
    /\ UNCHANGED <<shutdown, backoff, closeSent, gerr, sessionVars, msgVars, callVars>>

\* g.Wait returned: close, d.conn = nil, and Run looks at the group's error.
Join ==
    /\ run = "serve"
    /\ AllExited
    /\ run' = IF gerr THEN AfterError ELSE "loop"
    /\ backoff' = IF gerr THEN backoff ELSE 1
    /\ link' = "nil"
    /\ closeSent' = FALSE
    /\ gerr' = FALSE
    /\ incoming' = <<>>
    /\ UNCHANGED <<shutdown, sessionVars, msgVars, sent, handler>>

BackoffElapse ==
    /\ run = "backoff"
    /\ run' = "loop"
    /\ backoff' = NextBackoff
    /\ UNCHANGED <<shutdown, linkVars, sessionVars, msgVars, callVars>>

BackoffAbort ==
    /\ run = "backoff"
    /\ shutdown
    /\ run' = "returned"
    /\ UNCHANGED <<shutdown, backoff, linkVars, sessionVars, msgVars, callVars>>
-----------------------------------------------------------------------------
(* readLoop.                                                                 *)

ReaderCheck ==
    /\ reader = "check"
    /\ reader' = IF GroupDone THEN "done" ELSE "read"
    /\ gerr' = IF GroupDone THEN StopError ELSE gerr
    /\ UNCHANGED <<superVars, link, closeSent, writer, beat, closer, msgVars, callVars>>

\* Mutant: the request is acknowledged when it is read.
ReaderFrameAcks ==
    /\ reader = "read"
    /\ incoming # <<>>
    /\ Head(incoming) # Close
    /\ incoming' = Tail(incoming)
    /\ handler' = IF Head(incoming) \in Calls
                  THEN [handler EXCEPT ![Head(incoming)] = "running"]
                  ELSE handler
    /\ sendCh' = IF Head(incoming) \in Requests /\ HasRoom
                 THEN Append(sendCh, Head(incoming)) ELSE sendCh
    /\ reader' = "check"
    /\ UNCHANGED <<superVars, linkVars, writer, beat, closer, hand, wire, stale, fate, sent>>

\* A data frame.  Frames already buffered can be read after the link is gone.
\* A request or notification gets its own goroutine; pending is never filled,
\* so a response is dropped, as is a frame that does not parse.
ReaderFrame ==
    /\ reader = "read"
    /\ incoming # <<>>
    /\ Head(incoming) # Close
    /\ incoming' = Tail(incoming)
    /\ handler' = IF Head(incoming) \in Calls
                  THEN [handler EXCEPT ![Head(incoming)] = "running"]
                  ELSE handler
    /\ reader' = "check"
    /\ UNCHANGED <<superVars, linkVars, writer, beat, closer, msgVars, sent>>

\* The peer closed normally: the library answers with a close frame, after
\* which writes fail, and readLoop returns nil, which cancels nothing.
ReaderClose ==
    /\ reader = "read"
    /\ incoming # <<>>
    /\ Head(incoming) = Close
    /\ incoming' = Tail(incoming)
    /\ closeSent' = TRUE
    /\ reader' = "done"
    /\ UNCHANGED <<superVars, link, gerr, writer, beat, closer, msgVars, sent, handler>>

ReaderFail ==
    /\ reader = "read"
    /\ link # "up"
    /\ reader' = "done"
    /\ gerr' = TRUE
    /\ UNCHANGED <<superVars, link, closeSent, writer, beat, closer, msgVars, callVars>>
-----------------------------------------------------------------------------
(* writeLoop.                                                                *)

WriterStop ==
    /\ writer = "select"
    /\ GroupDone
    /\ writer' = "done"
    /\ gerr' = StopError
    /\ UNCHANGED <<superVars, link, closeSent, reader, beat, closer, msgVars, callVars>>

\* Mutant: the message stays in the channel until it has been written.
WriterPeek ==
    /\ writer = "select"
    /\ sendCh # <<>>
    /\ hand' = Head(sendCh)
    /\ writer' = "write"
    /\ UNCHANGED <<superVars, linkVars, reader, beat, closer, sendCh, wire, stale, fate, callVars>>

\* The other branch of the select; Go picks at random when both are ready.
WriterTake ==
    /\ writer = "select"
    /\ sendCh # <<>>
    /\ hand' = Head(sendCh)
    /\ sendCh' = Tail(sendCh)
    /\ writer' = "write"
    /\ UNCHANGED <<superVars, linkVars, reader, beat, closer, wire, stale, fate, callVars>>

\* WriteMessage succeeded; on a broken link that only means it was buffered.
WriterSend ==
    /\ writer = "write"
    /\ ~closeSent
    /\ link \in {"up", "down"}
    /\ wire' = IF hand \in Requests /\ link = "up" THEN wire \cup {hand} ELSE wire
    /\ stale' = IF hand \in Requests /\ link = "down" THEN stale \cup {hand} ELSE stale
    /\ hand' = NoMsg
    /\ writer' = "select"
    /\ UNCHANGED <<superVars, linkVars, reader, beat, closer, sendCh, fate, callVars>>

\* WriteMessage failed: a close frame was sent, the link is gone, or a stalled
\* peer let the ten second deadline pass.  The message is not put back.
WriterFail ==
    /\ writer = "write"
    /\ fate' = LoseHand
    /\ hand' = NoMsg
    /\ writer' = "done"
    /\ gerr' = TRUE
    /\ UNCHANGED <<superVars, link, closeSent, reader, beat, closer, sendCh, wire, stale,
                   callVars>>
-----------------------------------------------------------------------------
(* heartbeatLoop and the closer.                                             *)

\* Mutant: the heartbeat bypasses the channel.
BeatTickQuiet ==
    /\ beat = "tick"
    /\ UNCHANGED vars

BeatTick ==
    /\ beat = "tick"
    /\ sendCh' = IF HasRoom THEN Append(sendCh, Heartbeat) ELSE sendCh
    /\ UNCHANGED <<superVars, linkVars, sessionVars, hand, wire, stale, fate, callVars>>

BeatStop ==
    /\ beat = "tick"
    /\ GroupDone
    /\ beat' = "done"
    /\ gerr' = StopError
    /\ UNCHANGED <<superVars, link, closeSent, reader, writer, closer, msgVars, callVars>>

\* Mutant: the closer only says goodbye and leaves the connection open.
CloserSaysGoodbye ==
    /\ closer = "wait"
    /\ GroupDone
    /\ closer' = "done"
    /\ closeSent' = TRUE
    /\ UNCHANGED <<superVars, link, gerr, reader, writer, beat, msgVars, callVars>>

CloserClose ==
    /\ closer = "wait"
    /\ GroupDone
    /\ closer' = "done"
    /\ closeSent' = TRUE
    /\ link' = "closed"
    /\ Strand
    /\ UNCHANGED <<superVars, gerr, reader, writer, beat, sendCh, hand, fate, callVars>>
-----------------------------------------------------------------------------
(* Handler goroutines: they belong to no session and end with the process.   *)

\* Mutant: no response once the session that asked is over.
RespondUnlessCancelled(r) ==
    /\ handler[r] = "running"
    /\ run # "returned"
    /\ handler' = [handler EXCEPT ![r] = "done"]
    /\ sendCh' = IF HasRoom /\ ~GroupDone /\ run = "serve" THEN Append(sendCh, r) ELSE sendCh
    /\ fate' = IF HasRoom THEN fate ELSE [fate EXCEPT ![r] = "dropped"]
    /\ UNCHANGED <<superVars, linkVars, sessionVars, hand, wire, stale, sent, incoming>>

\* handleRequest: run the handler (or find none) and sendResponse.
Respond(r) ==
    /\ handler[r] = "running"
    /\ run # "returned"
    /\ handler' = [handler EXCEPT ![r] = "done"]
    /\ sendCh' = IF HasRoom THEN Append(sendCh, r) ELSE sendCh
    /\ fate' = IF HasRoom THEN fate ELSE [fate EXCEPT ![r] = "dropped"]
    /\ UNCHANGED <<superVars, linkVars, sessionVars, hand, wire, stale, sent, incoming>>

\* handleNotification: no response.
FinishNotification(n) ==
    /\ handler[n] = "running"
    /\ run # "returned"
    /\ handler' = [handler EXCEPT ![n] = "done"]
    /\ UNCHANGED <<superVars, linkVars, sessionVars, msgVars, sent, incoming>>
-----------------------------------------------------------------------------
(* The gateway and the network (external).                                   *)

GatewaySend(f) ==
    /\ PeerOpen
    /\ f \notin sent
    /\ sent' = sent \cup {f}
    /\ incoming' = Append(incoming, f)
    /\ UNCHANGED <<superVars, linkVars, sessionVars, msgVars, handler>>

GatewayClose ==
    /\ PeerOpen
    /\ incoming' = Append(incoming, Close)
    /\ UNCHANGED <<superVars, linkVars, sessionVars, msgVars, sent, handler>>

\* Reset, timeout, abnormal close code: the next use of the link fails.
LinkBreaks ==
    /\ link = "up"
    /\ link' = "down"
    /\ Strand
    /\ UNCHANGED <<superVars, closeSent, gerr, sessionVars, sendCh, hand, fate, callVars>>

Deliver(r) ==
    /\ r \in wire \cup stale
    /\ wire' = wire \ {r}
    /\ stale' = stale \ {r}
    /\ fate' = [fate EXCEPT ![r] = "delivered"]
    /\ UNCHANGED <<superVars, linkVars, sessionVars, sendCh, hand, callVars>>

Vanish(r) ==
    /\ r \in stale
    /\ stale' = stale \ {r}
    /\ fate' = [fate EXCEPT ![r] = "lost"]
    /\ UNCHANGED <<superVars, linkVars, sessionVars, sendCh, hand, wire, callVars>>
-----------------------------------------------------------------------------
Supervise == \/ LoopCheck \/ DialOk \/ DialFail \/ HelloOk \/ WelcomeOk
             \/ HandshakeFail \/ Join \/ BackoffElapse \/ BackoffAbort
Reader == ReaderCheck \/ ReaderFrame \/ ReaderClose \/ ReaderFail
Writer == WriterStop \/ WriterTake \/ WriterSend \/ WriterFail

Next ==
    \/ Shutdown
    \/ Supervise
    \/ Reader
    \/ Writer
    \/ BeatTick
    \/ BeatStop
    \/ CloserClose
    \/ \E r \in Requests : Respond(r) \/ Deliver(r) \/ Vanish(r)
    \/ \E n \in Notifications : FinishNotification(n)
    \/ \E f \in Frames : GatewaySend(f)
    \/ GatewayClose
    \/ LinkBreaks

Spec == Init /\ [][Next]_vars

\* Goroutines are scheduled, timers fire, dials, writes and reads end (each has
\* a deadline or fails once the link is gone), and a connection that stays up
\* delivers.  Nothing is assumed of handlers, the gateway or the operator.
Fairness ==
    /\ WF_vars(Supervise)
    /\ WF_vars(Reader)
    /\ WF_vars(Writer)
    /\ WF_vars(BeatTick)
    /\ WF_vars(BeatStop)
    /\ WF_vars(CloserClose)
    /\ \A r \in Requests : WF_vars(Deliver(r))

FairSpec == Spec /\ Fairness
-----------------------------------------------------------------------------
(* Properties.                                                               *)

TypeOK ==
    /\ shutdown \in BOOLEAN
    /\ run \in {"loop", "dial", "hello", "welcome", "serve", "backoff", "returned"}
    /\ backoff \in 1..MaxBackoff
    /\ link \in {"nil", "up", "down", "closed"}
    /\ closeSent \in BOOLEAN
    /\ gerr \in BOOLEAN
    /\ reader \in {"check", "read", "done"}
    /\ writer \in {"select", "write", "done"}
    /\ beat \in {"tick", "done"}
    /\ closer \in {"wait", "done"}
    /\ sendCh \in Seq(Requests \cup {Heartbeat})
    /\ Len(sendCh) <= SendCap
    /\ hand \in Requests \cup {Heartbeat, NoMsg}
    /\ sent \subseteq Frames
    /\ incoming \in Seq(Frames \cup {Close})
    /\ handler \in [Calls -> {"none", "running", "done"}]
    /\ wire \subseteq Requests
    /\ stale \subseteq Requests
    /\ fate \in [Requests -> {"none", "delivered", "dropped", "lost"}]

\* The places where the response to r can be.
Places(r) == {p \in {"queue", "hand", "wire", "stale", "fate"} :
                \/ p = "queue" /\ Queued(r)
                \/ p = "hand"  /\ hand = r
                \/ p = "wire"  /\ r \in wire
                \/ p = "stale" /\ r \in stale
                \/ p = "fate"  /\ fate[r] # "none"}

\* Across reconnects, concurrent handlers and failed writes a response is never
\* duplicated and never vanishes unaccounted for: once its handler is done it is
\* in exactly one place, once in the queue if there, and before that nowhere.
ResponseInOnePlace ==
    \A r \in Requests :
        /\ handler[r] # "done" => Places(r) = {}
        /\ handler[r] = "done" => \E p \in Places(r) : Places(r) = {p}
        /\ Once(sendCh, r)

\* g.Wait never returns nil, whichever goroutine ends the session and however
\* the peer closed it: Run's "err == nil" branch, which was to reset the backoff
\* after a session that worked, is dead code.
SessionEndsWithError == run = "serve" /\ AllExited => gerr

\* The inductive invariant behind the properties above.  The writer holds a
\* message exactly while it writes, and its exit leaves an error; frames yet to be
\* read are distinct, sent, and not dispatched; places exclude each other.
HandInv == hand # NoMsg <=> writer = "write"

ExitInv == /\ run # "serve" => AllExited
           /\ run = "serve" /\ writer = "done" => gerr

IncomingInv ==
    /\ \A f \in Frames : Once(incoming, f) /\ (InSeq(incoming, f) => f \in sent)
    /\ \A f \in Calls : handler[f] # "none" => f \in sent /\ ~InSeq(incoming, f)

InFlight(r) == r \in wire \/ r \in stale

OnePlace(r) ==
    /\ Once(sendCh, r)
    /\ handler[r] = "done" <=> Queued(r) \/ hand = r \/ InFlight(r) \/ fate[r] # "none"
    /\ Queued(r) => hand # r /\ ~InFlight(r) /\ fate[r] = "none"
    /\ hand = r => ~InFlight(r) /\ fate[r] = "none"
    /\ InFlight(r) => fate[r] = "none"
    /\ ~(r \in wire /\ r \in stale)

PlaceInv == \A r \in Requests : OnePlace(r)

IInv == TypeOK /\ HandInv /\ ExitInv /\ IncomingInv /\ PlaceInv

\* A response leaves sendCh only into the writer's hand: no teardown, dial or
\* handshake throws away what handlers queued for the next session.
QueueSurvivesReconnect ==
    [][\A r \in Requests : Queued(r) /\ ~Queued(r)' => hand' = r]_vars

\* What the caller sees refines RpcPromise.
CallOf(r) == IF fate[r] = "delivered" THEN "answered"
             ELSE IF fate[r] # "none" THEN "unanswered"
             ELSE IF handler[r] = "done" THEN "executed"
             ELSE IF handler[r] = "running" THEN "accepted"
             ELSE "unread"

Promise == INSTANCE RpcPromise WITH call <- [r \in Requests |-> CallOf(r)]

\* Through any sequence of drops and reconnects a request is executed at most
\* once, answered only after its handler finished, and answered at most once.
KeepsPromise == Promise!PromiseSpec

\* A session whose reader has exited ends: even after the peer's clean close,
\* when nothing is cancelled, the next heartbeat's failed write tears it down.
ReaderExitEndsSession == run = "serve" /\ reader = "done" ~> run # "serve"

\* SIGTERM always ends Run, wherever the daemon is: blocked in a read, in the
\* handshake, or waiting out a backoff.
ShutdownTerminates == shutdown ~> run = "returned"

\* While a session stays up for good, every response its handlers have produced
\* is decided: delivered, or dropped because the channel was full.
SteadySessionDrains ==
    <>[](run = "serve" /\ link = "up" /\ ~closeSent /\ writer # "done") =>
        \A r \in Requests : handler[r] = "done" ~> fate[r] # "none"
=============================================================================
