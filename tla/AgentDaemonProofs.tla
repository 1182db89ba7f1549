-------------------------- MODULE AgentDaemonProofs --------------------------
(* Proofs about AgentDaemon, for every set of requests and notifications,    *)
(* every channel capacity and every backoff cap.                             *)
EXTENDS AgentDaemon, TLAPS
-----------------------------------------------------------------------------
(* Sequences as channels.                                                    *)

\* What Append does to occurrence: Append(s, m) holds what s holds, and m.
LEMMA AppendInSeq ==
    ASSUME NEW S, NEW s \in Seq(S), NEW m \in S, NEW x
    PROVE  InSeq(Append(s, m), x) <=> InSeq(s, x) \/ x = m
<1> DEFINE t == Append(s, m)
<1>1. /\ Len(t) = Len(s) + 1 /\ Len(s) \in Nat
      /\ t[Len(s) + 1] = m
      /\ \A i \in 1..Len(s) : t[i] = s[i]
  OBVIOUS
<1> QED BY <1>1 DEF InSeq

\* Taking the head: s holds its head and what its tail holds.
LEMMA TailInSeq ==
    ASSUME NEW S, NEW s \in Seq(S), s # <<>>, NEW x
    PROVE  InSeq(s, x) <=> x = Head(s) \/ InSeq(Tail(s), x)
<1> DEFINE t == Tail(s)
<1>1. /\ Len(s) \in Nat \ {0} /\ Len(t) = Len(s) - 1
      /\ s[1] = Head(s)
      /\ \A i \in 1..Len(t) : t[i] = s[i + 1]
  OBVIOUS
<1>2. ASSUME NEW i \in 1..Len(s), s[i] = x PROVE x = Head(s) \/ InSeq(t, x)
  <2>1. CASE i = 1 BY <2>1, <1>1, <1>2
  <2>2. CASE i # 1
    <3>1. i - 1 \in 1..Len(t) /\ t[i - 1] = x BY <2>2, <1>1, <1>2
    <3> QED BY <3>1 DEF InSeq
  <2> QED BY <2>1, <2>2
<1>3. ASSUME InSeq(t, x) PROVE InSeq(s, x)
  <2>1. PICK i \in 1..Len(t) : t[i] = x BY <1>3 DEF InSeq
  <2>2. i + 1 \in 1..Len(s) /\ s[i + 1] = x BY <2>1, <1>1
  <2> QED BY <2>2 DEF InSeq
<1>4. ASSUME x = Head(s) PROVE InSeq(s, x)
  <2>1. 1 \in 1..Len(s) /\ s[1] = x BY <1>1, <1>4
  <2> QED BY <2>1 DEF InSeq
<1> QED BY <1>2, <1>3, <1>4 DEF InSeq

\* Appending something new keeps every element unique.
LEMMA AppendOnce ==
    ASSUME NEW S, NEW s \in Seq(S), NEW m \in S, NEW x,
           Once(s, x), x # m \/ ~InSeq(s, x)
    PROVE  Once(Append(s, m), x)
<1> DEFINE t == Append(s, m)
<1>1. /\ Len(t) = Len(s) + 1 /\ Len(s) \in Nat
      /\ t[Len(s) + 1] = m
      /\ \A i \in 1..Len(s) : t[i] = s[i]
  OBVIOUS
<1> SUFFICES ASSUME NEW i \in 1..Len(t), NEW j \in 1..Len(t), t[i] = x, t[j] = x
             PROVE  i = j
  BY DEF Once
<1>2. CASE x # m
  <2>1. i \in 1..Len(s) /\ j \in 1..Len(s) BY <1>1, <1>2
  <2> QED BY <2>1, <1>1 DEF Once
<1>3. CASE ~InSeq(s, x)
  <2>1. i \notin 1..Len(s) /\ j \notin 1..Len(s) BY <1>1, <1>3 DEF InSeq
  <2> QED BY <2>1, <1>1
<1> QED BY <1>2, <1>3

\* Taking the head keeps every element unique and takes the head for good.
LEMMA TailOnce ==
    ASSUME NEW S, NEW s \in Seq(S), s # <<>>, NEW x, Once(s, x)
    PROVE  /\ Once(Tail(s), x)
           /\ x = Head(s) => ~InSeq(Tail(s), x)
<1> DEFINE t == Tail(s)
<1>1. /\ Len(s) \in Nat \ {0} /\ Len(t) = Len(s) - 1
      /\ s[1] = Head(s)
      /\ \A i \in 1..Len(t) : t[i] = s[i + 1]
  OBVIOUS
<1>2. ASSUME NEW i \in 1..Len(t), NEW j \in 1..Len(t), t[i] = x, t[j] = x PROVE i = j
  <2>1. /\ i + 1 \in 1..Len(s) /\ j + 1 \in 1..Len(s)
        /\ s[i + 1] = x /\ s[j + 1] = x
    BY <1>1, <1>2
  <2>2. i + 1 = j + 1 BY <2>1 DEF Once
  <2> QED BY <2>2
<1>3. ASSUME x = Head(s), NEW i \in 1..Len(t), t[i] = x PROVE FALSE
  <2>1. /\ i + 1 \in 1..Len(s) /\ 1 \in 1..Len(s)
        /\ s[i + 1] = x /\ s[1] = x
    BY <1>1, <1>3
  <2>2. i + 1 = 1 BY <2>1 DEF Once
  <2> QED BY <2>2
<1> QED BY <1>2, <1>3 DEF Once, InSeq
-----------------------------------------------------------------------------
(* The inductive invariant.                                                  *)

\* The empty channel.
LEMMA EmptyChannel == Len(<<>>) = 0 /\ \A S : <<>> \in Seq(S)
OBVIOUS

\* The markers are not ids of requests or other frames.
LEMMA NoMsgIsNoRequest ==
    \A f \in Frames : f # NoMsg /\ f # Heartbeat /\ f # Close
BY DaemonAssumption

LEMMA InitIInv == Init => IInv
<1> SUFFICES ASSUME Init PROVE IInv
  OBVIOUS
<1> USE DaemonAssumption
<1>1. TypeOK
  <2>1. sendCh \in Seq(Requests \cup {Heartbeat}) /\ Len(sendCh) <= SendCap
    BY EmptyChannel DEF Init
  <2>2. incoming \in Seq(Frames \cup {Close})
    BY EmptyChannel DEF Init
  <2>3. shutdown \in BOOLEAN /\ closeSent \in BOOLEAN /\ gerr \in BOOLEAN
    BY DEF Init
  <2>4. /\ backoff \in 1..MaxBackoff
        /\ hand \in Requests \cup {Heartbeat, NoMsg}
        /\ sent \subseteq Frames /\ wire \subseteq Requests /\ stale \subseteq Requests
        /\ handler \in [Calls -> {"none", "running", "done"}]
        /\ fate \in [Requests -> {"none", "delivered", "dropped", "lost"}]
    BY DEF Init
  <2> QED BY <2>1, <2>2, <2>3, <2>4 DEF Init, TypeOK, AllExited
<1>2. HandInv /\ ExitInv
  BY DEF Init, HandInv, ExitInv, AllExited
<1>3. IncomingInv
  BY EmptyChannel DEF Init, IncomingInv, InSeq, Once
<1>4. PlaceInv
  <2> SUFFICES ASSUME NEW r \in Requests
               PROVE  /\ Once(sendCh, r) /\ ~Queued(r) /\ hand # r /\ ~InFlight(r)
                      /\ fate[r] = "none" /\ handler[r] # "done"
    BY DEF PlaceInv, OnePlace, InFlight
  <2>1. Once(sendCh, r) /\ ~Queued(r)
    BY EmptyChannel DEF Init, InSeq, Once, Queued
  <2>2. hand # r /\ ~InFlight(r) /\ fate[r] = "none"
    BY NoMsgIsNoRequest DEF Init, InFlight, Frames, Calls
  <2>3. handler[r] # "done"
    BY DEF Init, Calls
  <2> QED BY <2>1, <2>2, <2>3
<1> QED BY <1>1, <1>2, <1>3, <1>4 DEF IInv

\* Every step keeps the types.
LEMMA TypeStep == TypeOK /\ [Next]_vars => TypeOK'
<1> SUFFICES ASSUME TypeOK, [Next]_vars PROVE TypeOK'
  OBVIOUS
<1> USE DaemonAssumption, EmptyChannel
    DEF TypeOK, vars, superVars, linkVars, sessionVars, msgVars, callVars
<1>1. CASE Shutdown
  BY <1>1 DEF Shutdown
<1>2. CASE LoopCheck
  BY <1>2 DEF LoopCheck
<1>3. CASE DialOk
  BY <1>3 DEF DialOk
<1>4. CASE DialFail
  BY <1>4 DEF DialFail, AfterError
<1>5. CASE HelloOk
  BY <1>5 DEF HelloOk
<1>6. CASE WelcomeOk
  BY <1>6 DEF WelcomeOk
<1>7. CASE HandshakeFail
  BY <1>7 DEF HandshakeFail, AfterError
<1>8. CASE Join
  <2>1. backoff' \in 1..MaxBackoff /\ run' \in {"loop", "returned", "backoff"}
    BY <1>8 DEF Join, AfterError
  <2>2. incoming' \in Seq(Frames \cup {Close})
    BY <1>8 DEF Join
  <2> QED BY <1>8, <2>1, <2>2 DEF Join
<1>9. CASE BackoffElapse
  BY <1>9 DEF BackoffElapse, NextBackoff
<1>10. CASE BackoffAbort
  BY <1>10 DEF BackoffAbort
<1>11. CASE ReaderCheck
  <2>1. gerr' \in BOOLEAN
    <3>1. CASE GroupDone
      BY <1>11, <3>1 DEF ReaderCheck, StopError
    <3>2. CASE ~GroupDone
      BY <1>11, <3>2 DEF ReaderCheck
    <3> QED BY <3>1, <3>2
  <2>2. reader' \in {"check", "read", "done"}
    BY <1>11 DEF ReaderCheck
  <2> QED BY <1>11, <2>1, <2>2 DEF ReaderCheck
<1>12. CASE ReaderFrame
  BY <1>12 DEF ReaderFrame, Calls, Frames
<1>13. CASE ReaderClose
  BY <1>13 DEF ReaderClose
<1>14. CASE ReaderFail
  BY <1>14 DEF ReaderFail
<1>15. CASE WriterStop
  BY <1>15 DEF WriterStop, GroupDone, StopError
<1>16. CASE WriterTake
  BY <1>16 DEF WriterTake
<1>17. CASE WriterSend
  BY <1>17 DEF WriterSend
<1>18. CASE WriterFail
  BY <1>18 DEF WriterFail, LoseHand
<1>19. CASE BeatTick
  BY <1>19 DEF BeatTick, HasRoom
<1>20. CASE BeatStop
  BY <1>20 DEF BeatStop, GroupDone, StopError
<1>21. CASE CloserClose
  BY <1>21 DEF CloserClose, GroupDone, Strand
<1>22. CASE GatewayClose
  BY <1>22 DEF GatewayClose, Strand
<1>23. CASE LinkBreaks
  BY <1>23 DEF LinkBreaks, Strand
<1>24. CASE \E r \in Requests : Respond(r)
  BY <1>24 DEF Respond, HasRoom, Calls
<1>25. CASE \E r \in Requests : Deliver(r)
  BY <1>25 DEF Deliver, HasRoom, Calls
<1>26. CASE \E r \in Requests : Vanish(r)
  BY <1>26 DEF Vanish, HasRoom, Calls
<1>27. CASE \E m \in Notifications : FinishNotification(m)
  BY <1>27 DEF FinishNotification, Calls
<1>28. CASE \E f \in Frames : GatewaySend(f)
  BY <1>28 DEF GatewaySend
<1>29. CASE UNCHANGED vars
  BY <1>29
<1> QED
  BY <1>1, <1>2, <1>3, <1>4, <1>5, <1>6, <1>7, <1>8, <1>9, <1>10, <1>11, <1>12, <1>13, <1>14, <1>15, <1>16, <1>17, <1>18, <1>19, <1>20, <1>21, <1>22, <1>23, <1>24, <1>25, <1>26, <1>27, <1>28, <1>29
     DEF Next, Supervise, Reader, Writer

\* Every step keeps the writer's hand and the session's end in order.
LEMMA SessionStep == TypeOK /\ HandInv /\ ExitInv /\ [Next]_vars => HandInv' /\ ExitInv'
<1> SUFFICES ASSUME TypeOK, HandInv, ExitInv, [Next]_vars PROVE HandInv' /\ ExitInv'
  OBVIOUS
<1> USE NoMsgIsNoRequest
    DEF HandInv, ExitInv, AllExited, vars, superVars, linkVars, sessionVars, msgVars, callVars
<1>1. CASE Shutdown
  BY <1>1 DEF Shutdown
<1>2. CASE LoopCheck
  BY <1>2 DEF LoopCheck
<1>3. CASE DialOk
  BY <1>3 DEF DialOk
<1>4. CASE DialFail
  BY <1>4 DEF DialFail, AfterError
<1>5. CASE HelloOk
  BY <1>5 DEF HelloOk
<1>6. CASE WelcomeOk
  BY <1>6 DEF WelcomeOk
<1>7. CASE HandshakeFail
  BY <1>7 DEF HandshakeFail, AfterError
<1>8. CASE Join
  BY <1>8 DEF Join, AfterError
<1>9. CASE BackoffElapse
  BY <1>9 DEF BackoffElapse
<1>10. CASE BackoffAbort
  BY <1>10 DEF BackoffAbort
<1>11. CASE ReaderCheck
  BY <1>11 DEF ReaderCheck, GroupDone, StopError
<1>12. CASE ReaderFrame
  BY <1>12 DEF ReaderFrame
<1>13. CASE ReaderClose
  BY <1>13 DEF ReaderClose
<1>14. CASE ReaderFail
  BY <1>14 DEF ReaderFail
<1>15. CASE WriterStop
  BY <1>15 DEF WriterStop, GroupDone, StopError
<1>16. CASE WriterTake
  BY <1>16 DEF WriterTake, TypeOK, Heartbeat, NoMsg, Frames, Calls
<1>17. CASE WriterSend
  BY <1>17 DEF WriterSend
<1>18. CASE WriterFail
  BY <1>18 DEF WriterFail
<1>19. CASE BeatTick
  BY <1>19 DEF BeatTick
<1>20. CASE BeatStop
  BY <1>20 DEF BeatStop, GroupDone, StopError
<1>21. CASE CloserClose
  BY <1>21 DEF CloserClose, GroupDone, Strand
<1>22. CASE GatewayClose
  BY <1>22 DEF GatewayClose
<1>23. CASE LinkBreaks
  BY <1>23 DEF LinkBreaks, Strand
<1>24. CASE \E r \in Requests : Respond(r) \/ Deliver(r) \/ Vanish(r)
  BY <1>24 DEF Respond, Deliver, Vanish
<1>25. CASE \E m \in Notifications : FinishNotification(m)
  BY <1>25 DEF FinishNotification
<1>26. CASE \E f \in Frames : GatewaySend(f)
  BY <1>26 DEF GatewaySend
<1>27. CASE UNCHANGED vars
  BY <1>27
<1> QED
  BY <1>1, <1>2, <1>3, <1>4, <1>5, <1>6, <1>7, <1>8, <1>9, <1>10, <1>11, <1>12, <1>13, <1>14, <1>15, <1>16, <1>17, <1>18, <1>19, <1>20, <1>21, <1>22, <1>23, <1>24, <1>25, <1>26, <1>27
     DEF Next, Supervise, Reader, Writer

\* Every step keeps the unread frames distinct, sent and not yet dispatched.
LEMMA IncomingStep == TypeOK /\ IncomingInv /\ [Next]_vars => IncomingInv'
<1> SUFFICES ASSUME TypeOK, IncomingInv, [Next]_vars PROVE IncomingInv'
  OBVIOUS
<1>t. incoming \in Seq(Frames \cup {Close}) /\ handler \in [Calls -> {"none", "running", "done"}]
  BY DEF TypeOK
<1>1. CASE Join
  <2>1. incoming' = <<>> /\ UNCHANGED <<sent, handler>>
    BY <1>1 DEF Join
  <2>2. \A f : Once(incoming', f) /\ ~InSeq(incoming', f)
    BY <2>1, EmptyChannel DEF Once, InSeq
  <2> QED BY <2>1, <2>2 DEF IncomingInv
<1>2. CASE ReaderFrame \/ ReaderClose
  <2>1. /\ incoming # <<>> /\ incoming' = Tail(incoming) /\ sent' = sent
        /\ \A f \in Calls : handler'[f] # "none" => handler[f] # "none" \/ f = Head(incoming)
    BY <1>2, <1>t DEF ReaderFrame, ReaderClose
  <2>2. \A f \in Frames :
           /\ Once(incoming, f)
           /\ Once(incoming', f)
           /\ InSeq(incoming', f) => InSeq(incoming, f)
           /\ f = Head(incoming) => InSeq(incoming, f) /\ ~InSeq(incoming', f)
    <3> SUFFICES ASSUME NEW f \in Frames
                 PROVE  /\ Once(incoming, f)
                        /\ Once(incoming', f)
                        /\ InSeq(incoming', f) => InSeq(incoming, f)
                        /\ f = Head(incoming) => InSeq(incoming, f) /\ ~InSeq(incoming', f)
      OBVIOUS
    <3>1. Once(incoming, f)
      BY DEF IncomingInv
    <3>2. InSeq(incoming, f) <=> f = Head(incoming) \/ InSeq(Tail(incoming), f)
      BY <1>t, <2>1, TailInSeq
    <3>3. Once(Tail(incoming), f) /\ (f = Head(incoming) => ~InSeq(Tail(incoming), f))
      BY <1>t, <2>1, <3>1, TailOnce
    <3> QED BY <2>1, <3>1, <3>2, <3>3
  <2>3. \A f \in Frames : Once(incoming', f) /\ (InSeq(incoming', f) => f \in sent')
    BY <2>1, <2>2 DEF IncomingInv
  <2>4. ASSUME NEW f \in Calls, handler'[f] # "none"
        PROVE  f \in sent' /\ ~InSeq(incoming', f)
    BY <2>1, <2>2, <2>4 DEF IncomingInv, Frames
  <2> QED BY <2>3, <2>4 DEF IncomingInv
<1>3. CASE \E f \in Frames : GatewaySend(f)
  <2> PICK g \in Frames : GatewaySend(g)
    BY <1>3
  <2>1. /\ g \notin sent /\ sent' = sent \cup {g} /\ handler' = handler
        /\ incoming' = Append(incoming, g)
    BY DEF GatewaySend, callVars
  <2>2. ~InSeq(incoming, g)
    BY <2>1 DEF IncomingInv
  <2>3. \A f \in Frames : Once(incoming', f) /\ (InSeq(incoming', f) <=> InSeq(incoming, f) \/ f = g)
    BY <1>t, <2>1, <2>2, AppendInSeq, AppendOnce DEF IncomingInv
  <2> QED BY <2>1, <2>3 DEF IncomingInv, Frames
<1>4. CASE GatewayClose
  <2>1. incoming' = Append(incoming, Close) /\ UNCHANGED <<sent, handler>>
    BY <1>4 DEF GatewayClose
  <2>2. \A f \in Frames : Once(incoming', f) /\ (InSeq(incoming', f) <=> InSeq(incoming, f))
    BY <1>t, <2>1, AppendInSeq, AppendOnce, NoMsgIsNoRequest DEF IncomingInv
  <2> QED BY <2>1, <2>2 DEF IncomingInv, Frames
<1>5. CASE \/ \E r \in Requests : Respond(r)
           \/ \E m \in Notifications : FinishNotification(m)
  <2>1. /\ UNCHANGED <<sent, incoming>>
        /\ \A f \in Calls : handler'[f] # "none" => handler[f] # "none"
    BY <1>5, <1>t DEF Respond, FinishNotification, Calls
  <2> QED BY <2>1 DEF IncomingInv
<1>6. CASE UNCHANGED callVars
  BY <1>6 DEF callVars, IncomingInv
<1> QED
  BY <1>1, <1>2, <1>3, <1>4, <1>5, <1>6
     DEF Next, Supervise, Reader, Writer, vars, Shutdown, LoopCheck, DialOk, DialFail, HelloOk,
         WelcomeOk, HandshakeFail, BackoffElapse, BackoffAbort, ReaderCheck, ReaderFail,
         WriterStop, WriterTake, WriterSend, WriterFail, BeatTick, BeatStop, CloserClose,
         LinkBreaks, Deliver, Vanish

\* Every step keeps each response in at most one place, and in one once its
\* handler is done.
LEMMA PlaceStep ==
    TypeOK /\ HandInv /\ IncomingInv /\ PlaceInv /\ [Next]_vars => PlaceInv'
<1> SUFFICES ASSUME TypeOK, HandInv, IncomingInv, [Next]_vars, NEW r \in Requests, OnePlace(r)
             PROVE  OnePlace(r)'
  BY DEF PlaceInv
<1> USE DEF OnePlace, Queued, InFlight
<1>t. /\ sendCh \in Seq(Requests \cup {Heartbeat})
      /\ incoming \in Seq(Frames \cup {Close})
      /\ handler \in [Calls -> {"none", "running", "done"}]
      /\ fate \in [Requests -> {"none", "delivered", "dropped", "lost"}]
      /\ r \in Calls /\ r \in Frames
      /\ r # NoMsg /\ r # Heartbeat /\ r # Close
  BY NoMsgIsNoRequest DEF TypeOK, Calls, Frames
<1>1. CASE ReaderFrame
  <2>1. UNCHANGED <<sendCh, hand, wire, stale, fate>>
    BY <1>1 DEF ReaderFrame, msgVars
  <2>2. Head(incoming) = r => handler[r] # "done"
    <3>1. incoming # <<>>
      BY <1>1 DEF ReaderFrame
    <3>2. Head(incoming) = r => InSeq(incoming, r)
      BY <1>t, <3>1, TailInSeq
    <3> QED BY <1>t, <3>2 DEF IncomingInv
  <2>3. handler'[r] = "done" <=> handler[r] = "done"
    BY <1>1, <1>t, <2>2 DEF ReaderFrame
  <2> QED BY <2>1, <2>3
<1>2. CASE WriterTake
  <2>1. /\ sendCh # <<>> /\ sendCh' = Tail(sendCh) /\ hand' = Head(sendCh)
        /\ UNCHANGED <<handler, wire, stale, fate>>
        /\ hand = NoMsg
    BY <1>2 DEF WriterTake, callVars, HandInv
  <2>2. InSeq(sendCh, r) <=> r = Head(sendCh) \/ InSeq(sendCh', r)
    BY <1>t, <2>1, TailInSeq
  <2>3. Once(sendCh', r) /\ (r = Head(sendCh) => ~InSeq(sendCh', r))
    BY <1>t, <2>1, TailOnce
  <2> QED BY <1>t, <2>1, <2>2, <2>3
<1>3. CASE WriterSend
  <2>1. /\ UNCHANGED <<handler, sendCh, fate>>
        /\ hand' = NoMsg
        /\ InFlight(r)' <=> InFlight(r) \/ hand = r
        /\ r \in wire' /\ r \in stale' =>
               (r \in wire /\ r \in stale) \/ (InFlight(r) /\ hand = r)
    BY <1>3, <1>t DEF WriterSend, callVars
  <2> QED BY <1>t, <2>1
<1>4. CASE WriterFail
  <2>1. /\ UNCHANGED <<handler, sendCh, wire, stale>>
        /\ hand' = NoMsg
        /\ fate'[r] = IF hand = r THEN "lost" ELSE fate[r]
    BY <1>4, <1>t DEF WriterFail, LoseHand, callVars
  <2> QED BY <1>t, <2>1
<1>5. CASE BeatTick
  <2>1. /\ UNCHANGED <<handler, hand, wire, stale, fate>>
        /\ sendCh' = sendCh \/ sendCh' = Append(sendCh, Heartbeat)
    BY <1>5 DEF BeatTick, callVars
  <2>2. LET s == Append(sendCh, Heartbeat)
        IN  Once(s, r) /\ (InSeq(s, r) <=> InSeq(sendCh, r))
    <3>1. Heartbeat \in Requests \cup {Heartbeat}
      OBVIOUS
    <3> QED BY <1>t, <3>1, AppendInSeq, AppendOnce
  <2> QED BY <2>1, <2>2
<1>6. CASE CloserClose \/ LinkBreaks
  <2>1. /\ UNCHANGED <<handler, hand, sendCh, fate>>
        /\ InFlight(r)' <=> InFlight(r)
        /\ r \notin wire'
    BY <1>6 DEF CloserClose, LinkBreaks, Strand, callVars
  <2> QED BY <2>1
<1>7. CASE \E q \in Requests : Respond(q)
  <2> PICK q \in Requests : Respond(q)
    BY <1>7
  <2>1. /\ UNCHANGED <<hand, wire, stale>>
        /\ handler[q] = "running"
        /\ handler'[r] = IF q = r THEN "done" ELSE handler[r]
    BY <1>t DEF Respond
  <2>2. CASE HasRoom
    <3>1. sendCh' = Append(sendCh, q) /\ fate' = fate
      BY <2>2 DEF Respond
    <3>2. q = r => ~InSeq(sendCh, r)
      BY <2>1
    <3>3. Once(sendCh', r) /\ (InSeq(sendCh', r) <=> InSeq(sendCh, r) \/ r = q)
      BY <1>t, <3>1, <3>2, AppendInSeq, AppendOnce
    <3> QED BY <2>1, <3>1, <3>3
  <2>3. CASE ~HasRoom
    <3>1. sendCh' = sendCh /\ fate'[r] = IF q = r THEN "dropped" ELSE fate[r]
      BY <1>t, <2>3 DEF Respond
    <3> QED BY <2>1, <3>1
  <2> QED BY <2>2, <2>3
<1>8. CASE \E q \in Requests : Deliver(q) \/ Vanish(q)
  <2> PICK q \in Requests : Deliver(q) \/ Vanish(q)
    BY <1>8
  <2>1. /\ UNCHANGED <<handler, hand, sendCh>>
        /\ InFlight(q)
        /\ q # r => fate'[r] = fate[r] /\ (r \in wire' <=> r \in wire)
                                      /\ (r \in stale' <=> r \in stale)
    BY <1>t DEF Deliver, Vanish, callVars
  <2>2. q = r => fate'[r] # "none" /\ ~InFlight(r)'
    BY <1>t DEF Deliver, Vanish
  <2> QED BY <2>1, <2>2
<1>9. CASE \E m \in Notifications : FinishNotification(m)
  <2>1. /\ UNCHANGED msgVars
        /\ handler'[r] = handler[r]
    BY <1>9, <1>t, DaemonAssumption DEF FinishNotification, Calls
  <2> QED BY <2>1 DEF msgVars
<1>10. CASE UNCHANGED msgVars /\ UNCHANGED handler
  BY <1>10 DEF msgVars
<1> QED
  BY <1>1, <1>2, <1>3, <1>4, <1>5, <1>6, <1>7, <1>8, <1>9, <1>10
     DEF Next, Supervise, Reader, Writer, vars, callVars, Shutdown, LoopCheck, DialOk, DialFail,
         HelloOk, WelcomeOk, HandshakeFail, Join, BackoffElapse, BackoffAbort, ReaderCheck,
         ReaderClose, ReaderFail, WriterStop, BeatStop, GatewaySend, GatewayClose
-----------------------------------------------------------------------------
(* Theorems.                                                                 *)

\* The inductive invariant holds in every reachable state of the daemon.
THEOREM Invariance == Spec => []IInv
<1>1. IInv /\ [Next]_vars => IInv'
  BY TypeStep, SessionStep, IncomingStep, PlaceStep DEF IInv
<1> QED BY InitIInv, <1>1, PTL DEF Spec

\* The daemon's variables keep their types: in particular the backoff stays
\* within its cap and sendCh within its capacity (Run, New).
THEOREM TypeCorrect == Spec => []TypeOK
<1>1. IInv => TypeOK
  BY DEF IInv
<1> QED BY Invariance, <1>1, PTL

\* For any number of requests, sessions and failures, a response is in exactly
\* one place from the end of its handler on (sendResponse, writeLoop).
THEOREM NoDuplicateNoOrphan == Spec => []ResponseInOnePlace
<1>1. IInv => ResponseInOnePlace
  <2> SUFFICES ASSUME IInv, NEW r \in Requests
               PROVE  /\ handler[r] # "done" => Places(r) = {}
                      /\ handler[r] = "done" => \E p \in Places(r) : Places(r) = {p}
                      /\ Once(sendCh, r)
    BY DEF ResponseInOnePlace
  <2>1. OnePlace(r)
    BY DEF IInv, PlaceInv
  <2>2. handler[r] # "done" => Places(r) = {}
    BY <2>1 DEF Places, OnePlace, InFlight
  <2>3. CASE Queued(r)
    <3>1. Places(r) = {"queue"}
      BY <2>1, <2>3 DEF Places, OnePlace, InFlight
    <3> QED BY <2>1, <2>2, <3>1 DEF OnePlace
  <2>4. CASE hand = r
    <3>1. Places(r) = {"hand"}
      BY <2>1, <2>4 DEF Places, OnePlace, InFlight
    <3> QED BY <2>1, <2>2, <3>1 DEF OnePlace
  <2>5. CASE r \in wire
    <3>1. Places(r) = {"wire"}
      BY <2>1, <2>5 DEF Places, OnePlace, InFlight
    <3> QED BY <2>1, <2>2, <3>1 DEF OnePlace
  <2>6. CASE r \in stale
    <3>1. Places(r) = {"stale"}
      BY <2>1, <2>6 DEF Places, OnePlace, InFlight
    <3> QED BY <2>1, <2>2, <3>1 DEF OnePlace
  <2>7. CASE fate[r] # "none"
    <3>1. Places(r) = {"fate"}
      BY <2>1, <2>7 DEF Places, OnePlace, InFlight
    <3> QED BY <2>1, <2>2, <3>1 DEF OnePlace
  <2>8. CASE handler[r] # "done"
    BY <2>1, <2>2, <2>8 DEF OnePlace
  <2> QED BY <2>1, <2>3, <2>4, <2>5, <2>6, <2>7, <2>8 DEF OnePlace, InFlight
<1> QED BY Invariance, <1>1, PTL

\* g.Wait never returns nil: Run never resets its backoff, not even after a
\* session that worked, against what its "err == nil" branch was written for.
THEOREM BackoffNeverReset == Spec => []SessionEndsWithError
<1>1. IInv => SessionEndsWithError
  BY DEF IInv, ExitInv, AllExited, SessionEndsWithError
<1> QED BY Invariance, <1>1, PTL

\* Once in sendCh, a response leaves it only through writeLoop: reconnecting
\* throws nothing away.
THEOREM QueueSurvives == Spec => QueueSurvivesReconnect
<1>1. ASSUME IInv, [Next]_vars, NEW r \in Requests, Queued(r), ~Queued(r)'
      PROVE  hand' = r
  <2>t. sendCh \in Seq(Requests \cup {Heartbeat})
    BY <1>1 DEF IInv, TypeOK
  <2>1. CASE WriterTake
    <3>1. sendCh # <<>> /\ sendCh' = Tail(sendCh) /\ hand' = Head(sendCh)
      BY <2>1 DEF WriterTake
    <3> QED BY <1>1, <2>t, <3>1, TailInSeq DEF Queued
  <2>2. CASE \E m \in Requests \cup {Heartbeat} : sendCh' = Append(sendCh, m)
    BY <1>1, <2>t, <2>2, AppendInSeq DEF Queued
  <2>3. CASE sendCh' = sendCh
    BY <1>1, <2>3 DEF Queued
  <2> QED
    BY <1>1, <2>1, <2>2, <2>3
       DEF Next, Supervise, Reader, Writer, vars, msgVars, Shutdown, LoopCheck, DialOk, DialFail,
           HelloOk, WelcomeOk, HandshakeFail, Join, BackoffElapse, BackoffAbort, ReaderCheck,
           ReaderFrame, ReaderClose, ReaderFail, WriterStop, WriterSend, WriterFail, BeatTick,
           BeatStop, CloserClose, Respond, FinishNotification, GatewaySend, GatewayClose,
           LinkBreaks, Deliver, Vanish
<1>2. IInv /\ [Next]_vars =>
        [\A r \in Requests : Queued(r) /\ ~Queued(r)' => hand' = r]_vars
  BY <1>1
<1> QED BY Invariance, <1>2, PTL DEF Spec, QueueSurvivesReconnect

\* A step that changes at most the caller's view of q maps to one step of q.
LEMMA OneCallMoves ==
    ASSUME NEW q \in Requests,
           \A r \in Requests \ {q} : handler'[r] = handler[r] /\ fate'[r] = fate[r],
           \/ CallOf(q) = "unread" /\ CallOf(q)' = "accepted"
           \/ CallOf(q) = "accepted" /\ CallOf(q)' = "executed"
           \/ CallOf(q) = "executed" /\ CallOf(q)' = "answered"
           \/ CallOf(q) \in {"accepted", "executed"} /\ CallOf(q)' = "unanswered"
    PROVE  Promise!PromiseNext
<1> DEFINE call == [r \in Requests |-> CallOf(r)]
<1>1. call[q] = CallOf(q)
  OBVIOUS
<1>2. \A r \in Requests \ {q} : CallOf(r)' = CallOf(r)
  BY DEF CallOf
<1>3. call' = [call EXCEPT ![q] = CallOf(q)']
  BY <1>2
<1> QED
  BY <1>1, <1>3
     DEF Promise!PromiseNext, Promise!Accept, Promise!Execute, Promise!Answer,
         Promise!Abandon, Promise!Advance

\* The daemon implements RpcPromise for every number of requests: executed at
\* most once, answered after the handler, at most once.
THEOREM ImplementsPromise == Spec => KeepsPromise
<1> DEFINE call == [r \in Requests |-> CallOf(r)]
<1>1. Init => Promise!PromiseInit
  BY DEF Init, Promise!PromiseInit, CallOf, Calls
<1>2. ASSUME IInv, [Next]_vars PROVE [Promise!PromiseNext]_call
  <2>t. /\ handler \in [Calls -> {"none", "running", "done"}]
        /\ fate \in [Requests -> {"none", "delivered", "dropped", "lost"}]
        /\ incoming \in Seq(Frames \cup {Close})
        /\ Requests \subseteq Calls /\ Calls \subseteq Frames
        /\ \A r \in Requests : OnePlace(r)
    BY <1>2 DEF IInv, TypeOK, PlaceInv, Calls, Frames
  <2>1. CASE ReaderFrame
    <3>1. CASE Head(incoming) \in Requests
      <4> PICK h \in Requests : h = Head(incoming)
        BY <3>1
      <4>1. /\ handler' = [handler EXCEPT ![h] = "running"] /\ fate' = fate
            /\ incoming # <<>>
        BY <2>1, <2>t DEF ReaderFrame, msgVars
      <4>2. InSeq(incoming, h)
        BY <2>t, <4>1, TailInSeq
      <4>3. handler[h] = "none" /\ fate[h] = "none"
        BY <1>2, <2>t, <4>2 DEF IInv, IncomingInv, OnePlace
      <4>4. CallOf(h) = "unread" /\ CallOf(h)' = "accepted"
        BY <2>t, <4>1, <4>3 DEF CallOf
      <4> QED BY <2>t, <4>1, <4>4, OneCallMoves
    <3>2. CASE Head(incoming) \notin Requests
      <4>1. \A r \in Requests : handler'[r] = handler[r] /\ fate'[r] = fate[r]
        BY <2>1, <2>t, <3>2 DEF ReaderFrame, msgVars
      <4> QED BY <4>1 DEF CallOf
    <3> QED BY <3>1, <3>2
  <2>2. CASE \E q \in Requests : Respond(q)
    <3> PICK q \in Requests : Respond(q)
      BY <2>2
    <3>1. /\ handler[q] = "running" /\ handler' = [handler EXCEPT ![q] = "done"]
          /\ fate' = fate \/ fate' = [fate EXCEPT ![q] = "dropped"]
      BY DEF Respond
    <3>2. fate[q] = "none"
      BY <2>t, <3>1 DEF OnePlace
    <3>3. CallOf(q) = "accepted" /\ CallOf(q)' \in {"executed", "unanswered"}
      BY <2>t, <3>1, <3>2 DEF CallOf
    <3> QED BY <2>t, <3>1, <3>3, OneCallMoves
  <2>3. CASE WriterFail
    <3>1. fate' = LoseHand /\ handler' = handler
      BY <2>3 DEF WriterFail, callVars
    <3>2. CASE hand \in Requests
      <4> PICK q \in Requests : q = hand
        BY <3>2
      <4>1. handler[q] = "done" /\ fate[q] = "none"
        BY <2>t DEF OnePlace
      <4>2. fate' = [fate EXCEPT ![q] = "lost"]
        BY <3>1 DEF LoseHand
      <4>3. CallOf(q) = "executed" /\ CallOf(q)' = "unanswered"
        BY <2>t, <3>1, <4>1, <4>2 DEF CallOf
      <4> QED BY <2>t, <3>1, <4>2, <4>3, OneCallMoves
    <3>3. CASE hand \notin Requests
      BY <3>1, <3>3 DEF LoseHand, CallOf
    <3> QED BY <3>2, <3>3
  <2>4. CASE \E q \in Requests : Deliver(q) \/ Vanish(q)
    <3> PICK q \in Requests : Deliver(q) \/ Vanish(q)
      BY <2>4
    <3>1. /\ InFlight(q) /\ handler' = handler
          /\ \/ fate' = [fate EXCEPT ![q] = "delivered"]
             \/ fate' = [fate EXCEPT ![q] = "lost"]
      BY DEF Deliver, Vanish, InFlight, callVars
    <3>2. handler[q] = "done" /\ fate[q] = "none"
      BY <2>t, <3>1 DEF OnePlace
    <3>3. CallOf(q) = "executed" /\ CallOf(q)' \in {"answered", "unanswered"}
      BY <2>t, <3>1, <3>2 DEF CallOf
    <3> QED BY <2>t, <3>1, <3>3, OneCallMoves
  <2>5. CASE \E m \in Notifications : FinishNotification(m)
    <3>1. fate' = fate /\ \A r \in Requests : handler'[r] = handler[r]
      BY <2>5, <2>t, DaemonAssumption DEF FinishNotification, msgVars
    <3> QED BY <3>1 DEF CallOf
  <2>6. CASE UNCHANGED <<handler, fate>>
    BY <2>6 DEF CallOf
  <2> QED
    BY <1>2, <2>1, <2>2, <2>3, <2>4, <2>5, <2>6
       DEF Next, Supervise, Reader, Writer, vars, msgVars, callVars, Shutdown, LoopCheck, DialOk,
           DialFail, HelloOk, WelcomeOk, HandshakeFail, Join, BackoffElapse, BackoffAbort,
           ReaderCheck, ReaderClose, ReaderFail, WriterStop, WriterTake, WriterSend, BeatTick,
           BeatStop, CloserClose, GatewaySend, GatewayClose, LinkBreaks
<1> QED BY Invariance, <1>1, <1>2, PTL DEF Spec, KeepsPromise, Promise!PromiseSpec
=============================================================================
