------------------------ MODULE TabletClient_proofs ------------------------
(***************************************************************************)
(* Safety of TabletClient for every number of threads, sessions and queue  *)
(* or buffer slots.                                                        *)
(***************************************************************************)
EXTENDS TabletClient, SequenceTheorems, TLAPS

(* Every variable keeps its type: in particular no session number is used  *)
(* that Socket.connect() did not produce.  The flags, which only first-     *)
(* order reasoning is needed for, come first.                              *)
LEMMA FlagsStep == ASSUME TypeOK, [Next]_vars PROVE FlagsOK'
<1> USE DEF TypeOK, FlagsOK, fields, thread, calls, network, host, user
<1>1. CASE Run
  <2> USE DEF Go
  <2>1. CASE LoopCheck BY <2>1, Zenon DEF LoopCheck
  <2>2. CASE ConnectOk BY <2>2, Zenon DEF ConnectOk
  <2>3. CASE ConnectFails BY <2>3, Zenon DEF ConnectFails
  <2>4. CASE StopBeforePublish BY <2>4, Zenon DEF StopBeforePublish
  <2>5. CASE Publish BY <2>5, Zenon DEF Publish
  <2>6. CASE ReadAck BY <2>6, Zenon DEF ReadAck
  <2>7. CASE AckFails BY <2>7, Zenon DEF AckFails
  <2>8. CASE Up BY <2>8, Zenon DEF Up
  <2>9. CASE ReceiveCheck BY <2>9, Zenon DEF ReceiveCheck
  <2>10. CASE ReadFrame BY <2>10, Zenon DEF ReadFrame
  <2>11. CASE ReadFails BY <2>11, Zenon DEF ReadFails
  <2>12. CASE SeeFull BY <2>12, Zenon DEF SeeFull
  <2>13. CASE Evict BY <2>13, Zenon DEF Evict
  <2>14. CASE AddFrame BY <2>14, Zenon DEF AddFrame
  <2>15. CASE Teardown BY <2>15, Zenon DEF Teardown
  <2>16. CASE Release BY <2>16, Zenon DEF Release
  <2>17. CASE Drain BY <2>17, Zenon DEF Drain
  <2>18. CASE Caught BY <2>18, Zenon DEF Caught
  <2>19. CASE CloseFailed BY <2>19, Zenon DEF CloseFailed
  <2>20. CASE Unpublish BY <2>20, Zenon DEF Unpublish
  <2>21. CASE CheckStop BY <2>21, Zenon DEF CheckStop
  <2>22. CASE Backoff BY <2>22, Zenon DEF Backoff
  <2>23. CASE SleepOver BY <2>23, Zenon DEF SleepOver
  <2>24. CASE SleepInterrupted BY <2>24, Zenon DEF SleepInterrupted
  <2> QED BY <1>1, <2>1, <2>2, <2>3, <2>4, <2>5, <2>6, <2>7, <2>8, <2>9, <2>10, <2>11, <2>12, <2>13, <2>14, <2>15, <2>16, <2>17, <2>18, <2>19, <2>20, <2>21, <2>22, <2>23, <2>24 DEF Run
<1>2. ASSUME NEW t \in Threads, Call(t) PROVE FlagsOK'
  <2>1. CASE LookupOut(t) BY <2>1, Zenon DEF LookupOut
  <2>2. CASE EnterMonitor(t) BY <2>2, Zenon DEF EnterMonitor
  <2>3. CASE WriteHeader(t) BY <2>3, Zenon DEF WriteHeader
  <2>4. CASE WritePayload(t) BY <2>4, Zenon DEF WritePayload
  <2>5. CASE WriteFails(t) BY <2>5, Zenon DEF WriteFails
  <2>6. CASE SetStop(t) BY <2>6, Zenon DEF SetStop
  <2>7. CASE ClearConnected(t) BY <2>7, Zenon DEF ClearConnected
  <2>8. CASE CloseSocket(t) BY <2>8, Zenon DEF CloseSocket
  <2>9. CASE Interrupt(t) BY <2>9, Zenon DEF Interrupt
  <2> QED BY <1>2, <2>1, <2>2, <2>3, <2>4, <2>5, <2>6, <2>7, <2>8, <2>9 DEF Call, SendRaw, Disconnect
<1>3. CASE TakeFrame BY <1>3, Zenon DEF TakeFrame
<1>4. ASSUME NEW f \in Feeds, FeedRequestsKeyframe(f) PROVE FlagsOK'
  BY <1>4, Zenon DEF FeedRequestsKeyframe
<1>5. CASE UiSendsInput BY <1>5, Zenon DEF UiSendsInput
<1>6. CASE UserDisconnects BY <1>6, Zenon DEF UserDisconnects
<1>7. CASE Host
  BY <1>7, Zenon DEF Host, HostStarts, HostAccepts, HostReadsHello, HostReadsFrame,
                     HostSendsVideo, HostExits
<1>8. ASSUME NEW s \in Sessions, LinkDrops(s) PROVE FlagsOK'
  BY <1>8, Zenon DEF LinkDrops
<1>9. CASE UNCHANGED vars BY <1>9, Zenon DEF vars
<1> QED BY <1>1, <1>2, <1>3, <1>4, <1>5, <1>6, <1>7, <1>8, <1>9 DEF Next

\* A write appends a well-formed chunk (Client.kt:285-287).
LEMMA PutType ==
  ASSUME TypeOK, NEW t \in Threads, NEW part \in {"header", "payload"}, Put(t, part)
  PROVE  wire' \in [Sessions -> Seq(Chunks)]
<1> DEFINE c == [type |-> msg[t], part |-> part, by |-> t]
<1>1. c \in Chunks BY DEF TypeOK, Chunks
<1>2. \A s \in Sessions : Append(wire[s], c) \in Seq(Chunks)
  BY <1>1 DEF TypeOK
<1>3. wire' = [wire EXCEPT ![stream[t]] = Append(@, c)] BY DEF Put
<1> HIDE DEF c
<1> QED BY <1>2, <1>3 DEF TypeOK

\* The end of sendRaw() leaves the call and its monitor well typed
\* (Client.kt:284-289).
LEMMA LeaveType ==
  ASSUME TypeOK, NEW t \in Threads, Return(t), LeaveMonitor(t)
  PROVE  /\ step' \in [Threads -> {"idle"} \cup SendSteps \cup StopSteps]
         /\ stream' \in [Threads -> 0..MaxSessions]
         /\ msg' \in [Threads -> Messages]
         /\ monitor' \in [Sessions -> Threads \cup {NoThread}]
<1>1. step' \in [Threads -> {"idle"} \cup SendSteps \cup StopSteps]
  BY DEF TypeOK, Return
<1>2. stream' \in [Threads -> 0..MaxSessions]
  BY BoundsAssumption DEF TypeOK, Return
<1>3. monitor' \in [Sessions -> Threads \cup {NoThread}]
  BY DEF TypeOK, LeaveMonitor
<1> QED BY <1>1, <1>2, <1>3 DEF TypeOK, Return

\* The host's ReadFrame() takes a frame off the front of a socket buffer
\* (server.cpp:127-154).
LEMMA ConsumeType ==
  ASSUME TypeOK, FrameReady, ConsumeFrame
  PROVE  wire' \in [Sessions -> Seq(Chunks)]
<1> DEFINE w == wire[hostConn]
           n == FrameLen(w)
<1>1. CASE hostConn \in Sessions
  <2>1. w \in Seq(Chunks) /\ n \in {1, 2} BY <1>1 DEF TypeOK, FrameLen
  <2>2. SubSeq(w, n + 1, Len(w)) \in Seq(Chunks)
    <3> HIDE DEF w, n
    <3> QED BY <2>1
  <2> QED BY <1>1, <2>2 DEF TypeOK, ConsumeFrame
<1>2. CASE hostConn \notin Sessions BY <1>2 DEF TypeOK, ConsumeFrame
<1> QED BY <1>1, <1>2

\* The host's SendFrame() appends to a socket buffer (server.cpp:100-125).
LEMMA SendType ==
  ASSUME TypeOK, NEW m \in {"ACK", "VIDEO"}
  PROVE  [down EXCEPT ![hostConn] = Append(@, m)] \in [Sessions -> Seq({"ACK", "VIDEO"})]
<1>1. \A s \in Sessions : Append(down[s], m) \in Seq({"ACK", "VIDEO"})
  BY DEF TypeOK
<1> QED BY <1>1 DEF TypeOK

\* The client thread takes a message off the front of a socket buffer
\* (Client.kt:194-217).
LEMMA ReadType ==
  ASSUME TypeOK, sock \in Sessions, down[sock] # <<>>
  PROVE  [down EXCEPT ![sock] = Tail(@)] \in [Sessions -> Seq({"ACK", "VIDEO"})]
<1>1. Tail(down[sock]) \in Seq({"ACK", "VIDEO"})
  BY DEF TypeOK
<1> QED BY <1>1 DEF TypeOK

\* Every variable of the client, its callers and the host keeps its type.
THEOREM TypeCorrect == Spec => []TypeOK
<1> USE ThreadsAssumption, BoundsAssumption
<1>1. Init => TypeOK
  <2> SUFFICES ASSUME Init PROVE TypeOK
    OBVIOUS
  <2>1. FlagsOK BY Zenon DEF Init, FlagsOK
  <2>2. wire \in [Sessions -> Seq(Chunks)] BY DEF Init
  <2>3. down \in [Sessions -> Seq({"ACK", "VIDEO"})] BY DEF Init
  <2>4. pc \in BetweenSessions BY DEF Init, BetweenSessions
  <2> QED BY <2>1, <2>2, <2>3, <2>4 DEF Init, TypeOK, Messages, ClientPcs, HostPcs
<1>2. TypeOK /\ [Next]_vars => TypeOK'
  <2> SUFFICES ASSUME TypeOK, [Next]_vars PROVE TypeOK'
    OBVIOUS
  <2> FlagsOK'
    BY FlagsStep
  <2> USE DEF BetweenSessions, TypeOK, fields, thread, calls, network, host, user
  <2>1. CASE Run
    <3> USE DEF Go, ClientPcs, StartSend, Threads, Messages, Sessions, SendSteps
    <3>1. CASE LoopCheck BY <3>1 DEF LoopCheck
    <3>2. CASE ConnectOk BY <3>2 DEF ConnectOk
    <3>3. CASE ConnectFails BY <3>3 DEF ConnectFails
    <3>4. CASE StopBeforePublish BY <3>4 DEF StopBeforePublish
    <3>5. CASE Publish BY <3>5 DEF Publish
    <3>6. CASE ReadAck
      <4>1. down' \in [Sessions -> Seq({"ACK", "VIDEO"})]
        BY <3>6, ReadType DEF ReadAck
      <4> QED BY <3>6, <4>1 DEF ReadAck
    <3>7. CASE AckFails BY <3>7 DEF AckFails
    <3>8. CASE Up BY <3>8 DEF Up
    <3>9. CASE ReceiveCheck BY <3>9 DEF ReceiveCheck
    <3>10. CASE ReadFrame
      <4>1. down' \in [Sessions -> Seq({"ACK", "VIDEO"})]
        BY <3>10, ReadType DEF ReadFrame
      <4> QED BY <3>10, <4>1 DEF ReadFrame
    <3>11. CASE ReadFails BY <3>11 DEF ReadFails
    <3>12. CASE SeeFull BY <3>12 DEF SeeFull
    <3>13. CASE Evict
      <4>1. frames' \in Seq(Sessions)
        <5>1. CASE frames = <<>> BY <3>13, <5>1 DEF Evict
        <5>2. CASE frames # <<>> BY <3>13, <5>2 DEF Evict
        <5> QED BY <5>1, <5>2
      <4> QED BY <3>13, <4>1 DEF Evict
    <3>14. CASE AddFrame
      <4>1. sock \in Sessions BY <3>14 DEF AddFrame
      <4>2. Append(frames, sock) \in Seq(Sessions) BY <4>1
      <4>3. frames' \in Seq(Sessions) BY <3>14, <4>2 DEF AddFrame
      <4> QED BY <3>14, <4>3 DEF AddFrame
    <3>15. CASE Teardown BY <3>15 DEF Teardown
    <3>16. CASE Release BY <3>16 DEF Release
    <3>17. CASE Drain
      <4>1. frames' \in Seq(Sessions) BY <3>17 DEF Drain
      <4> QED BY <3>17, <4>1 DEF Drain
    <3>18. CASE Caught BY <3>18 DEF Caught
    <3>19. CASE CloseFailed BY <3>19 DEF CloseFailed
    <3>20. CASE Unpublish
      <4>1. socket' \in 0..MaxSessions /\ out' \in 0..MaxSessions
        BY <3>20 DEF Unpublish
      <4> QED BY <3>20, <4>1 DEF Unpublish
    <3>21. CASE CheckStop BY <3>21 DEF CheckStop
    <3>22. CASE Backoff BY <3>22 DEF Backoff
    <3>23. CASE SleepOver BY <3>23 DEF SleepOver
    <3>24. CASE SleepInterrupted BY <3>24 DEF SleepInterrupted
    <3> QED BY <2>1, <3>1, <3>2, <3>3, <3>4, <3>5, <3>6, <3>7, <3>8, <3>9, <3>10, <3>11, <3>12, <3>13, <3>14, <3>15, <3>16, <3>17, <3>18, <3>19, <3>20, <3>21, <3>22, <3>23, <3>24 DEF Run
  <2>2. ASSUME NEW t \in Threads, Call(t) PROVE TypeOK'
    <3> USE DEF SendSteps, StopSteps
    <3>1. CASE LookupOut(t)
      <4>1. CASE out = 0
        <5>1. stream' \in [Threads -> 0..MaxSessions]
          BY <3>1, <4>1 DEF LookupOut, Return
        <5>2. step' \in [Threads -> {"idle"} \cup SendSteps \cup StopSteps]
          BY <3>1, <4>1 DEF LookupOut, Return
        <5> QED BY <3>1, <4>1, <5>1, <5>2 DEF LookupOut, Return
      <4>2. CASE out # 0
        <5>1. stream' \in [Threads -> 0..MaxSessions] BY <3>1, <4>2 DEF LookupOut
        <5>2. step' \in [Threads -> {"idle"} \cup SendSteps \cup StopSteps]
          BY <3>1, <4>2 DEF LookupOut
        <5> QED BY <3>1, <4>2, <5>1, <5>2 DEF LookupOut
      <4> QED BY <4>1, <4>2
    <3>2. CASE EnterMonitor(t) BY <3>2 DEF EnterMonitor
    <3>3. CASE WriteHeader(t)
      <4>1. wire' \in [Sessions -> Seq(Chunks)]
        BY <3>3, PutType DEF WriteHeader
      <4>2. CASE HasPayload(msg[t]) BY <3>3, <4>1, <4>2 DEF WriteHeader
      <4>3. CASE ~HasPayload(msg[t])
        <5>1. Return(t) /\ LeaveMonitor(t) BY <3>3, <4>3 DEF WriteHeader
        <5> QED BY <3>3, <4>1, <4>3, <5>1, LeaveType DEF WriteHeader
      <4> QED BY <4>2, <4>3
    <3>4. CASE WritePayload(t)
      <4>1. wire' \in [Sessions -> Seq(Chunks)]
        BY <3>4, PutType DEF WritePayload
      <4> QED BY <3>4, <4>1, LeaveType DEF WritePayload
    <3>5. CASE WriteFails(t) BY <3>5 DEF WriteFails, LeaveMonitor
    <3>6. CASE SetStop(t) BY <3>6 DEF SetStop
    <3>7. CASE ClearConnected(t) BY <3>7 DEF ClearConnected
    <3>8. CASE CloseSocket(t) BY <3>8 DEF CloseSocket, Sessions
    <3>9. CASE Interrupt(t) BY <3>9 DEF Interrupt, Return
    <3> QED BY <2>2, <3>1, <3>2, <3>3, <3>4, <3>5, <3>6, <3>7, <3>8, <3>9
            DEF Call, SendRaw, Disconnect
  <2>3. CASE TakeFrame BY <2>3 DEF TakeFrame
  <2>4. ASSUME NEW f \in Feeds, FeedRequestsKeyframe(f) PROVE TypeOK'
    BY <2>4 DEF FeedRequestsKeyframe, StartSend, Threads, Messages, SendSteps
  <2>5. CASE UiSendsInput
    BY <2>5 DEF UiSendsInput, StartSend, Threads, Messages, SendSteps
  <2>6. CASE UserDisconnects BY <2>6 DEF UserDisconnects, Threads, StopSteps
  <2>7. CASE Host
    <3> USE DEF HostPcs, Sessions, ConsumeFrame, FrameReady, FrameLen
    <3>1. CASE HostStarts BY <3>1 DEF HostStarts
    <3>2. ASSUME NEW s \in Sessions, HostAccepts(s) PROVE TypeOK'
      BY <3>2 DEF HostAccepts
    <3>3. CASE HostReadsHello
      <4>1. wire' \in [Sessions -> Seq(Chunks)]
        BY <3>3, ConsumeType DEF HostReadsHello
      <4>2. down' \in [Sessions -> Seq({"ACK", "VIDEO"})]
        BY <3>3, SendType DEF HostReadsHello
      <4> QED BY <3>3, <4>1, <4>2 DEF HostReadsHello
    <3>4. CASE HostReadsFrame
      <4>1. wire' \in [Sessions -> Seq(Chunks)]
        BY <3>4, ConsumeType DEF HostReadsFrame
      <4> QED BY <3>4, <4>1 DEF HostReadsFrame
    <3>5. CASE HostSendsVideo
      <4>1. down' \in [Sessions -> Seq({"ACK", "VIDEO"})]
        BY <3>5, SendType DEF HostSendsVideo
      <4> QED BY <3>5, <4>1 DEF HostSendsVideo
    <3>6. CASE HostExits BY <3>6 DEF HostExits, Reset
    <3> QED BY <2>7, <3>1, <3>2, <3>3, <3>4, <3>5, <3>6 DEF Host
  <2>8. ASSUME NEW s \in Sessions, LinkDrops(s) PROVE TypeOK'
    BY <2>8 DEF LinkDrops, Reset, Sessions
  <2>9. CASE UNCHANGED vars BY <2>9 DEF vars
  <2> QED BY <2>1, <2>2, <2>3, <2>4, <2>5, <2>6, <2>7, <2>8, <2>9 DEF Next
<1> QED BY <1>1, <1>2, PTL DEF Spec
-----------------------------------------------------------------------------
(* One connection at a time.  `socket' and the client thread's own `sock'  *)
(* are written under different rules: disconnect() clears the former from  *)
(* any thread at any moment, even before it was set.  The invariant says,  *)
(* for each stretch of the client thread's program, which of the two will  *)
(* get the session closed.                                                 *)
Published == {"readAck", "up", "receive", "read", "room", "evict", "teardown",
              "release", "caught", "closeFailed"}
SocketInv ==
  /\ socket \in {0, sock}
  /\ \A s \in 1..sock : s = sock \/ s \in closed
  /\ pc \in BetweenSessions \cup {"drain", "unpublish"} => sock = 0 \/ sock \in closed
  /\ pc \in BetweenSessions \cup {"opened", "publish", "drain"} => socket = 0
  /\ pc \in Published => socket = sock \/ sock \in closed

\* `socket', `sock' and the closed sockets agree at every point of run()
\* (Client.kt:99-174), whoever calls disconnect() there.
LEMMA SocketInvariant == Spec => []SocketInv
<1>1. Init => SocketInv
  BY DEF Init, SocketInv, BetweenSessions, Published
<1>2. TypeOK /\ SocketInv /\ [Next]_vars => SocketInv'
  <2> SUFFICES ASSUME TypeOK, SocketInv, [Next]_vars PROVE SocketInv'
    OBVIOUS
  <2> sock \in Nat /\ MaxSessions \in Nat
    BY BoundsAssumption DEF TypeOK
  <2> pc \notin BetweenSessions => sock # 0
    BY DEF TypeOK
  <2> USE DEF SocketInv, BetweenSessions, Published, fields, thread, network
  <2>1. CASE Run
    <3> USE DEF Go
    <3>1. CASE LoopCheck BY <3>1 DEF LoopCheck
    <3>2. CASE ConnectOk BY <3>2 DEF ConnectOk
    <3>3. CASE ConnectFails BY <3>3 DEF ConnectFails
    <3>4. CASE StopBeforePublish BY <3>4 DEF StopBeforePublish
    <3>5. CASE Publish BY <3>5 DEF Publish
    <3>6. CASE ReadAck BY <3>6 DEF ReadAck
    <3>7. CASE AckFails BY <3>7 DEF AckFails
    <3>8. CASE Up BY <3>8 DEF Up
    <3>9. CASE ReceiveCheck BY <3>9 DEF ReceiveCheck
    <3>10. CASE ReadFrame BY <3>10 DEF ReadFrame
    <3>11. CASE ReadFails BY <3>11 DEF ReadFails
    <3>12. CASE SeeFull BY <3>12 DEF SeeFull
    <3>13. CASE Evict BY <3>13 DEF Evict
    <3>14. CASE AddFrame BY <3>14 DEF AddFrame
    <3>15. CASE Teardown BY <3>15 DEF Teardown
    <3>16. CASE Release BY <3>16 DEF Release
    <3>17. CASE Drain BY <3>17 DEF Drain
    <3>18. CASE Caught BY <3>18 DEF Caught
    <3>19. CASE CloseFailed BY <3>19 DEF CloseFailed
    <3>20. CASE Unpublish BY <3>20 DEF Unpublish
    <3>21. CASE CheckStop BY <3>21 DEF CheckStop
    <3>22. CASE Backoff BY <3>22 DEF Backoff
    <3>23. CASE SleepOver BY <3>23 DEF SleepOver
    <3>24. CASE SleepInterrupted BY <3>24 DEF SleepInterrupted
    <3> QED BY <2>1, <3>1, <3>2, <3>3, <3>4, <3>5, <3>6, <3>7, <3>8, <3>9, <3>10, <3>11, <3>12, <3>13, <3>14, <3>15, <3>16, <3>17, <3>18, <3>19, <3>20, <3>21, <3>22, <3>23, <3>24 DEF Run
  <2>2. ASSUME NEW t \in Threads, Call(t) PROVE SocketInv'
    <3>1. CASE LookupOut(t) BY <3>1 DEF LookupOut
    <3>2. CASE EnterMonitor(t) BY <3>2 DEF EnterMonitor
    <3>3. CASE WriteHeader(t) BY <3>3 DEF WriteHeader, Put
    <3>4. CASE WritePayload(t) BY <3>4 DEF WritePayload, Put
    <3>5. CASE WriteFails(t) BY <3>5 DEF WriteFails
    <3>6. CASE SetStop(t) BY <3>6 DEF SetStop
    <3>7. CASE ClearConnected(t) BY <3>7 DEF ClearConnected
    <3>8. CASE CloseSocket(t) BY <3>8 DEF CloseSocket
    <3>9. CASE Interrupt(t) BY <3>9 DEF Interrupt
    <3> QED BY <2>2, <3>1, <3>2, <3>3, <3>4, <3>5, <3>6, <3>7, <3>8, <3>9 DEF Call, SendRaw, Disconnect
  <2>3. CASE TakeFrame BY <2>3 DEF TakeFrame
  <2>4. ASSUME NEW f \in Feeds, FeedRequestsKeyframe(f) PROVE SocketInv'
    BY <2>4 DEF FeedRequestsKeyframe
  <2>5. CASE UiSendsInput BY <2>5 DEF UiSendsInput
  <2>6. CASE UserDisconnects BY <2>6 DEF UserDisconnects
  <2>7. CASE Host
    BY <2>7 DEF Host, HostStarts, HostAccepts, HostReadsHello, HostReadsFrame,
                HostSendsVideo, HostExits
  <2>8. ASSUME NEW s \in Sessions, LinkDrops(s) PROVE SocketInv'
    BY <2>8 DEF LinkDrops
  <2>9. CASE UNCHANGED vars BY <2>9 DEF vars
  <2> QED BY <2>1, <2>2, <2>3, <2>4, <2>5, <2>6, <2>7, <2>8, <2>9 DEF Next
<1> QED BY <1>1, <1>2, TypeCorrect, PTL DEF Spec

(* For any number of sessions, however disconnect() and failed writes of   *)
(* other threads interleave with a connection attempt, no two sockets are  *)
(* open at once and none is left open between attempts or at the end.      *)
THEOREM OneConnectionHolds == Spec => []OneConnection
<1>1. TypeOK /\ SocketInv => OneConnection
  BY DEF TypeOK, SocketInv, OneConnection
<1> QED BY <1>1, SocketInvariant, TypeCorrect, PTL
-----------------------------------------------------------------------------
(* The video queue and the `connected' flag between sessions.  Both are    *)
(* set only in a stretch of the client thread's program that ends in run's *)
(* own cleanup, so what disconnect() did to them in between cannot matter. *)
Receiving == {"receive", "read", "room", "evict", "teardown"}
QueueInv ==
  /\ Len(frames) <= MaxQueue
  /\ \A i \in 1..Len(frames) : frames[i] = sock
  /\ frames # <<>> => pc \in Receiving \cup {"release", "drain"}
  /\ connected => pc \in Receiving

\* The queue and `connected' live inside one session (Client.kt:107-119).
LEMMA QueueInvariant == Spec => []QueueInv
<1> USE BoundsAssumption
<1>1. Init => QueueInv
  BY DEF Init, QueueInv
<1>2. TypeOK /\ QueueInv /\ [Next]_vars => QueueInv'
  <2> SUFFICES ASSUME TypeOK, QueueInv, [Next]_vars PROVE QueueInv'
    OBVIOUS
  <2> frames \in Seq(Sessions) /\ Len(frames) \in Nat
    BY DEF TypeOK
  <2> USE DEF QueueInv, Receiving, fields, thread
  <2>1. CASE Run
    <3> USE DEF Go
    <3>1. CASE LoopCheck BY <3>1 DEF LoopCheck
    <3>2. CASE ConnectOk BY <3>2 DEF ConnectOk
    <3>3. CASE ConnectFails BY <3>3 DEF ConnectFails
    <3>4. CASE StopBeforePublish BY <3>4 DEF StopBeforePublish
    <3>5. CASE Publish BY <3>5 DEF Publish
    <3>6. CASE ReadAck BY <3>6 DEF ReadAck
    <3>7. CASE AckFails BY <3>7 DEF AckFails
    <3>8. CASE Up BY <3>8 DEF Up
    <3>9. CASE ReceiveCheck BY <3>9 DEF ReceiveCheck
    <3>10. CASE ReadFrame BY <3>10 DEF ReadFrame
    <3>11. CASE ReadFails BY <3>11 DEF ReadFails
    <3>12. CASE SeeFull BY <3>12 DEF SeeFull
    <3>13. CASE Evict
      <4>1. CASE frames = <<>> BY <3>13, <4>1 DEF Evict
      <4>2. CASE frames # <<>> BY <3>13, <4>2 DEF Evict
      <4> QED BY <4>1, <4>2
    <3>14. CASE AddFrame BY <3>14 DEF AddFrame
    <3>15. CASE Teardown BY <3>15 DEF Teardown
    <3>16. CASE Release BY <3>16 DEF Release
    <3>17. CASE Drain BY <3>17 DEF Drain
    <3>18. CASE Caught BY <3>18 DEF Caught
    <3>19. CASE CloseFailed BY <3>19 DEF CloseFailed
    <3>20. CASE Unpublish BY <3>20 DEF Unpublish
    <3>21. CASE CheckStop BY <3>21 DEF CheckStop
    <3>22. CASE Backoff BY <3>22 DEF Backoff
    <3>23. CASE SleepOver BY <3>23 DEF SleepOver
    <3>24. CASE SleepInterrupted BY <3>24 DEF SleepInterrupted
    <3> QED BY <2>1, <3>1, <3>2, <3>3, <3>4, <3>5, <3>6, <3>7, <3>8, <3>9, <3>10, <3>11, <3>12, <3>13, <3>14, <3>15, <3>16, <3>17, <3>18, <3>19, <3>20, <3>21, <3>22, <3>23, <3>24 DEF Run
  <2>2. ASSUME NEW t \in Threads, Call(t) PROVE QueueInv'
    <3>1. CASE LookupOut(t) BY <3>1 DEF LookupOut
    <3>2. CASE EnterMonitor(t) BY <3>2 DEF EnterMonitor
    <3>3. CASE WriteHeader(t) BY <3>3 DEF WriteHeader
    <3>4. CASE WritePayload(t) BY <3>4 DEF WritePayload
    <3>5. CASE WriteFails(t) BY <3>5 DEF WriteFails
    <3>6. CASE SetStop(t) BY <3>6 DEF SetStop
    <3>7. CASE ClearConnected(t) BY <3>7 DEF ClearConnected
    <3>8. CASE CloseSocket(t) BY <3>8 DEF CloseSocket
    <3>9. CASE Interrupt(t) BY <3>9 DEF Interrupt
    <3> QED BY <2>2, <3>1, <3>2, <3>3, <3>4, <3>5, <3>6, <3>7, <3>8, <3>9 DEF Call, SendRaw, Disconnect
  <2>3. CASE TakeFrame BY <2>3 DEF TakeFrame
  <2>4. ASSUME NEW f \in Feeds, FeedRequestsKeyframe(f) PROVE QueueInv'
    BY <2>4 DEF FeedRequestsKeyframe
  <2>5. CASE UiSendsInput BY <2>5 DEF UiSendsInput
  <2>6. CASE UserDisconnects BY <2>6 DEF UserDisconnects
  <2>7. CASE Host
    BY <2>7 DEF Host, HostStarts, HostAccepts, HostReadsHello, HostReadsFrame,
                HostSendsVideo, HostExits
  <2>8. ASSUME NEW s \in Sessions, LinkDrops(s) PROVE QueueInv'
    BY <2>8 DEF LinkDrops
  <2>9. CASE UNCHANGED vars BY <2>9 DEF vars
  <2> QED BY <2>1, <2>2, <2>3, <2>4, <2>5, <2>6, <2>7, <2>8, <2>9 DEF Next
<1> QED BY <1>1, <1>2, TypeCorrect, PTL DEF Spec

(* For every queue bound, the queue keeps it although feed threads poll    *)
(* between the size test and the eviction, and holds frames of the current *)
(* session only.                                                           *)
THEOREM CurrentFramesHolds == Spec => []CurrentFrames
<1>1. QueueInv => CurrentFrames BY DEF QueueInv, CurrentFrames
<1> QED BY <1>1, QueueInvariant, PTL

(* When run() ends, nothing of the last session is left, whichever way a   *)
(* disconnect() crossed the handshake.                                     *)
THEOREM StoppedCleanHolds == Spec => []StoppedClean
<1>1. SocketInv /\ QueueInv => StoppedClean
  BY DEF SocketInv, QueueInv, StoppedClean, BetweenSessions, Receiving
<1> QED BY <1>1, SocketInvariant, QueueInvariant, PTL
-----------------------------------------------------------------------------
(* Whole frames on the wire.  Two threads inside sendRaw() on one stream   *)
(* exclude each other (MonitorInv); a thread between its two writes finds  *)
(* its header at the end of the buffer (LastInv); so a payload always      *)
(* lands behind its own header (WireInv).                                  *)
MonitorInv ==
  \A t \in Threads :
    /\ step[t] \in {"enter", "header", "payload"} => stream[t] \in Sessions
    /\ step[t] \in {"header", "payload"} => monitor[stream[t]] = t
    /\ step[t] = "payload" => HasPayload(msg[t])

LastInv ==
  \A t \in Threads :
    step[t] = "payload" /\ stream[t] \notin Dead =>
      LET w == wire[stream[t]]
      IN  Len(w) > 0 /\ w[Len(w)] = [type |-> msg[t], part |-> "header", by |-> t]

WireInv ==
  \A s \in Sessions : \A i \in 1..Len(wire[s]) :
    /\ wire[s][i].part = "header" /\ HasPayload(wire[s][i].type)
         => FollowedByPayload(s, i)
    /\ wire[s][i].part = "payload" =>
         /\ i > 1 /\ wire[s][i] = [wire[s][i - 1] EXCEPT !.part = "payload"]
         /\ wire[s][i - 1].part = "header" /\ HasPayload(wire[s][i].type)

FramingInv == MonitorInv /\ LastInv /\ WireInv

(* A step that leaves the buffers and the threads between two writes alone *)
(* leaves the frames whole; a socket that dies excuses its last header.    *)
LEMMA FramesUndisturbed ==
  ASSUME TypeOK, LastInv, WireInv, UNCHANGED wire,
         closed \subseteq closed', broken \subseteq broken',
         \A t \in Threads : step[t] = "payload" /\ stream[t] \notin Dead' =>
           step'[t] = "payload" /\ stream'[t] = stream[t] /\ msg'[t] = msg[t],
         \A t \in Threads : step'[t] = "payload" =>
           step[t] = "payload" /\ stream'[t] = stream[t] /\ msg'[t] = msg[t]
  PROVE  LastInv' /\ WireInv'
<1>1. LastInv'
  BY DEF LastInv, Dead
<1>2. ASSUME NEW s \in Sessions, NEW i \in 1..Len(wire[s]), FollowedByPayload(s, i)
      PROVE  FollowedByPayload(s, i)'
  <2>1. wire[s][i].by \in Threads
    <3>1. wire[s] \in Seq(Chunks) BY DEF TypeOK
    <3>2. wire[s][i] \in Chunks BY <3>1
    <3> QED BY <3>2 DEF Chunks
  <2> QED BY <1>2, <2>1 DEF FollowedByPayload, Dead
<1>3. WireInv'
  BY <1>2 DEF WireInv
<1> QED BY <1>1, <1>3

(* Appending the next chunk of a frame.                                    *)
LEMMA FramesAfterPut ==
  ASSUME TypeOK, FramingInv, NEW t \in Threads, NEW part \in {"header", "payload"},
         step[t] = part, Put(t, part),
         UNCHANGED <<closed, broken, msg>>,
         \A u \in Threads \ {t} : step'[u] = step[u] /\ stream'[u] = stream[u],
         part = "payload" \/ ~HasPayload(msg[t]) => step'[t] = "idle",
         part = "header" /\ HasPayload(msg[t]) =>
           step'[t] = "payload" /\ stream'[t] = stream[t]
  PROVE  LastInv' /\ WireInv'
<1>0. PICK s \in Sessions : s = stream[t]
  BY DEF FramingInv, MonitorInv
<1> DEFINE c == [type |-> msg[t], part |-> part, by |-> t]
           w == wire[s]
<1>1. /\ s \notin Dead /\ s \notin Dead' /\ monitor[s] = t
      /\ w \in Seq(Chunks) /\ Len(w) \in Nat
  BY <1>0 DEF FramingInv, MonitorInv, Put, Dead, TypeOK
<1>2. /\ wire' = [wire EXCEPT ![s] = Append(w, c)]
      /\ wire'[s] = Append(w, c)
      /\ \A r \in Sessions \ {s} : wire'[r] = wire[r]
  BY <1>0, <1>1 DEF Put, TypeOK
<1>3. /\ Len(wire'[s]) = Len(w) + 1
      /\ \A i \in 1..Len(w) : wire'[s][i] = w[i]
      /\ wire'[s][Len(w) + 1] = c
  BY <1>1, <1>2
<1>4. \A u \in Threads \ {t} : step[u] = "payload" => stream[u] # s
  BY <1>1 DEF FramingInv, MonitorInv
<1> HIDE DEF w, c
<1>5. LastInv'
  <2> SUFFICES ASSUME NEW u \in Threads, step'[u] = "payload", stream'[u] \notin Dead'
               PROVE  /\ Len(wire'[stream'[u]]) > 0
                      /\ wire'[stream'[u]][Len(wire'[stream'[u]])] =
                           [type |-> msg'[u], part |-> "header", by |-> u]
    BY DEF LastInv
  <2>1. CASE u = t
    <3>1. part = "header" /\ stream'[u] = s
      BY <2>1, <1>0
    <3> QED BY <2>1, <3>1, <1>1, <1>3 DEF c
  <2>2. CASE u # t
    <3>1. step[u] = "payload" /\ stream'[u] = stream[u] /\ stream[u] # s
      BY <2>2, <1>4
    <3>2. stream[u] \in Sessions /\ stream[u] \notin Dead
      BY <3>1 DEF FramingInv, MonitorInv, Dead
    <3> QED BY <3>1, <3>2, <1>2 DEF FramingInv, LastInv
  <2> QED BY <2>1, <2>2
<1>6. ASSUME NEW r \in Sessions, NEW i \in 1..Len(wire'[r]), r # s
      PROVE  /\ wire'[r][i].part = "header" /\ HasPayload(wire'[r][i].type)
                  => FollowedByPayload(r, i)'
             /\ wire'[r][i].part = "payload" =>
                  /\ i > 1 /\ wire'[r][i] = [wire'[r][i - 1] EXCEPT !.part = "payload"]
                  /\ wire'[r][i - 1].part = "header" /\ HasPayload(wire'[r][i].type)
  <2>1. wire'[r] = wire[r] BY <1>2, <1>6
  <2>2. wire[r][i].by \in Threads
    <3>1. wire[r] \in Seq(Chunks) BY DEF TypeOK
    <3>2. wire[r][i] \in Chunks BY <2>1, <3>1
    <3> QED BY <3>2 DEF Chunks
  <2>3. FollowedByPayload(r, i) => FollowedByPayload(r, i)'
    <3>1. step[t] = "payload" => stream[t] # r BY <1>0, <1>6
    <3> QED BY <2>1, <2>2, <3>1 DEF FollowedByPayload, Dead
  <2> QED BY <2>1, <2>3 DEF FramingInv, WireInv
<1>7. ASSUME NEW i \in 1..Len(wire'[s])
      PROVE  /\ wire'[s][i].part = "header" /\ HasPayload(wire'[s][i].type)
                  => FollowedByPayload(s, i)'
             /\ wire'[s][i].part = "payload" =>
                  /\ i > 1 /\ wire'[s][i] = [wire'[s][i - 1] EXCEPT !.part = "payload"]
                  /\ wire'[s][i - 1].part = "header" /\ HasPayload(wire'[s][i].type)
  <2>1. part = "payload" => /\ Len(w) > 0 /\ HasPayload(msg[t])
                            /\ w[Len(w)] = [type |-> msg[t], part |-> "header", by |-> t]
    BY <1>0, <1>1 DEF FramingInv, LastInv, MonitorInv, w
  <2>2. CASE i \in 1..Len(w)
    <3>1. wire'[s][i] = w[i] /\ w[i] \in Chunks /\ (i > 1 => wire'[s][i - 1] = w[i - 1])
      BY <2>2, <1>1, <1>3
    <3>2. ASSUME w[i].part = "header", HasPayload(w[i].type)
          PROVE  FollowedByPayload(s, i)'
      <4>1. FollowedByPayload(s, i) BY <1>1, <2>2, <3>2 DEF FramingInv, WireInv, w
      <4>2. CASE i < Len(w)
        <5>1. w[i + 1] = [w[i] EXCEPT !.part = "payload"]
          BY <4>1, <4>2, <1>1 DEF FollowedByPayload, w
        <5>2. i + 1 \in 1..Len(w) /\ i < Len(wire'[s])
          BY <4>2, <2>2, <1>1, <1>3
        <5>3. wire'[s][i + 1] = [wire'[s][i] EXCEPT !.part = "payload"]
          BY <5>1, <5>2, <3>1, <1>3
        <5> QED BY <5>2, <5>3 DEF FollowedByPayload
      <4>3. CASE i = Len(w)
        <5>1. /\ step[w[i].by] = "payload" /\ stream[w[i].by] = s
              /\ w[i].by \in Threads
          BY <4>1, <4>3, <3>1, <1>1 DEF FollowedByPayload, w, Chunks
        <5>2. w[i].by = t BY <5>1, <1>4
        <5>3. wire'[s][i + 1] = [wire'[s][i] EXCEPT !.part = "payload"]
          BY <5>1, <5>2, <2>1, <4>3, <3>1, <1>3 DEF c
        <5> QED BY <5>3, <4>3, <1>1, <1>3 DEF FollowedByPayload
      <4> QED BY <4>2, <4>3, <2>2, <1>1
    <3>3. w[i].part = "payload" =>
            /\ i > 1 /\ w[i] = [w[i - 1] EXCEPT !.part = "payload"]
            /\ w[i - 1].part = "header" /\ HasPayload(w[i].type)
      BY <1>1, <2>2 DEF FramingInv, WireInv, w
    <3> QED BY <3>1, <3>2, <3>3
  <2>3. CASE i = Len(w) + 1
    <3>1. wire'[s][i] = c BY <2>3, <1>3
    <3>2. CASE part = "header"
      <4>1. HasPayload(msg[t]) => FollowedByPayload(s, i)'
        BY <3>1, <3>2, <2>3, <1>1, <1>0, <1>3 DEF FollowedByPayload, c
      <4> QED BY <4>1, <3>1, <3>2 DEF c
    <3>3. CASE part = "payload"
      <4>1. wire'[s][i - 1] = w[Len(w)] BY <2>1, <3>3, <2>3, <1>1, <1>3
      <4> QED BY <4>1, <3>1, <3>3, <2>1, <2>3, <1>1 DEF c
    <3> QED BY <3>2, <3>3
  <2> QED BY <2>2, <2>3, <1>1, <1>3
<1>8. WireInv'
  <2> SUFFICES ASSUME NEW r \in Sessions, NEW i \in 1..Len(wire'[r])
      PROVE  /\ wire'[r][i].part = "header" /\ HasPayload(wire'[r][i].type)
                  => FollowedByPayload(r, i)'
             /\ wire'[r][i].part = "payload" =>
                  /\ i > 1 /\ wire'[r][i] = [wire'[r][i - 1] EXCEPT !.part = "payload"]
                  /\ wire'[r][i - 1].part = "header" /\ HasPayload(wire'[r][i].type)
    BY DEF WireInv
  <2>1. CASE r # s BY <2>1, <1>6
  <2>2. CASE r = s BY <2>2, <1>7
  <2> QED BY <2>1, <2>2
<1> QED BY <1>5, <1>8

(* The host takes a whole frame off the front.                             *)
LEMMA FramesAfterConsume ==
  ASSUME TypeOK, FramingInv, FrameReady, ConsumeFrame,
         UNCHANGED <<closed, broken, step, stream, msg>>
  PROVE  LastInv' /\ WireInv'
<1>1. CASE hostConn \notin Sessions
  <2>1. UNCHANGED wire BY <1>1 DEF ConsumeFrame, TypeOK
  <2> QED BY <2>1, FramesUndisturbed DEF FramingInv
<1>2. CASE hostConn \in Sessions
  <2>0. PICK s \in Sessions : s = hostConn
    BY <1>2
  <2> DEFINE w == wire[s]
             n == FrameLen(w)
  <2>1. /\ w \in Seq(Chunks) /\ Len(w) \in Nat /\ n \in {1, 2}
        /\ Len(w) >= n
    BY <2>0 DEF TypeOK, FrameReady, FrameLen
  <2>2. w[1] = Head(w) /\ (n = 2 <=> HasPayload(w[1].type))
    BY <2>1 DEF FrameLen
  <2>3. /\ wire' = [wire EXCEPT ![s] = SubSeq(w, n + 1, Len(w))]
        /\ wire'[s] = SubSeq(w, n + 1, Len(w))
        /\ \A r \in Sessions \ {s} : wire'[r] = wire[r]
    BY <2>0 DEF ConsumeFrame, TypeOK
  <2>4. \A i \in 1..Len(w) :
          /\ w[i] \in Chunks
          /\ w[i].part = "header" /\ HasPayload(w[i].type) => FollowedByPayload(s, i)
          /\ w[i].part = "payload" =>
               /\ i > 1 /\ w[i] = [w[i - 1] EXCEPT !.part = "payload"]
               /\ w[i - 1].part = "header" /\ HasPayload(w[i].type)
    BY <2>1 DEF FramingInv, WireInv
  <2> HIDE DEF n
  <2>10. \A i \in 1..Len(w) : w[i] \in Chunks /\ (i = 1 => w[i].part # "payload")
    <3> HIDE DEF w
    <3>1. \A i \in 1..Len(w) : w[i] \in Chunks /\ (w[i].part = "payload" => i > 1)
      BY <2>4, Zenon
    <3> QED BY <3>1
  <2>5. /\ Len(wire'[s]) = Len(w) - n
        /\ \A i \in 1..(Len(w) - n) : wire'[s][i] = w[i + n]
    <3> HIDE DEF w
    <3>1. \A i \in (n + 1)..Len(w) : w[i] \in Chunks BY <2>1, <2>4
    <3>2. /\ Len(SubSeq(w, n + 1, Len(w))) = Len(w) - n
          /\ \A i \in 1..(Len(w) - n) : SubSeq(w, n + 1, Len(w))[i] = w[i + n]
      BY <3>1, <2>1, SubSeqProperties
    <3> QED BY <3>2, <2>3
  <2>6. n + 1 \in 1..Len(w) => w[n + 1].part # "payload"
    <3> SUFFICES ASSUME n + 1 \in 1..Len(w), w[n + 1].part = "payload" PROVE FALSE
      OBVIOUS
    <3>1. /\ w[n + 1] = [w[n] EXCEPT !.part = "payload"]
          /\ w[n].part = "header" /\ HasPayload(w[n + 1].type)
      BY <2>1, <2>4
    <3>2. w[n] \in Chunks BY <2>1, <2>4
    <3>3. HasPayload(w[n].type) BY <3>1, <3>2 DEF Chunks
    <3>4. CASE n = 1 BY <3>3, <3>4, <2>2
    <3>5. CASE n = 2
      <4>0. 1 \in 1..Len(w) BY <2>1
      <4>1. w[1] \in Chunks /\ w[1].part # "payload" BY <4>0, <2>10
      <4>2. w[1].part = "header" BY <4>1 DEF Chunks
      <4>3. FollowedByPayload(s, 1) BY <4>0, <4>2, <3>5, <2>2, <2>4
      <4>4. w[2] = [w[1] EXCEPT !.part = "payload"]
        BY <4>3, <3>5, <2>1 DEF FollowedByPayload
      <4>5. w[2].part = "payload" BY <4>1, <4>4 DEF Chunks
      <4> QED BY <4>5, <3>1, <3>5
    <3> QED BY <3>4, <3>5, <2>1
  <2>7. ASSUME NEW t \in Threads, step[t] = "payload", stream[t] = s, s \notin Dead
        PROVE  /\ Len(wire'[s]) > 0
               /\ wire'[s][Len(wire'[s])] = w[Len(w)]
    <3>1. /\ Len(w) > 0 /\ HasPayload(msg[t])
          /\ w[Len(w)] = [type |-> msg[t], part |-> "header", by |-> t]
      BY <2>7 DEF FramingInv, LastInv, MonitorInv
    <3>2. Len(w) # n
      <4> SUFFICES ASSUME Len(w) = n PROVE FALSE
        OBVIOUS
      <4>1. CASE n = 1 BY <4>1, <3>1, <2>2
      <4>2. CASE n = 2
        <5>0. 1 \in 1..Len(w) BY <2>1
        <5>1. w[1] \in Chunks /\ w[1].part # "payload" BY <5>0, <2>10
        <5>2. w[1].part = "header" BY <5>1 DEF Chunks
        <5>3. FollowedByPayload(s, 1) BY <5>0, <5>2, <4>2, <2>2, <2>4
        <5>4. w[2] = [w[1] EXCEPT !.part = "payload"]
          BY <5>3, <4>2, <2>1 DEF FollowedByPayload
        <5>5. w[2].part = "payload" BY <5>1, <5>4 DEF Chunks
        <5> QED BY <5>5, <3>1, <4>2
      <4> QED BY <4>1, <4>2, <2>1
    <3> HIDE DEF w
    <3>3. Len(w) - n \in 1..(Len(w) - n) BY <3>2, <2>1
    <3> QED BY <3>3, <2>1, <2>5
  <2>8. LastInv'
    <3> SUFFICES ASSUME NEW u \in Threads, step[u] = "payload", stream[u] \notin Dead
                 PROVE  /\ Len(wire'[stream[u]]) > 0
                        /\ wire'[stream[u]][Len(wire'[stream[u]])] =
                             [type |-> msg[u], part |-> "header", by |-> u]
      BY DEF LastInv, Dead
    <3>1. stream[u] \in Sessions BY DEF FramingInv, MonitorInv
    <3>2. CASE stream[u] = s BY <3>2, <2>7 DEF FramingInv, LastInv
    <3>3. CASE stream[u] # s BY <3>1, <3>3, <2>3 DEF FramingInv, LastInv
    <3> QED BY <3>2, <3>3
  <2>9. WireInv'
    <3> SUFFICES ASSUME NEW r \in Sessions, NEW i \in 1..Len(wire'[r])
        PROVE  /\ wire'[r][i].part = "header" /\ HasPayload(wire'[r][i].type)
                    => FollowedByPayload(r, i)'
               /\ wire'[r][i].part = "payload" =>
                    /\ i > 1 /\ wire'[r][i] = [wire'[r][i - 1] EXCEPT !.part = "payload"]
                    /\ wire'[r][i - 1].part = "header" /\ HasPayload(wire'[r][i].type)
      BY DEF WireInv
    <3>1. CASE r # s
      <4>1. wire'[r] = wire[r] BY <3>1, <2>3
      <4>2. FollowedByPayload(r, i) => FollowedByPayload(r, i)'
        BY <4>1 DEF FollowedByPayload, Dead
      <4> QED BY <4>1, <4>2 DEF FramingInv, WireInv
    <3>2. CASE r = s
      <4> DEFINE j == i + n
      <4>1. /\ j \in 1..Len(w) /\ wire'[s][i] = w[j]
            /\ i > 1 => wire'[s][i - 1] = w[j - 1]
            /\ i < Len(wire'[s]) => wire'[s][i + 1] = w[j + 1]
            /\ i < Len(wire'[s]) <=> j < Len(w)
            /\ i = 1 <=> j = n + 1
        <5> HIDE DEF w
        <5>1. i \in 1..(Len(w) - n) /\ Len(wire'[s]) = Len(w) - n
          BY <3>2, <2>5
        <5>2. j \in 1..Len(w) BY <5>1, <2>1
        <5>3. wire'[s][i] = w[j] BY <5>1, <2>5
        <5>4. i > 1 => wire'[s][i - 1] = w[j - 1]
          <6> SUFFICES ASSUME i > 1 PROVE wire'[s][i - 1] = w[j - 1]
            OBVIOUS
          <6>1. i - 1 \in 1..(Len(w) - n) BY <5>1, <2>1
          <6>2. wire'[s][i - 1] = w[(i - 1) + n] BY <6>1, <2>5
          <6>3. (i - 1) + n = j - 1 BY <5>1, <2>1
          <6> QED BY <6>2, <6>3
        <5>5. i < Len(wire'[s]) => wire'[s][i + 1] = w[j + 1]
          <6> SUFFICES ASSUME i < Len(wire'[s]) PROVE wire'[s][i + 1] = w[j + 1]
            OBVIOUS
          <6>1. i + 1 \in 1..(Len(w) - n) BY <5>1, <2>1
          <6>2. wire'[s][i + 1] = w[(i + 1) + n] BY <6>1, <2>5
          <6>3. (i + 1) + n = j + 1 BY <5>1, <2>1
          <6> QED BY <6>2, <6>3
        <5>6. (i < Len(wire'[s]) <=> j < Len(w)) /\ (i = 1 <=> j = n + 1)
          BY <5>1, <2>1
        <5> QED BY <5>2, <5>3, <5>4, <5>5, <5>6
      <4>2. FollowedByPayload(s, j) => FollowedByPayload(s, i)'
        <5>1. CASE j < Len(w)
          <6>1. FollowedByPayload(s, j) => w[j + 1] = [w[j] EXCEPT !.part = "payload"]
            BY <5>1, <2>1 DEF FollowedByPayload
          <6> HIDE DEF w, j
          <6> QED BY <5>1, <6>1, <4>1 DEF FollowedByPayload
        <5>2. CASE j = Len(w)
          <6>1. i = Len(wire'[s])
            <7> HIDE DEF w
            <7> QED BY <5>2, <4>1, <2>1, <2>5, <3>2
          <6>2. FollowedByPayload(s, j) =>
                  \/ s \in Dead
                  \/ LET t == w[j].by
                     IN  step[t] = "payload" /\ stream[t] = s /\ msg[t] = w[j].type
            BY <5>2, <2>1 DEF FollowedByPayload
          <6> HIDE DEF w, j
          <6> QED BY <6>1, <6>2, <4>1 DEF FollowedByPayload, Dead
        <5> HIDE DEF w, j
        <5> QED BY <5>1, <5>2, <4>1, <2>1
      <4>3. w[j].part = "payload" => i > 1
        BY <4>1, <2>6, <3>2
      <4> HIDE DEF w, j
      <4> QED BY <4>1, <4>2, <4>3, <2>4, <3>2
    <3> QED BY <3>1, <3>2
  <2> QED BY <2>8, <2>9
<1> QED BY <1>1, <1>2

\* Every operation on a socket buffer keeps the frames whole
\* (Client.kt:281-294).
LEMMA FramingInvariant == Spec => []FramingInv
<1>1. Init => FramingInv
  <2> SUFFICES ASSUME Init PROVE FramingInv
    OBVIOUS
  <2>1. \A t \in Threads : step[t] = "idle" BY DEF Init
  <2>2. \A s \in Sessions : Len(wire[s]) = 0 BY DEF Init
  <2> QED BY <2>1, <2>2 DEF FramingInv, MonitorInv, LastInv, WireInv
<1>2. TypeOK /\ FramingInv /\ [Next]_vars => FramingInv'
  <2> SUFFICES ASSUME TypeOK, FramingInv, [Next]_vars PROVE FramingInv'
    OBVIOUS
  <2> USE DEF FramingInv, fields, thread, calls, network, host, user
  <2> Client \in Threads /\ Ui \in Threads /\ NoThread \notin Threads
    BY ThreadsAssumption DEF Threads
  <2>0. ASSUME UNCHANGED <<step, stream, msg, monitor, wire>>,
               closed \subseteq closed', broken \subseteq broken'
        PROVE  FramingInv'
    <3>1. MonitorInv' BY <2>0 DEF MonitorInv
    <3>2. LastInv' /\ WireInv' BY <2>0, FramesUndisturbed
    <3> QED BY <3>1, <3>2
  <2>1. ASSUME NEW t \in Threads, NEW m \in Messages, step[t] = "idle", StartSend(t, m),
               UNCHANGED <<monitor, wire, closed, broken>>
        PROVE  FramingInv'
    <3>1. /\ step'[t] = "lookup"
          /\ \A u \in Threads \ {t} : step'[u] = step[u] /\ msg'[u] = msg[u]
          /\ stream' = stream
      BY <2>1 DEF StartSend, TypeOK
    <3>2. MonitorInv' BY <2>1, <3>1 DEF MonitorInv
    <3>3. LastInv' /\ WireInv' BY <2>1, <3>1, FramesUndisturbed
    <3> QED BY <3>2, <3>3
  <2>10. ASSUME NEW S, Reset(S), UNCHANGED <<step, stream, msg, monitor, closed>>
         PROVE  FramingInv'
    <3>1. MonitorInv' BY <2>10 DEF MonitorInv
    <3>2. LastInv' BY <2>10 DEF LastInv, MonitorInv, Reset, Dead
    <3>3. WireInv'
      <4> SUFFICES ASSUME NEW r \in Sessions, NEW i \in 1..Len(wire'[r])
          PROVE  /\ wire'[r][i].part = "header" /\ HasPayload(wire'[r][i].type)
                      => FollowedByPayload(r, i)'
                 /\ wire'[r][i].part = "payload" =>
                      /\ i > 1 /\ wire'[r][i] = [wire'[r][i - 1] EXCEPT !.part = "payload"]
                      /\ wire'[r][i - 1].part = "header" /\ HasPayload(wire'[r][i].type)
        BY DEF WireInv
      <4>1. CASE r \in S BY <2>10, <4>1 DEF Reset
      <4>2. CASE r \notin S
        <5>1. wire'[r] = wire[r] BY <2>10, <4>2 DEF Reset
        <5>2. FollowedByPayload(r, i) => FollowedByPayload(r, i)'
          BY <5>1, <2>10 DEF FollowedByPayload, Dead, Reset
        <5> QED BY <5>1, <5>2 DEF WireInv
      <4> QED BY <4>1, <4>2
    <3> QED BY <3>1, <3>2, <3>3
  <2>2. CASE Run
    <3> USE DEF Go
    <3>1. CASE LoopCheck BY <3>1, <2>0 DEF LoopCheck
    <3>2. CASE ConnectOk BY <3>2, <2>0 DEF ConnectOk
    <3>3. CASE ConnectFails BY <3>3, <2>0 DEF ConnectFails
    <3>4. CASE StopBeforePublish BY <3>4, <2>0 DEF StopBeforePublish
    <3>5. CASE Publish BY <3>5, <2>1 DEF Publish, Messages
    <3>6. CASE ReadAck BY <3>6, <2>0 DEF ReadAck
    <3>7. CASE AckFails BY <3>7, <2>0 DEF AckFails
    <3>8. CASE Up BY <3>8, <2>1 DEF Up, Messages
    <3>9. CASE ReceiveCheck BY <3>9, <2>0 DEF ReceiveCheck
    <3>10. CASE ReadFrame BY <3>10, <2>0 DEF ReadFrame
    <3>11. CASE ReadFails BY <3>11, <2>0 DEF ReadFails
    <3>12. CASE SeeFull BY <3>12, <2>0 DEF SeeFull
    <3>13. CASE Evict BY <3>13, <2>0 DEF Evict
    <3>14. CASE AddFrame BY <3>14, <2>0 DEF AddFrame
    <3>15. CASE Teardown BY <3>15, <2>0 DEF Teardown
    <3>16. CASE Release BY <3>16, <2>0 DEF Release
    <3>17. CASE Drain BY <3>17, <2>0 DEF Drain
    <3>18. CASE Caught BY <3>18, <2>0 DEF Caught
    <3>19. CASE CloseFailed BY <3>19, <2>0 DEF CloseFailed
    <3>20. CASE Unpublish BY <3>20, <2>0 DEF Unpublish
    <3>21. CASE CheckStop BY <3>21, <2>0 DEF CheckStop
    <3>22. CASE Backoff BY <3>22, <2>0 DEF Backoff
    <3>23. CASE SleepOver BY <3>23, <2>0 DEF SleepOver
    <3>24. CASE SleepInterrupted BY <3>24, <2>0 DEF SleepInterrupted
    <3> QED BY <2>2, <3>1, <3>2, <3>3, <3>4, <3>5, <3>6, <3>7, <3>8, <3>9, <3>10, <3>11, <3>12, <3>13, <3>14, <3>15, <3>16, <3>17, <3>18, <3>19, <3>20, <3>21, <3>22, <3>23, <3>24 DEF Run
  <2>3. ASSUME NEW t \in Threads, Call(t) PROVE FramingInv'
    <3>0. ASSUME step[t] # "payload", UNCHANGED <<wire, msg>>,
                 closed \subseteq closed', broken \subseteq broken', step'[t] # "payload",
                 \A u \in Threads \ {t} : step'[u] = step[u] /\ stream'[u] = stream[u]
          PROVE  LastInv' /\ WireInv'
      BY <3>0, FramesUndisturbed
    <3>1. CASE LookupOut(t)
      <4>1. /\ step[t] = "lookup" /\ msg' = msg /\ monitor' = monitor
            /\ step'[t] \in {"idle", "enter"}
            /\ step'[t] = "enter" => stream'[t] \in Sessions
            /\ \A u \in Threads \ {t} : step'[u] = step[u] /\ stream'[u] = stream[u]
        <5>1. CASE out = 0 BY <3>1, <5>1 DEF LookupOut, Return, TypeOK
        <5>2. CASE out # 0
          BY <3>1, <5>2, BoundsAssumption DEF LookupOut, TypeOK, Sessions
        <5> QED BY <5>1, <5>2
      <4>2. MonitorInv' BY <4>1 DEF MonitorInv
      <4>3. LastInv' /\ WireInv' BY <4>1, <3>1, <3>0 DEF LookupOut
      <4> QED BY <4>2, <4>3
    <3>2. CASE EnterMonitor(t)
      <4>1. /\ step[t] = "enter" /\ step'[t] = "header" /\ monitor[stream[t]] = NoThread
            /\ stream[t] \in Sessions /\ monitor'[stream[t]] = t
            /\ \A s \in Sessions \ {stream[t]} : monitor'[s] = monitor[s]
            /\ \A u \in Threads \ {t} : step'[u] = step[u]
            /\ UNCHANGED <<stream, msg>>
        BY <3>2 DEF EnterMonitor, TypeOK, MonitorInv
      <4>2. MonitorInv' BY <4>1 DEF MonitorInv
      <4>3. LastInv' /\ WireInv' BY <4>1, <3>2, <3>0 DEF EnterMonitor
      <4> QED BY <4>2, <4>3
    <3>3. ASSUME Return(t), LeaveMonitor(t), step[t] \in {"header", "payload"}
          PROVE  MonitorInv'
      <4>1. /\ monitor[stream[t]] = t /\ stream[t] \in Sessions /\ msg' = msg
            /\ step'[t] = "idle"
            /\ \A s \in Sessions \ {stream[t]} : monitor'[s] = monitor[s]
            /\ \A u \in Threads \ {t} : step'[u] = step[u] /\ stream'[u] = stream[u]
        BY <3>3 DEF Return, LeaveMonitor, TypeOK, MonitorInv
      <4> QED BY <4>1 DEF MonitorInv
    <3>4. CASE WriteHeader(t)
      <4>1. CASE HasPayload(msg[t])
        <5>1. /\ step[t] = "header" /\ step'[t] = "payload" /\ UNCHANGED <<stream, msg, monitor>>
              /\ \A u \in Threads \ {t} : step'[u] = step[u]
              /\ UNCHANGED <<closed, broken>> /\ Put(t, "header")
          BY <3>4, <4>1 DEF WriteHeader, TypeOK
        <5>2. MonitorInv' BY <4>1, <5>1 DEF MonitorInv
        <5>3. LastInv' /\ WireInv'
          BY <4>1, <5>1, FramesAfterPut
        <5> QED BY <5>2, <5>3
      <4>2. CASE ~HasPayload(msg[t])
        <5>1. /\ step[t] = "header" /\ Return(t) /\ LeaveMonitor(t)
              /\ UNCHANGED <<closed, broken>> /\ Put(t, "header")
          BY <3>4, <4>2 DEF WriteHeader
        <5>2. /\ step'[t] = "idle" /\ msg' = msg
              /\ \A u \in Threads \ {t} : step'[u] = step[u] /\ stream'[u] = stream[u]
          BY <5>1 DEF Return, TypeOK
        <5>3. LastInv' /\ WireInv'
          BY <4>2, <5>1, <5>2, FramesAfterPut
        <5> QED BY <3>3, <5>1, <5>3
      <4> QED BY <4>1, <4>2
    <3>5. CASE WritePayload(t)
      <4>1. /\ step[t] = "payload" /\ Return(t) /\ LeaveMonitor(t)
            /\ UNCHANGED <<closed, broken>> /\ Put(t, "payload")
        BY <3>5 DEF WritePayload
      <4>2. /\ step'[t] = "idle" /\ msg' = msg
            /\ \A u \in Threads \ {t} : step'[u] = step[u] /\ stream'[u] = stream[u]
        BY <4>1 DEF Return, TypeOK
      <4>3. LastInv' /\ WireInv'
        BY <4>1, <4>2, FramesAfterPut
      <4> QED BY <3>3, <4>1, <4>3
    <3>6. CASE WriteFails(t)
      <4>1. /\ step[t] \in {"header", "payload"} /\ stream[t] \in Dead
            /\ step'[t] = "stop" /\ UNCHANGED <<stream, msg, wire, closed, broken>>
            /\ \A u \in Threads \ {t} : step'[u] = step[u]
            /\ stream[t] \in Sessions /\ monitor[stream[t]] = t
            /\ \A s \in Sessions \ {stream[t]} : monitor'[s] = monitor[s]
        BY <3>6 DEF WriteFails, LeaveMonitor, TypeOK, MonitorInv
      <4>2. MonitorInv' BY <4>1 DEF MonitorInv
      <4>3. LastInv' /\ WireInv' BY <4>1, FramesUndisturbed DEF Dead
      <4> QED BY <4>2, <4>3
    <3>7. CASE Disconnect(t)
      <4>1. /\ step[t] \in StopSteps /\ step'[t] \in StopSteps \cup {"idle"}
            /\ \A u \in Threads \ {t} : step'[u] = step[u] /\ stream'[u] = stream[u]
            /\ UNCHANGED <<msg, monitor, wire, broken>> /\ closed \subseteq closed'
        BY <3>7 DEF Disconnect, SetStop, ClearConnected, CloseSocket, Interrupt, Return,
                    TypeOK, StopSteps
      <4>2. MonitorInv' BY <4>1 DEF MonitorInv, StopSteps
      <4>3. LastInv' /\ WireInv' BY <4>1, <3>0 DEF StopSteps
      <4> QED BY <4>2, <4>3
    <3> QED BY <2>3, <3>1, <3>2, <3>4, <3>5, <3>6, <3>7 DEF Call, SendRaw
  <2>4. CASE TakeFrame BY <2>4, <2>0 DEF TakeFrame
  <2>5. ASSUME NEW f \in Feeds, FeedRequestsKeyframe(f) PROVE FramingInv'
    BY <2>5, <2>1 DEF FeedRequestsKeyframe, Threads, Messages
  <2>6. CASE UiSendsInput
    BY <2>6, <2>1 DEF UiSendsInput, Messages
  <2>7. CASE UserDisconnects
    <3>1. /\ step[Ui] = "idle" /\ step'[Ui] = "stop"
          /\ \A u \in Threads \ {Ui} : step'[u] = step[u]
          /\ UNCHANGED <<stream, msg, monitor, wire, closed, broken>>
      BY <2>7 DEF UserDisconnects, TypeOK
    <3>2. MonitorInv' BY <3>1 DEF MonitorInv
    <3>3. LastInv' /\ WireInv' BY <3>1, FramesUndisturbed
    <3> QED BY <3>2, <3>3
  <2>8. CASE Host
    <3>1. CASE HostReadsHello \/ HostReadsFrame
      <4>1. MonitorInv' BY <3>1 DEF HostReadsHello, HostReadsFrame, MonitorInv
      <4>2. LastInv' /\ WireInv'
        BY <3>1, FramesAfterConsume DEF HostReadsHello, HostReadsFrame
      <4> QED BY <4>1, <4>2
    <3>2. CASE HostStarts BY <3>2, <2>0 DEF HostStarts
    <3>3. ASSUME NEW s \in Sessions, HostAccepts(s) PROVE FramingInv'
      BY <3>3, <2>0 DEF HostAccepts
    <3>4. CASE HostSendsVideo BY <3>4, <2>0 DEF HostSendsVideo
    <3>5. CASE HostExits
      BY <3>5, <2>10 DEF HostExits
    <3> QED BY <2>8, <3>1, <3>2, <3>3, <3>4, <3>5 DEF Host
  <2>9. ASSUME NEW s \in Sessions, LinkDrops(s) PROVE FramingInv'
    BY <2>9, <2>10 DEF LinkDrops
  <2>11. CASE UNCHANGED vars BY <2>11, <2>0 DEF vars
  <2> QED BY <2>2, <2>3, <2>4, <2>5, <2>6, <2>7, <2>8, <2>9, <2>11 DEF Next
<1> QED BY <1>1, <1>2, TypeCorrect, PTL DEF Spec

(* For any number of threads and buffer sizes, every frame reaches the     *)
(* host in one piece: sendRaw()'s monitor is enough, also across failed    *)
(* writes, resets and reconnects.                                          *)
THEOREM WholeFramesHolds == Spec => []WholeFrames
<1>1. TypeOK /\ FramingInv => WholeFrames
  <2> SUFFICES ASSUME TypeOK, FramingInv, NEW s \in Sessions, NEW i \in 1..Len(wire[s])
               PROVE  IF wire[s][i].part = "header"
                        THEN HasPayload(wire[s][i].type) => FollowedByPayload(s, i)
                        ELSE /\ i > 1
                             /\ wire[s][i] = [wire[s][i - 1] EXCEPT !.part = "payload"]
                             /\ wire[s][i - 1].part = "header"
    BY DEF WholeFrames
  <2>1. wire[s] \in Seq(Chunks) BY DEF TypeOK
  <2>2. wire[s][i] \in Chunks BY <2>1
  <2>3. wire[s][i].part \in {"header", "payload"} BY <2>2 DEF Chunks
  <2> QED BY <2>3 DEF FramingInv, WireInv
<1> QED BY <1>1, FramingInvariant, TypeCorrect, PTL

-----------------------------------------------------------------------------
(* The client implements the life that ClientLife promises to the screens. *)

\* A stop is requested before anything disconnect() does besides, and an
\* interrupt can only be disconnect()'s (Client.kt:86-97): the sleep that is
\* interrupted in scheduleReconnect() finds stopRequested set already.
StopInv ==
  /\ interrupted => stopRequested
  /\ \A t \in Threads : step[t] \in {"clear", "close", "interrupt"} => stopRequested

LEMMA StopInvariant == Spec => []StopInv
<1>1. Init => StopInv
  BY DEF Init, StopInv
<1>2. TypeOK /\ StopInv /\ [Next]_vars => StopInv'
  <2> SUFFICES ASSUME TypeOK, StopInv, [Next]_vars PROVE StopInv'
    OBVIOUS
  <2> step \in [Threads -> {"idle"} \cup SendSteps \cup StopSteps]
    BY DEF TypeOK
  <2> USE DEF StopInv, fields, thread, calls, StartSend, Return
  <2>1. CASE Run
    <3> Client \in Threads
      BY DEF Threads
    <3> USE DEF Go
    <3>1. CASE LoopCheck \/ ConnectOk \/ ConnectFails \/ StopBeforePublish \/ Publish
      BY <3>1 DEF LoopCheck, ConnectOk, ConnectFails, StopBeforePublish, Publish
    <3>2. CASE ReadAck \/ AckFails \/ Up \/ ReceiveCheck \/ ReadFrame \/ ReadFails
      BY <3>2 DEF ReadAck, AckFails, Up, ReceiveCheck, ReadFrame, ReadFails
    <3>3. CASE SeeFull \/ Evict \/ AddFrame \/ Teardown \/ Release \/ Drain
      BY <3>3 DEF SeeFull, Evict, AddFrame, Teardown, Release, Drain
    <3>4. CASE Caught \/ CloseFailed \/ Unpublish \/ CheckStop \/ Backoff
      BY <3>4 DEF Caught, CloseFailed, Unpublish, CheckStop, Backoff
    <3>5. CASE SleepOver \/ SleepInterrupted
      BY <3>5 DEF SleepOver, SleepInterrupted
    <3> QED BY <2>1, <3>1, <3>2, <3>3, <3>4, <3>5 DEF Run
  <2>2. ASSUME NEW t \in Threads, Call(t) PROVE StopInv'
    <3>1. CASE SendRaw(t)
      BY <3>1 DEF SendRaw, LookupOut, EnterMonitor, WriteHeader, WritePayload, WriteFails
    <3>2. CASE Disconnect(t)
      BY <3>2 DEF Disconnect, SetStop, ClearConnected, CloseSocket, Interrupt
    <3> QED BY <2>2, <3>1, <3>2 DEF Call
  <2>3. CASE TakeFrame BY <2>3 DEF TakeFrame
  <2>4. ASSUME NEW f \in Feeds, FeedRequestsKeyframe(f) PROVE StopInv'
    BY <2>4 DEF FeedRequestsKeyframe
  <2>5. CASE UiSendsInput \/ UserDisconnects
    BY <2>5 DEF UiSendsInput, UserDisconnects
  <2>6. CASE Host
    BY <2>6 DEF Host, HostStarts, HostAccepts, HostReadsHello, HostReadsFrame,
                HostSendsVideo, HostExits
  <2>7. ASSUME NEW s \in Sessions, LinkDrops(s) PROVE StopInv'
    BY <2>7 DEF LinkDrops
  <2>8. CASE UNCHANGED vars BY <2>8 DEF vars
  <2> QED BY <2>1, <2>2, <2>3, <2>4, <2>5, <2>6, <2>7, <2>8 DEF Next
<1> QED BY <1>1, <1>2, TypeCorrect, PTL DEF Spec
-----------------------------------------------------------------------------
\* Updating the only client's entry replaces the whole function.
LEMMA OnlyClient ==
  ASSUME NEW old, NEW new
  PROVE  [[c \in {Client} |-> old] EXCEPT ![Client] = new] = [c \in {Client} |-> new]
OBVIOUS

\* A step of the client is a step of the life or leaves it alone.
LEMMA LifeSteps ==
  TypeOK /\ QueueInv /\ StopInv /\ [Next]_vars => [L!LifeNext]_(L!lifeVars)
<1> SUFFICES ASSUME TypeOK, QueueInv, StopInv, [Next]_vars
             PROVE  [L!LifeNext]_(L!lifeVars)
  OBVIOUS
<1> DEFINE Same == UNCHANGED <<Life, connected, stopRequested>>
<1>1. Same => UNCHANGED L!lifeVars
  BY DEF L!lifeVars
<1>2. connected \in BOOLEAN /\ stopRequested \in BOOLEAN /\ pc \in ClientPcs
  BY DEF TypeOK, FlagsOK
<1>3. connected => pc \in Receiving
  BY DEF QueueInv
<1>4. ASSUME NEW from, NEW to, Life = from, Life' = to, stopRequested' = stopRequested
      PROVE  L!Becomes(Client, from, to)
  BY <1>4, OnlyClient DEF L!Becomes
<1>5. ASSUME connected' = connected
      PROVE  UNCHANGED [c \in {Client} |-> connected]
  BY <1>5
<1> USE DEF L!LifeNext
<1> HIDE DEF Same
<1>6. CASE Run
  <2> USE DEF Go, fields
  <2>1. CASE LoopCheck
    <3>1. CASE stopRequested
      <4>1. L!Disconnected(Client)
        BY <2>1, <3>1, <1>4, <1>5 DEF LoopCheck, Life, L!Disconnected
      <4> QED BY <4>1
    <3>2. CASE ~stopRequested
      <4>1. Same BY <2>1, <3>2 DEF LoopCheck, Life, Same
      <4> QED BY <4>1, <1>1
    <3> QED BY <3>1, <3>2
  <2>2. CASE StopBeforePublish
    <3>1. CASE stopRequested
      <4>1. Same BY <2>2, <3>1 DEF StopBeforePublish, Life, Same
      <4> QED BY <4>1, <1>1
    <3>2. CASE ~stopRequested
      <4>1. L!Handshake(Client)
        BY <2>2, <3>2, <1>4, <1>5 DEF StopBeforePublish, Life, L!Handshake
      <4> QED BY <4>1
    <3> QED BY <3>1, <3>2
  <2>3. CASE Up
    <3>1. L!Connected(Client)
      BY <2>3, <1>4, OnlyClient DEF Up, Life, L!Connected
    <3> QED BY <3>1
  <2>4. CASE Teardown
    <3>1. CASE connected
      <4>1. L!Unlink(Client)
        BY <2>4, <3>1, OnlyClient DEF Teardown, Life, L!Unlink
      <4> QED BY <4>1
    <3>2. CASE ~connected
      <4>1. Same BY <2>4, <3>2, <1>2 DEF Teardown, Life, Same
      <4> QED BY <4>1, <1>1
    <3> QED BY <3>1, <3>2
  <2>5. CASE Drain
    <3>1. ~connected
      BY <2>5, <1>3 DEF Drain, Receiving
    <3>2. L!SessionEnds(Client)
      BY <2>5, <3>1, <1>4, <1>5 DEF Drain, Life, L!SessionEnds
    <3> QED BY <3>2
  <2>6. CASE Unpublish
    <3>1. L!HandshakeFails(Client)
      BY <2>6, <1>4, <1>5 DEF Unpublish, Life, L!HandshakeFails
    <3> QED BY <3>1
  <2>7. CASE CheckStop
    <3>1. CASE stopRequested
      <4>1. L!Disconnected(Client)
        BY <2>7, <3>1, <1>4, <1>5 DEF CheckStop, Life, L!Disconnected
      <4> QED BY <4>1
    <3>2. CASE ~stopRequested
      <4>1. L!BackOff(Client)
        BY <2>7, <3>2, <1>4, <1>5 DEF CheckStop, Life, L!BackOff
      <4> QED BY <4>1
    <3> QED BY <3>1, <3>2
  <2>8. CASE Backoff
    <3>1. L!Reconnecting(Client)
      BY <2>8, <1>4, <1>5 DEF Backoff, Life, L!Reconnecting
    <3> QED BY <3>1
  <2>9. CASE SleepOver \/ SleepInterrupted
    <3>1. stopRequested' = stopRequested
      BY <2>9, <1>2 DEF SleepOver, SleepInterrupted, StopInv
    <3>2. L!Wake(Client)
      BY <2>9, <3>1, <1>4, <1>5 DEF SleepOver, SleepInterrupted, Life, L!Wake
    <3> QED BY <3>2
  <2>10. CASE ConnectFails \/ Caught
    <3>1. ~connected
      BY <2>10, <1>3 DEF ConnectFails, Caught, Receiving
    <3>2. Same
      BY <2>10, <3>1, <1>2 DEF ConnectFails, Caught, Life, Same
    <3> QED BY <3>2, <1>1
  <2>11. CASE ConnectOk \/ Publish \/ ReadAck \/ AckFails \/ CloseFailed
    <3>1. Same
      BY <2>11 DEF ConnectOk, Publish, ReadAck, AckFails, CloseFailed, Life, Same
    <3> QED BY <3>1, <1>1
  <2>12. CASE ReceiveCheck
    <3>1. Same BY <2>12 DEF ReceiveCheck, Life, Same
    <3> QED BY <3>1, <1>1
  <2>13. CASE ReadFrame \/ ReadFails \/ SeeFull \/ Evict \/ AddFrame \/ Release
    <3>1. Same
      BY <2>13 DEF ReadFrame, ReadFails, SeeFull, Evict, AddFrame, Release, Life, Same
    <3> QED BY <3>1, <1>1
  <2> QED BY <1>6, <2>1, <2>2, <2>3, <2>4, <2>5, <2>6, <2>7, <2>8, <2>9, <2>10,
             <2>11, <2>12, <2>13 DEF Run
<1>7. ASSUME NEW t \in Threads, Call(t) PROVE [L!LifeNext]_(L!lifeVars)
  <2> USE DEF fields, thread
  <2>1. CASE SetStop(t)
    <3>1. L!Stop(Client)
      BY <2>1, OnlyClient DEF SetStop, Life, L!Stop
    <3> QED BY <3>1
  <2>2. CASE ClearConnected(t)
    <3>1. CASE connected
      <4>1. L!Unlink(Client)
        BY <2>2, <3>1, OnlyClient DEF ClearConnected, Life, L!Unlink
      <4> QED BY <4>1
    <3>2. CASE ~connected
      <4>1. Same BY <2>2, <3>2, <1>2 DEF ClearConnected, Life, Same
      <4> QED BY <4>1, <1>1
    <3> QED BY <3>1, <3>2
  <2>3. CASE CloseSocket(t) \/ Interrupt(t)
    <3>1. Same BY <2>3 DEF CloseSocket, Interrupt, Life, Same
    <3> QED BY <3>1, <1>1
  <2>4. CASE SendRaw(t)
    <3>1. Same
      BY <2>4 DEF SendRaw, LookupOut, EnterMonitor, WriteHeader, WritePayload,
                  WriteFails, Life, Same
    <3> QED BY <3>1, <1>1
  <2> QED BY <1>7, <2>1, <2>2, <2>3, <2>4 DEF Call, Disconnect
<1>8. ASSUME \/ TakeFrame \/ \E f \in Feeds : FeedRequestsKeyframe(f)
             \/ UiSendsInput \/ UserDisconnects
      PROVE  [L!LifeNext]_(L!lifeVars)
  <2>1. Same
    BY <1>8 DEF TakeFrame, FeedRequestsKeyframe, UiSendsInput, UserDisconnects,
                fields, thread, Life, Same
  <2> QED BY <2>1, <1>1
<1>9. ASSUME Host \/ \E s \in Sessions : LinkDrops(s)
      PROVE  [L!LifeNext]_(L!lifeVars)
  <2>1. Same
    BY <1>9 DEF Host, HostStarts, HostAccepts, HostReadsHello, HostReadsFrame,
                HostSendsVideo, HostExits, LinkDrops, fields, thread, Life, Same
  <2> QED BY <2>1, <1>1
<1>10. CASE UNCHANGED vars
  <2>1. Same BY <1>10 DEF vars, fields, thread, Life, Same
  <2> QED BY <2>1, <1>1
<1> QED BY <1>6, <1>7, <1>8, <1>9, <1>10 DEF Next

\* To the screens the client is a run of ClientLife, whatever the host, the
\* link and the other threads do: callbacks come in its order, no session
\* starts after the stop was seen, and onDisconnected() only follows a stop
\* (Client.kt:99-125).
THEOREM ClientImplementsLife == Spec => ImplementsLife
<1>1. Init => L!LifeInit
  BY DEF Init, L!LifeInit, Life
<1> QED BY <1>1, LifeSteps, TypeCorrect, QueueInvariant, StopInvariant, PTL
        DEF Spec, ImplementsLife, L!LifeSpec
=============================================================================
