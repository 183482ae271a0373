---------------------------- MODULE TabletClient ----------------------------
(***************************************************************************)
(* The tablet's connection to the host: Client.kt, the threads that call   *)
(* into it, and as much of the host (main.cpp, server.cpp) as decides      *)
(* whether a connection is answered.                                       *)
(*                                                                         *)
(* Three kinds of thread run here.  The Client thread is Client.run(): it  *)
(* connects, shakes hands, receives, tears down, backs off, and starts     *)
(* over.  A Feed thread is a VideoPlayer's feedLoop(): it takes frames and *)
(* asks for keyframes.  The Ui thread sends input batches and calls        *)
(* disconnect().  All of them share `socket', `out', `connected' and       *)
(* `stopRequested'; only the two former are guarded by socketLock.  Every  *)
(* synchronized(socketLock) block is one atomic step here, as it contains  *)
(* no blocking call.  The monitor of an output stream is held across       *)
(* blocking writes, so it is a variable of its own.                        *)
(*                                                                         *)
(* The n-th successful Socket.connect makes session n; 0 stands for null.  *)
(***************************************************************************)
EXTENDS Naturals, Sequences, FiniteSets

CONSTANTS
  Client, Ui,     \* the client thread and the UI thread
  Feeds,          \* the decode-feed threads
  NoThread,       \* nobody holds a monitor
  MaxSessions,    \* bound on successful connects; later attempts fail
  MaxQueue,       \* MAX_QUEUED_FRAMES
  WireCap,        \* chunks a tablet-to-host socket buffer holds
  DownCap         \* messages a host-to-tablet socket buffer holds

Threads == {Client, Ui} \cup Feeds

ASSUME ThreadsAssumption ==
  /\ Client # Ui /\ Client \notin Feeds /\ Ui \notin Feeds
  /\ NoThread \notin Threads
ASSUME BoundsAssumption ==
  /\ MaxSessions \in Nat /\ MaxQueue \in Nat \ {0}
  /\ WireCap \in Nat /\ DownCap \in Nat

Sessions == 1..MaxSessions
Messages == {"HANDSHAKE", "KEYFRAME_REQ", "INPUT_BATCH"}

\* A frame is written as a header and, unless it is empty, a payload.
Chunks == [type : Messages, part : {"header", "payload"}, by : Threads]
HasPayload(m) == m # "KEYFRAME_REQ"

VARIABLES
  \* fields of Client
  socket, out, connected, stopRequested, frames,
  \* the client thread: where it is, the session it opened last, its
  \* interrupt flag
  pc, sock, interrupted,
  \* the call a thread has in progress inside sendRaw() or disconnect()
  step, stream, msg,
  monitor,        \* who synchronizes on the output stream of a session
  \* sockets: closed by the tablet; known by the tablet to be reset
  closed, broken, wire, down,
  \* the host process and the session it accepted
  hostPc, hostConn,
  \* the user has seen the render screen; the user asked to disconnect
  shown, userStopped

fields  == <<socket, out, connected, stopRequested, frames>>
thread  == <<pc, sock, interrupted>>
calls   == <<step, stream, msg>>
network == <<closed, broken, wire, down>>
host    == <<hostPc, hostConn>>
user    == <<shown, userStopped>>
vars    == <<fields, thread, calls, monitor, network, host, user>>

ClientPcs == {"loop", "connect", "opened", "publish", "readAck", "up",
              "receive", "read", "room", "evict",
              "teardown", "release", "drain",
              "caught", "closeFailed", "unpublish",
              "check", "backoff", "sleep", "stopped"}
SendSteps == {"lookup", "enter", "header", "payload"}
StopSteps == {"stop", "clear", "close", "interrupt"}
HostPcs   == {"down", "listen", "hello", "serve", "badHello"}

Dead == closed \cup broken    \* a read or write on these throws IOException

\* No session is open yet, or the last one is over.
BetweenSessions == {"loop", "connect", "check", "backoff", "sleep", "stopped"}

FlagsOK ==
  /\ connected \in BOOLEAN /\ stopRequested \in BOOLEAN
  /\ interrupted \in BOOLEAN
  /\ shown \in BOOLEAN /\ userStopped \in BOOLEAN
TypeOK ==
  /\ FlagsOK
  /\ socket \in 0..MaxSessions /\ out \in 0..MaxSessions
  /\ frames \in Seq(Sessions)
  /\ pc \in ClientPcs /\ sock \in 0..MaxSessions
  /\ pc \notin BetweenSessions => sock # 0
  /\ step \in [Threads -> {"idle"} \cup SendSteps \cup StopSteps]
  /\ stream \in [Threads -> 0..MaxSessions] /\ msg \in [Threads -> Messages]
  /\ monitor \in [Sessions -> Threads \cup {NoThread}]
  /\ closed \in SUBSET Sessions /\ broken \in SUBSET Sessions
  /\ wire \in [Sessions -> Seq(Chunks)]
  /\ down \in [Sessions -> Seq({"ACK", "VIDEO"})]
  /\ hostPc \in HostPcs /\ hostConn \in 0..MaxSessions

Init ==
  /\ socket = 0 /\ out = 0
  /\ connected = FALSE /\ stopRequested = FALSE
  /\ frames = <<>>
  /\ pc = "loop" /\ sock = 0 /\ interrupted = FALSE
  /\ step = [t \in Threads |-> "idle"]
  /\ stream = [t \in Threads |-> 0]
  /\ msg = [t \in Threads |-> "HANDSHAKE"]
  /\ monitor = [s \in Sessions |-> NoThread]
  /\ closed = {} /\ broken = {}
  /\ wire = [s \in Sessions |-> <<>>]
  /\ down = [s \in Sessions |-> <<>>]
  /\ hostPc = "down" /\ hostConn = 0
  /\ shown = FALSE /\ userStopped = FALSE

-----------------------------------------------------------------------------
(* sendRaw(), called by any thread.                                        *)

\* The caller of sendRaw(m) is about to read `out'.
StartSend(t, m) ==
  /\ step' = [step EXCEPT ![t] = "lookup"]
  /\ msg' = [msg EXCEPT ![t] = m]
  /\ UNCHANGED stream

\* The call is over and its local variable gone.
Return(t) == /\ step' = [step EXCEPT ![t] = "idle"]
             /\ stream' = [stream EXCEPT ![t] = 0]
             /\ UNCHANGED msg

LookupOut(t) ==
  /\ step[t] = "lookup"
  /\ IF out = 0
       THEN Return(t)
       ELSE /\ step' = [step EXCEPT ![t] = "enter"]
            /\ stream' = [stream EXCEPT ![t] = out]
            /\ UNCHANGED msg
  /\ UNCHANGED <<fields, thread, monitor, network, host, user>>

\* Mutant: the write is not synchronized on the stream.
EnterMonitorUnlocked(t) ==
  /\ step[t] = "enter"
  /\ monitor' = [monitor EXCEPT ![stream[t]] = t]
  /\ step' = [step EXCEPT ![t] = "header"]
  /\ UNCHANGED <<fields, thread, stream, msg, network, host, user>>

EnterMonitor(t) ==
  /\ step[t] = "enter"
  /\ monitor[stream[t]] = NoThread
  /\ monitor' = [monitor EXCEPT ![stream[t]] = t]
  /\ step' = [step EXCEPT ![t] = "header"]
  /\ UNCHANGED <<fields, thread, stream, msg, network, host, user>>

\* A write blocks while the socket buffer is full.
Put(t, part) ==
  /\ stream[t] \notin Dead
  /\ Len(wire[stream[t]]) < WireCap
  /\ wire' = [wire EXCEPT ![stream[t]] =
                Append(@, [type |-> msg[t], part |-> part, by |-> t])]

LeaveMonitor(t) == monitor' = [monitor EXCEPT ![stream[t]] = NoThread]

WriteHeader(t) ==
  /\ step[t] = "header"
  /\ Put(t, "header")
  /\ IF HasPayload(msg[t])
       THEN /\ step' = [step EXCEPT ![t] = "payload"]
            /\ UNCHANGED <<stream, msg, monitor>>
       ELSE Return(t) /\ LeaveMonitor(t)
  /\ UNCHANGED <<fields, thread, closed, broken, down, host, user>>

WritePayload(t) ==
  /\ step[t] = "payload"
  /\ Put(t, "payload")
  /\ Return(t) /\ LeaveMonitor(t)
  /\ UNCHANGED <<fields, thread, closed, broken, down, host, user>>

\* The catch clause of sendRaw(): leave the monitor and call disconnect().
WriteFails(t) ==
  /\ step[t] \in {"header", "payload"}
  /\ stream[t] \in Dead
  /\ step' = [step EXCEPT ![t] = "stop"]
  /\ LeaveMonitor(t)
  /\ UNCHANGED <<fields, thread, stream, msg, network, host, user>>

SendRaw(t) == \/ LookupOut(t) \/ EnterMonitor(t)
              \/ WriteHeader(t) \/ WritePayload(t) \/ WriteFails(t)
-----------------------------------------------------------------------------
(* disconnect(), called by the UI or by sendRaw() after a failed write.    *)

SetStop(t) ==
  /\ step[t] = "stop"
  /\ stopRequested' = TRUE
  /\ step' = [step EXCEPT ![t] = "clear"]
  /\ UNCHANGED <<socket, out, connected, frames,
                 thread, stream, msg, monitor, network, host, user>>

ClearConnected(t) ==
  /\ step[t] = "clear"
  /\ connected' = FALSE
  /\ step' = [step EXCEPT ![t] = "close"]
  /\ UNCHANGED <<socket, out, stopRequested, frames,
                 thread, stream, msg, monitor, network, host, user>>

\* `out' keeps the stream of the socket that is closed here.
CloseSocket(t) ==
  /\ step[t] = "close"
  /\ closed' = closed \cup ({socket} \ {0})
  /\ socket' = 0
  /\ step' = [step EXCEPT ![t] = "interrupt"]
  /\ UNCHANGED <<out, connected, stopRequested, frames,
                 thread, stream, msg, monitor, broken, wire, down, host, user>>

Interrupt(t) ==
  /\ step[t] = "interrupt"
  /\ interrupted' = TRUE
  /\ Return(t)
  /\ UNCHANGED <<fields, pc, sock, monitor, network, host, user>>

Disconnect(t) == SetStop(t) \/ ClearConnected(t) \/ CloseSocket(t) \/ Interrupt(t)
-----------------------------------------------------------------------------
(* The other threads.                                                      *)

\* nextFrame()
TakeFrame ==
  /\ shown /\ frames # <<>>
  /\ frames' = Tail(frames)
  /\ UNCHANGED <<socket, out, connected, stopRequested,
                 thread, calls, monitor, network, host, user>>

\* requestKeyframe() from a player; it does not look at `connected'.
FeedRequestsKeyframe(f) ==
  /\ shown /\ step[f] = "idle"
  /\ StartSend(f, "KEYFRAME_REQ")
  /\ UNCHANGED <<fields, thread, monitor, network, host, user>>

\* sendInputBatch()
UiSendsInput ==
  /\ shown /\ step[Ui] = "idle" /\ connected
  /\ StartSend(Ui, "INPUT_BATCH")
  /\ UNCHANGED <<fields, thread, monitor, network, host, user>>

\* stopClient() or onDestroy()
UserDisconnects ==
  /\ step[Ui] = "idle" /\ ~userStopped
  /\ userStopped' = TRUE
  /\ step' = [step EXCEPT ![Ui] = "stop"]
  /\ UNCHANGED <<fields, thread, stream, msg, monitor, network, host, shown>>
-----------------------------------------------------------------------------
(* The client thread: run(), tryConnect(), receiveLoop().                  *)

\* The thread is not inside a call, and moves on.
Go(from, to) == step[Client] = "idle" /\ pc = from /\ pc' = to

LoopCheck ==
  /\ Go("loop", IF stopRequested THEN "stopped" ELSE "connect")
  /\ UNCHANGED <<fields, sock, interrupted, calls, monitor, network, host, user>>

ConnectOk ==
  /\ Go("connect", "opened")
  /\ hostPc # "down" /\ sock < MaxSessions
  /\ sock' = sock + 1
  /\ UNCHANGED <<fields, interrupted, calls, monitor, network, host, user>>

\* Mutant: the failure is swallowed.
ConnectFailsGoesOn ==
  /\ Go("connect", "opened")
  /\ connected' = FALSE
  /\ UNCHANGED <<socket, out, stopRequested, frames,
                 sock, interrupted, calls, monitor, network, host, user>>

\* Refused or timed out: nothing was published, so the catch only resets
\* `connected'.
ConnectFails ==
  /\ Go("connect", "check")
  /\ connected' = FALSE
  /\ UNCHANGED <<socket, out, stopRequested, frames,
                 sock, interrupted, calls, monitor, network, host, user>>

\* Mutant: the early return forgets sock.close().
StopBeforePublishLeaks ==
  /\ Go("opened", IF stopRequested THEN "check" ELSE "publish")
  /\ UNCHANGED <<fields, sock, interrupted, calls, monitor, network, host, user>>

\* Mutant: the stop check is not there.
StopUnseen ==
  /\ Go("opened", "publish")
  /\ UNCHANGED <<fields, sock, interrupted, calls, monitor, network, host, user>>

StopBeforePublish ==
  /\ Go("opened", IF stopRequested THEN "check" ELSE "publish")
  /\ closed' = IF stopRequested THEN closed \cup {sock} ELSE closed
  /\ UNCHANGED <<fields, sock, interrupted, calls, monitor, broken, wire, down,
                 host, user>>

Publish ==
  /\ Go("publish", "readAck")
  /\ socket' = sock /\ out' = sock
  /\ StartSend(Client, "HANDSHAKE")
  /\ UNCHANGED <<connected, stopRequested, frames,
                 sock, interrupted, monitor, network, host, user>>

\* The read has no timeout: soTimeout is 0.
ReadAck ==
  /\ Go("readAck", "up")
  /\ sock \notin closed
  /\ down[sock] # <<>> /\ Head(down[sock]) = "ACK"
  /\ down' = [down EXCEPT ![sock] = Tail(@)]
  /\ UNCHANGED <<fields, sock, interrupted, calls, monitor, closed, broken, wire,
                 host, user>>

\* Mutant: the end of the stream is not noticed, only a socket closed here.
AckFailsOnClose ==
  /\ Go("readAck", "caught")
  /\ sock \in closed
  /\ UNCHANGED <<fields, sock, interrupted, calls, monitor, network, host, user>>

AckFails ==
  /\ Go("readAck", "caught")
  /\ sock \in Dead
  /\ UNCHANGED <<fields, sock, interrupted, calls, monitor, network, host, user>>

\* onConnected() shows the render screen, whose player starts a feed thread.
Up ==
  /\ Go("up", "receive")
  /\ connected' = TRUE
  /\ shown' = TRUE
  /\ StartSend(Client, "KEYFRAME_REQ")
  /\ UNCHANGED <<socket, out, stopRequested, frames, sock, interrupted,
                 monitor, network, host, userStopped>>

\* Mutant: the loop condition looks at `connected' only.
ReceiveCheckConnectedOnly ==
  /\ Go("receive", IF connected THEN "read" ELSE "teardown")
  /\ UNCHANGED <<fields, sock, interrupted, calls, monitor, network, host, user>>

ReceiveCheck ==
  /\ Go("receive", IF connected /\ ~stopRequested THEN "read" ELSE "teardown")
  /\ UNCHANGED <<fields, sock, interrupted, calls, monitor, network, host, user>>

ReadFrame ==
  /\ Go("read", "room")
  /\ sock \notin closed /\ down[sock] # <<>>
  /\ down' = [down EXCEPT ![sock] = Tail(@)]
  /\ UNCHANGED <<fields, sock, interrupted, calls, monitor, closed, broken, wire,
                 host, user>>

ReadFails ==
  /\ Go("read", "teardown")
  /\ sock \in Dead
  /\ UNCHANGED <<fields, sock, interrupted, calls, monitor, network, host, user>>

\* while (frames.size >= MAX_QUEUED_FRAMES) frames.poll(); the size is read
\* and the head polled in two steps, and a feed thread may poll in between.
SeeFull ==
  /\ Go("room", "evict")
  /\ Len(frames) >= MaxQueue
  /\ UNCHANGED <<fields, sock, interrupted, calls, monitor, network, host, user>>

Evict ==
  /\ Go("evict", "room")
  /\ frames' = IF frames = <<>> THEN <<>> ELSE Tail(frames)
  /\ UNCHANGED <<socket, out, connected, stopRequested,
                 sock, interrupted, calls, monitor, network, host, user>>

AddFrame ==
  /\ Go("room", "receive")
  /\ Len(frames) < MaxQueue
  /\ frames' = Append(frames, sock)
  /\ UNCHANGED <<socket, out, connected, stopRequested,
                 sock, interrupted, calls, monitor, network, host, user>>

\* Mutant: `connected' is left to disconnect().
TeardownKeepsConnected ==
  /\ Go("teardown", "release")
  /\ UNCHANGED <<fields, sock, interrupted, calls, monitor, network, host, user>>

Teardown ==
  /\ Go("teardown", "release")
  /\ connected' = FALSE
  /\ UNCHANGED <<socket, out, stopRequested, frames,
                 sock, interrupted, calls, monitor, network, host, user>>

Release ==
  /\ Go("release", "drain")
  /\ closed' = closed \cup ({socket} \ {0})
  /\ socket' = 0 /\ out' = 0
  /\ UNCHANGED <<connected, stopRequested, frames,
                 sock, interrupted, calls, monitor, broken, wire, down, host, user>>

\* Mutant: the queue survives the session.
DrainNothing ==
  /\ Go("drain", "check")
  /\ UNCHANGED <<fields, sock, interrupted, calls, monitor, network, host, user>>

Drain ==
  /\ Go("drain", "check")
  /\ frames' = <<>>
  /\ UNCHANGED <<socket, out, connected, stopRequested,
                 sock, interrupted, calls, monitor, network, host, user>>

\* The catch clause of tryConnect() after the socket was published.
Caught ==
  /\ Go("caught", "closeFailed")
  /\ connected' = FALSE
  /\ UNCHANGED <<socket, out, stopRequested, frames,
                 sock, interrupted, calls, monitor, network, host, user>>

CloseFailed ==
  /\ Go("closeFailed", "unpublish")
  /\ closed' = closed \cup {sock}
  /\ UNCHANGED <<fields, sock, interrupted, calls, monitor, broken, wire, down,
                 host, user>>

Unpublish ==
  /\ Go("unpublish", "check")
  /\ IF socket = sock THEN socket' = 0 /\ out' = 0 ELSE UNCHANGED <<socket, out>>
  /\ UNCHANGED <<connected, stopRequested, frames,
                 sock, interrupted, calls, monitor, network, host, user>>

\* run() ends with onDisconnected().
CheckStop ==
  /\ Go("check", IF stopRequested THEN "stopped" ELSE "backoff")
  /\ UNCHANGED <<fields, sock, interrupted, calls, monitor, network, host, user>>

\* onReconnecting(); the attempt number only sets the length of the sleep.
Backoff ==
  /\ Go("backoff", "sleep")
  /\ UNCHANGED <<fields, sock, interrupted, calls, monitor, network, host, user>>

SleepOver ==
  /\ Go("sleep", "loop")
  /\ ~interrupted
  /\ UNCHANGED <<fields, sock, interrupted, calls, monitor, network, host, user>>

SleepInterrupted ==
  /\ Go("sleep", "loop")
  /\ interrupted
  /\ interrupted' = FALSE
  /\ stopRequested' = TRUE
  /\ UNCHANGED <<socket, out, connected, frames,
                 sock, calls, monitor, network, host, user>>

Run ==
  \/ LoopCheck \/ ConnectOk \/ ConnectFails \/ StopBeforePublish \/ Publish
  \/ ReadAck \/ AckFails \/ Up
  \/ ReceiveCheck \/ ReadFrame \/ ReadFails \/ SeeFull \/ Evict \/ AddFrame
  \/ Teardown \/ Release \/ Drain \/ Caught \/ CloseFailed \/ Unpublish
  \/ CheckStop \/ Backoff \/ SleepOver \/ SleepInterrupted
-----------------------------------------------------------------------------
(* The host: it accepts one connection, insists that the first frame is a  *)
(* handshake, streams, and exits when it loses that connection.  Others    *)
(* stay in the listen backlog, established but never answered.             *)

HostStarts ==
  /\ hostPc = "down"
  /\ hostPc' = "listen"
  /\ UNCHANGED <<fields, thread, calls, monitor, network, hostConn, user>>

HostAccepts(s) ==
  /\ hostPc = "listen" /\ s <= sock
  /\ s \notin broken /\ \A r \in 1..(s - 1) : r \in broken
  /\ hostPc' = "hello" /\ hostConn' = s
  /\ UNCHANGED <<fields, thread, calls, monitor, network, user>>

\* The first whole frame on the accepted connection, once it is there.
FrameLen(w) == IF HasPayload(Head(w).type) THEN 2 ELSE 1
FrameReady == /\ wire[hostConn] # <<>>
              /\ Len(wire[hostConn]) >= FrameLen(wire[hostConn])
ConsumeFrame ==
  LET w == wire[hostConn]
  IN  wire' = [wire EXCEPT ![hostConn] = SubSeq(w, FrameLen(w) + 1, Len(w))]

HostReadsHello ==
  /\ hostPc = "hello" /\ FrameReady
  /\ ConsumeFrame
  /\ IF Head(wire[hostConn]).type = "HANDSHAKE"
       THEN /\ hostPc' = "serve"
            /\ down' = [down EXCEPT ![hostConn] = Append(@, "ACK")]
       ELSE /\ hostPc' = "badHello"
            /\ UNCHANGED down
  /\ UNCHANGED <<fields, thread, calls, monitor, closed, broken, hostConn, user>>

HostReadsFrame ==
  /\ hostPc = "serve" /\ FrameReady
  /\ ConsumeFrame
  /\ UNCHANGED <<fields, thread, calls, monitor, closed, broken, down, host, user>>

HostSendsVideo ==
  /\ hostPc = "serve" /\ hostConn \notin Dead
  /\ Len(down[hostConn]) < DownCap
  /\ down' = [down EXCEPT ![hostConn] = Append(@, "VIDEO")]
  /\ UNCHANGED <<fields, thread, calls, monitor, closed, broken, wire, host, user>>

\* A reset discards what was in flight.
Reset(S) ==
  /\ broken' = broken \cup S
  /\ wire' = [s \in Sessions |-> IF s \in S THEN <<>> ELSE wire[s]]
  /\ down' = [s \in Sessions |-> IF s \in S THEN <<>> ELSE down[s]]

\* The process ends, for whatever reason, and with it every connection.
HostExits ==
  /\ hostPc # "down"
  /\ hostPc' = "down" /\ hostConn' = 0
  /\ Reset(1..sock)
  /\ UNCHANGED <<fields, thread, calls, monitor, closed, user>>

\* The tablet's kernel gives a connection up.
LinkDrops(s) ==
  /\ s <= sock /\ s \notin Dead
  /\ Reset({s})
  /\ UNCHANGED <<fields, thread, calls, monitor, closed, host, user>>

Host == \/ HostStarts \/ \E s \in Sessions : HostAccepts(s)
        \/ HostReadsHello \/ HostReadsFrame \/ HostSendsVideo \/ HostExits
-----------------------------------------------------------------------------
Call(t) == SendRaw(t) \/ Disconnect(t)

Next ==
  \/ Run \/ \E t \in Threads : Call(t)
  \/ TakeFrame \/ \E f \in Feeds : FeedRequestsKeyframe(f)
  \/ UiSendsInput \/ UserDisconnects
  \/ Host \/ \E s \in Sessions : LinkDrops(s)

Spec == Init /\ [][Next]_vars

(* The tablet's scheduler runs every thread that can run; a sleep and a    *)
(* connect end; the client thread enters a monitor that is free again and     *)
(* again.  A host that runs accepts, reads what reaches it, and exits when *)
(* the first frame is no handshake.  Nothing says that it runs or streams, *)
(* that a link lasts or is found broken, or that the user does anything.   *)
ThreadsFair ==
  /\ WF_vars(Run) /\ SF_vars(EnterMonitor(Client))
  /\ \A t \in Threads : WF_vars(Call(t))
HostFair ==
  /\ WF_vars(\E s \in Sessions : HostAccepts(s))
  /\ WF_vars(HostReadsHello \/ HostReadsFrame)
  /\ WF_vars(hostPc = "badHello" /\ HostExits)
FairSpec == Spec /\ ThreadsFair /\ HostFair
-----------------------------------------------------------------------------
(* Safety.                                                                 *)

\* A header on the wire is followed by its own payload or, while its writer
\* is still between the two (or lost the connection there), by nothing; and
\* no payload stands alone.  It is what lets the host's ReadFrame() find the
\* next header where it looks for it, although three threads write.
FollowedByPayload(s, i) ==
  \/ /\ i < Len(wire[s])
     /\ wire[s][i + 1] = [wire[s][i] EXCEPT !.part = "payload"]
  \/ /\ i = Len(wire[s])
     /\ \/ s \in Dead
        \/ LET t == wire[s][i].by
           IN  step[t] = "payload" /\ stream[t] = s /\ msg[t] = wire[s][i].type
WholeFrames ==
  \A s \in Sessions : \A i \in 1..Len(wire[s]) :
    IF wire[s][i].part = "header"
      THEN HasPayload(wire[s][i].type) => FollowedByPayload(s, i)
      ELSE i > 1 /\ wire[s][i] = [wire[s][i - 1] EXCEPT !.part = "payload"]
                 /\ wire[s][i - 1].part = "header"

\* Whatever way a session ends (refused, stopped before it was published,
\* dropped, disconnected by another thread at any point), its socket is
\* closed before the next one is opened, and none is left at the end.
OneConnection ==
  \A s \in 1..sock : (s = sock /\ pc \notin BetweenSessions) \/ s \in closed

\* The queue holds no frame of an earlier session, and keeps its bound although
\* size(), poll() and add() are separate calls and a feed thread polls between
\* them (Client.kt:81, 117, 221-222).
CurrentFrames ==
  /\ Len(frames) <= MaxQueue
  /\ \A i \in 1..Len(frames) : frames[i] = sock

\* When run() ends, isConnected() is false for good and no frame is queued,
\* however disconnect() interleaved with the handshake.
StoppedClean == pc = "stopped" => ~connected /\ socket = 0 /\ frames = <<>>

\* Client.kt:19: "Reconnects automatically with exponential backoff until
\* [disconnect] is called".
StopOnlyByUser == stopRequested => userStopped
-----------------------------------------------------------------------------
(* Refinement: what the screens may rely on.                               *)

Life ==
  CASE pc \in {"publish", "readAck", "up", "caught", "closeFailed", "unpublish"}
         -> "handshaking"
    [] pc \in {"receive", "read", "room", "evict", "teardown", "release", "drain"}
         -> "serving"
    [] pc = "backoff" -> "backingOff"
    [] pc = "sleep"   -> "waiting"
    [] pc = "stopped" -> "ended"
    [] OTHER          -> "trying"

L == INSTANCE ClientLife WITH
       Clients <- {Client},
       life    <- [c \in {Client} |-> Life],
       linked  <- [c \in {Client} |-> connected],
       stopped <- [c \in {Client} |-> stopRequested]

\* Every interleaving of the client thread with disconnect() is, to the
\* screens, a run of ClientLife: callbacks come in its order, none starts a
\* session after the stop was seen, and onDisconnected() only follows a stop
\* (Client.kt:99-125).
ImplementsLife == L!LifeSpec
-----------------------------------------------------------------------------
(* Liveness, under FairSpec.                                               *)

\* Outside the handshake, a stop always ends the thread, whatever the host
\* sends, even if `connected' was set after disconnect() cleared it.
InHandshake == {"publish", "readAck"}
StopCompletes ==
  (stopRequested /\ pc \notin InHandshake \cup {"opened", "connect"})
     ~> (pc = "stopped")

\* A session is lost with its link, or when the host took another frame for
\* its first: a feed thread's KEYFRAME_REQ may overtake the handshake
\* (Client.kt:138-146, 269; main.cpp:193-197).
Lost == sock \in broken \/ (hostPc = "badHello" /\ hostConn = sock)

\* A session that is lost, during the handshake or later, is followed by
\* another attempt, unless the client was stopped (Client.kt:99-124).
Reconnects ==
  (pc \in {"readAck", "read"} /\ Lost) ~> (pc = "connect" \/ stopRequested)

\* Client.kt:85: "Stops the client for good; the reconnect loop exits and
\* [onDisconnected] fires."
DisconnectFires == userStopped ~> (pc = "stopped")
=============================================================================
