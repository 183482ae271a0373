----------------------------- MODULE ClientLife -----------------------------
(***************************************************************************)
(* What a Client promises to the screens that use it: the life of its      *)
(* connection as the callbacks onConnected, onReconnecting and             *)
(* onDisconnected tell it, and what isConnected() and disconnect() do to   *)
(* it.  TabletClient implements it, step by step, for one client           *)
(* (ImplementsLife there); TabletScreen composes several with the UI.      *)
(***************************************************************************)
CONSTANT Clients

VARIABLES
  life,      \* what the client's thread is at
  linked,    \* isConnected()
  stopped    \* stopRequested

lifeVars == <<life, linked, stopped>>

\* handshaking: past the stop check of tryConnect(), its outcome open;
\* backingOff: past the stop check of run(), onReconnecting() still to come.
Lives == {"trying", "handshaking", "serving", "backingOff", "waiting", "ended"}

LifeTypeOK ==
  /\ life \in [Clients -> Lives]
  /\ linked \in [Clients -> BOOLEAN]
  /\ stopped \in [Clients -> BOOLEAN]

LifeInit ==
  /\ life = [c \in Clients |-> "trying"]
  /\ linked = [c \in Clients |-> FALSE]
  /\ stopped = [c \in Clients |-> FALSE]

Becomes(c, from, to) ==
  /\ life[c] = from
  /\ life' = [life EXCEPT ![c] = to]
  /\ UNCHANGED stopped

Handshake(c) ==
  ~stopped[c] /\ Becomes(c, "trying", "handshaking") /\ UNCHANGED linked

HandshakeFails(c) == Becomes(c, "handshaking", "trying") /\ UNCHANGED linked

\* onConnected(), also when disconnect() came after the stop check.
Connected(c) ==
  Becomes(c, "handshaking", "serving") /\ linked' = [linked EXCEPT ![c] = TRUE]

\* By disconnect(), or by the thread when the link is lost.
Unlink(c) ==
  linked[c] /\ linked' = [linked EXCEPT ![c] = FALSE] /\ UNCHANGED <<life, stopped>>

SessionEnds(c) ==
  ~linked[c] /\ Becomes(c, "serving", "trying") /\ UNCHANGED linked

BackOff(c) == ~stopped[c] /\ Becomes(c, "trying", "backingOff") /\ UNCHANGED linked

\* onReconnecting(), also when disconnect() came after the stop check.
Reconnecting(c) == Becomes(c, "backingOff", "waiting") /\ UNCHANGED linked

Wake(c) == Becomes(c, "waiting", "trying") /\ UNCHANGED linked

\* onDisconnected(): only ever after a stop.
Disconnected(c) == stopped[c] /\ Becomes(c, "trying", "ended") /\ UNCHANGED linked

Stop(c) == stopped' = [stopped EXCEPT ![c] = TRUE] /\ UNCHANGED <<life, linked>>

LifeNext == \E c \in Clients :
  \/ Handshake(c) \/ HandshakeFails(c) \/ Connected(c) \/ Unlink(c)
  \/ SessionEnds(c) \/ BackOff(c) \/ Reconnecting(c) \/ Wake(c)
  \/ Disconnected(c) \/ Stop(c)

LifeSpec == LifeInit /\ [][LifeNext]_lifeVars
=============================================================================
