---------------------------- MODULE TabletScreen ----------------------------
(***************************************************************************)
(* MainActivity.kt: the connect screen, the render screen, and the clients *)
(* (ClientLife) started from the one and shown by the other.               *)
(*                                                                         *)
(* Callbacks of the clients' threads reach the UI thread through its       *)
(* queue, `posted'; between being posted and being run the user may tap,   *)
(* other callbacks run, the activity go.  What the UI thread does in one   *)
(* turn is one action.                                                     *)
(***************************************************************************)
EXTENDS ClientLife, Naturals, Sequences

CONSTANT MaxPosted     \* bound on callbacks waiting for the UI thread

ASSUME ScreenAssumption == Clients \subseteq Nat \ {0} /\ MaxPosted \in Nat

VARIABLES
  client, rendering, destroyed,   \* fields of MainActivity; client 0 is null
  screen,            \* the client whose render screen is shown; 0: connect UI
  created,           \* the clients constructed so far, in order
  reconnectActive,   \* fields of the clients
  posted             \* callbacks on the UI thread's queue

activityVars == <<client, rendering, destroyed, screen>>
screenVars == <<lifeVars, activityVars, created, reconnectActive, posted>>

Callbacks == [kind : {"connected", "reconnecting", "disconnected"}, from : Clients]

ScreenTypeOK ==
  /\ LifeTypeOK
  /\ client \in {0} \cup Clients /\ screen \in {0} \cup Clients
  /\ rendering \in BOOLEAN /\ destroyed \in BOOLEAN
  /\ created \in SUBSET Clients
  /\ reconnectActive \in [Clients -> BOOLEAN]
  /\ posted \in Seq(Callbacks) /\ Len(posted) <= MaxPosted

ScreenInit ==
  /\ LifeInit
  /\ client = 0 /\ rendering = FALSE /\ destroyed = FALSE /\ screen = 0
  /\ created = {}
  /\ reconnectActive = [c \in Clients |-> FALSE]
  /\ posted = <<>>

-----------------------------------------------------------------------------
(* The clients' threads, as ClientLife has them, and what they post.       *)

Post(kind, c) ==
  /\ Len(posted) < MaxPosted
  /\ posted' = Append(posted, [kind |-> kind, from |-> c])

\* The last disjunct: a write of a player or of the touch listener fails,
\* and sendRaw() calls disconnect().
Quietly(c) ==
  /\ \/ Handshake(c) \/ HandshakeFails(c) \/ SessionEnds(c) \/ Wake(c)
     \/ life[c] = "serving" /\ Unlink(c)
     \/ screen = c /\ life[c] # "ended" /\ ~stopped[c] /\ Stop(c)
  /\ UNCHANGED <<posted, reconnectActive>>

ClientConnects(c) ==
  /\ Connected(c) /\ Post("connected", c)
  /\ reconnectActive' = [reconnectActive EXCEPT ![c] = FALSE]

ClientBacksOff(c) ==
  /\ BackOff(c)
  /\ reconnectActive' = [reconnectActive EXCEPT ![c] = TRUE]
  /\ UNCHANGED posted

ClientRetries(c) ==
  Reconnecting(c) /\ Post("reconnecting", c) /\ UNCHANGED reconnectActive

ClientEnds(c) ==
  Disconnected(c) /\ Post("disconnected", c) /\ UNCHANGED reconnectActive

ClientThread(c) ==
  /\ c \in created
  /\ \/ Quietly(c) \/ ClientConnects(c) \/ ClientBacksOff(c)
     \/ ClientRetries(c) \/ ClientEnds(c)
  /\ UNCHANGED <<activityVars, created>>

-----------------------------------------------------------------------------
(* The UI thread.                                                          *)

\* The Connect button: connectTo().  Nothing disables it while a client it
\* started is still connecting.
TapConnect(c) ==
  /\ ~destroyed /\ screen = 0
  /\ c \notin created /\ \A d \in Clients : d < c => d \in created
  /\ created' = created \cup {c}
  /\ client' = c
  /\ UNCHANGED <<lifeVars, rendering, destroyed, screen, reconnectActive, posted>>

Callback(kind) ==
  /\ posted # <<>> /\ Head(posted).kind = kind
  /\ posted' = Tail(posted)
  /\ UNCHANGED <<lifeVars, created, reconnectActive>>

Caller == Head(posted).from

\* onClientStopped(), not called after onDestroy()
OnClientStopped ==
  rendering' = FALSE /\ client' = 0 /\ screen' = 0 /\ UNCHANGED destroyed

\* Mutant: the callback does not look at `destroyed'.
OnConnectedAlways ==
  /\ Callback("connected")
  /\ IF ~rendering
       THEN rendering' = TRUE /\ screen' = Caller /\ UNCHANGED <<client, destroyed>>
       ELSE UNCHANGED activityVars

\* Not asked here: whether the client is still the activity's.
OnConnected ==
  /\ Callback("connected")
  /\ IF ~destroyed /\ ~rendering
       THEN rendering' = TRUE /\ screen' = Caller /\ UNCHANGED <<client, destroyed>>
       ELSE UNCHANGED activityVars

\* A text or a toast.
OnReconnecting == Callback("reconnecting") /\ UNCHANGED activityVars

\* Mutant: the callback does not ask whose it is.
OnDisconnectedOfAny ==
  /\ Callback("disconnected")
  /\ IF ~destroyed THEN OnClientStopped ELSE UNCHANGED activityVars

\* Mutant: a client that was reconnecting is taken to go on.
OnDisconnectedActive ==
  /\ Callback("disconnected")
  /\ IF ~destroyed /\ client = Caller /\ ~reconnectActive[Caller]
       THEN OnClientStopped ELSE UNCHANGED activityVars

OnDisconnected ==
  /\ Callback("disconnected")
  /\ IF ~destroyed /\ client = Caller THEN OnClientStopped ELSE UNCHANGED activityVars

UiQueue == OnConnected \/ OnReconnecting \/ OnDisconnected

\* disconnect() on the UI thread.
Disconnect(c) ==
  /\ stopped' = [stopped EXCEPT ![c] = TRUE]
  /\ linked' = [linked EXCEPT ![c] = FALSE]
  /\ UNCHANGED life

\* stopClient(), by the Disconnect button of a render screen or by Back.
StopClient ==
  /\ ~destroyed /\ client # 0
  /\ screen # 0 \/ linked[client] \/ reconnectActive[client]
  /\ Disconnect(client)
  /\ OnClientStopped
  /\ UNCHANGED <<created, reconnectActive, posted>>

\* Back without a connection finishes the activity, and so may the system.
OnDestroy ==
  /\ ~destroyed /\ destroyed' = TRUE
  /\ IF client # 0 THEN Disconnect(client) ELSE UNCHANGED lifeVars
  /\ UNCHANGED <<client, rendering, screen, created, reconnectActive, posted>>

ScreenNext ==
  \/ \E c \in Clients : ClientThread(c) \/ TapConnect(c)
  \/ UiQueue \/ StopClient \/ OnDestroy

ScreenSpec == ScreenInit /\ [][ScreenNext]_screenVars

\* The UI thread works through its queue.  Nothing obliges a client, the
\* user or the system.
ScreenFair == WF_screenVars(UiQueue)

-----------------------------------------------------------------------------
\* A client that runs is the one the activity can disconnect, unless a
\* second tap on Connect replaced it: no late callback of an earlier client
\* and no way back to the connect screen loses it (MainActivity.kt:117-119,
\* 149-153).
NoClientForgotten ==
  \A c \in created :
    c = client \/ stopped[c] \/ \E d \in created : d > c

\* Once destroyed, the activity leaves its screen and its client alone
\* (MainActivity.kt:113-119).
QuietAfterDestroy == [][destroyed => UNCHANGED activityVars]_screenVars

\* As long as the activity shows a client that has ended, the callback that
\* takes the user back is still to come: none of those that may come before
\* it, of this client or of others, uses it up (MainActivity.kt:117-119).
EndIsPosted ==
  \A c \in Clients : ~destroyed /\ client = c /\ life[c] = "ended" =>
    \E i \in 1..Len(posted) : posted[i] = [kind |-> "disconnected", from |-> c]

\* When the current client ends, also by itself and while it was waiting to
\* reconnect, the user gets back to the connect screen
\* (MainActivity.kt:117-119).
ScreenReturns ==
  \A c \in Clients :
    (client = c /\ life[c] = "ended") ~> (client # c \/ destroyed)
=============================================================================
