------------------------ MODULE TabletScreen_proofs ------------------------
(***************************************************************************)
(* Theorems about TabletScreen, for any number of clients and of callbacks *)
(* waiting: its types, that no client is forgotten, and that a destroyed   *)
(* activity is left alone.                                                 *)
(***************************************************************************)
EXTENDS TabletScreen, TLAPS

\* The clients are made in order, so the newest is the greatest.
CreatedInOrder == \A d \in created, e \in Clients : e < d => e \in created

\* onDisconnected() is posted by clients that were stopped only: the callback
\* that clears the field loses no client that runs.
EndedStopped ==
  \A i \in 1..Len(posted) : posted[i].kind = "disconnected" => stopped[posted[i].from]

\* A client that was not created has not begun.
NotBegun == \A c \in Clients \ created : life[c] = "trying"

ScreenInv ==
  /\ ScreenTypeOK /\ CreatedInOrder /\ EndedStopped /\ NoClientForgotten
  /\ NotBegun /\ EndIsPosted

-----------------------------------------------------------------------------
LEMMA ScreenInvInit == ScreenInit => ScreenInv
<1> SUFFICES ASSUME ScreenInit PROVE ScreenInv
  OBVIOUS
<1>1. posted \in Seq(Callbacks) /\ Len(posted) = 0
  BY DEF ScreenInit
<1>2. LifeTypeOK
  BY DEF ScreenInit, LifeInit, LifeTypeOK, Lives
<1>3. ScreenTypeOK
  <2>1. Len(posted) <= MaxPosted
    BY <1>1, ScreenAssumption
  <2>2. /\ client \in {0} \cup Clients /\ screen \in {0} \cup Clients
        /\ rendering \in BOOLEAN /\ destroyed \in BOOLEAN
        /\ created \in SUBSET Clients /\ reconnectActive \in [Clients -> BOOLEAN]
    BY DEF ScreenInit
  <2> QED
    BY <1>1, <1>2, <2>1, <2>2 DEF ScreenTypeOK
<1>4. CreatedInOrder /\ NoClientForgotten
  <2>1. created = {}
    BY DEF ScreenInit
  <2> QED
    BY <2>1 DEF CreatedInOrder, NoClientForgotten
<1>5. EndedStopped
  BY <1>1 DEF EndedStopped
<1>6. NotBegun /\ EndIsPosted
  BY ScreenAssumption DEF ScreenInit, LifeInit, NotBegun, EndIsPosted
<1> QED
  BY <1>3, <1>4, <1>5, <1>6 DEF ScreenInv

\* Every callback that waits is some client's.
LEMMA PostedByClients ==
  ASSUME ScreenTypeOK
  PROVE  /\ Len(posted) \in Nat
         /\ \A i \in 1..Len(posted) : posted[i] \in Callbacks /\ posted[i].from \in Clients
<1>1. Len(posted) \in Nat /\ \A i \in 1..Len(posted) : posted[i] \in Callbacks
  BY DEF ScreenTypeOK
<1> QED
  BY <1>1 DEF Callbacks

\* A step of a client's thread keeps the types of its life and undoes no stop.
LEMMA LifeSteps ==
  ASSUME LifeTypeOK, NEW c \in Clients,
         \/ Handshake(c) \/ HandshakeFails(c) \/ Connected(c) \/ Unlink(c)
         \/ SessionEnds(c) \/ BackOff(c) \/ Reconnecting(c) \/ Wake(c)
         \/ Disconnected(c) \/ Stop(c)
  PROVE  LifeTypeOK' /\ \A d \in Clients : stopped[d] => stopped'[d]
  BY DEF LifeTypeOK, Lives, Handshake, HandshakeFails, Connected, Unlink, SessionEnds,
         BackOff, Reconnecting, Wake, Disconnected, Stop, Becomes

\* Such a step changes the life of its client only, and ends it only where
\* onDisconnected() is called.
LEMMA LifeOf ==
  ASSUME LifeTypeOK, NEW c \in Clients,
         \/ Handshake(c) \/ HandshakeFails(c) \/ Connected(c) \/ Unlink(c)
         \/ SessionEnds(c) \/ BackOff(c) \/ Reconnecting(c) \/ Wake(c)
         \/ Disconnected(c) \/ Stop(c)
  PROVE  /\ \A d \in Clients : d # c => life'[d] = life[d]
         /\ life'[c] = "ended" => life[c] = "ended" \/ Disconnected(c)
<1> USE DEF LifeTypeOK
<1>1. CASE Unlink(c) \/ Stop(c)
  BY <1>1 DEF Unlink, Stop
<1>2. CASE Handshake(c) \/ HandshakeFails(c) \/ Connected(c) \/ SessionEnds(c)
  BY <1>2 DEF Handshake, HandshakeFails, Connected, SessionEnds, Becomes
<1>3. CASE BackOff(c) \/ Reconnecting(c) \/ Wake(c)
  BY <1>3 DEF BackOff, Reconnecting, Wake, Becomes
<1>4. CASE Disconnected(c)
  BY <1>4 DEF Disconnected, Becomes
<1> QED
  BY <1>1, <1>2, <1>3, <1>4

\* What is posted keeps the queue's type and bound.
LEMMA PostTypes ==
  ASSUME ScreenTypeOK, NEW kind \in {"connected", "reconnecting", "disconnected"},
         NEW c \in Clients, Post(kind, c)
  PROVE  /\ posted' \in Seq(Callbacks) /\ Len(posted') <= MaxPosted
         /\ Len(posted') = Len(posted) + 1
         /\ posted'[Len(posted')] = [kind |-> kind, from |-> c]
         /\ \A i \in 1..Len(posted) : posted'[i] = posted[i]
<1>1. [kind |-> kind, from |-> c] \in Callbacks
  BY DEF Callbacks
<1> QED
  BY <1>1, ScreenAssumption DEF ScreenTypeOK, Post

LEMMA ClientThreadInv ==
  ASSUME ScreenInv, NEW c \in Clients, ClientThread(c)
  PROVE  ScreenInv'
<1>1. /\ UNCHANGED <<client, rendering, destroyed, screen, created>>
      /\ ScreenTypeOK /\ LifeTypeOK
  BY DEF ClientThread, activityVars, ScreenInv, ScreenTypeOK
<1>2. LifeTypeOK' /\ \A d \in Clients : stopped[d] => stopped'[d]
  BY <1>1, LifeSteps DEF ClientThread, Quietly, ClientConnects, ClientBacksOff,
     ClientRetries, ClientEnds
<1>3. reconnectActive' \in [Clients -> BOOLEAN]
  BY <1>1 DEF ClientThread, Quietly, ClientConnects, ClientBacksOff, ClientRetries,
     ClientEnds, ScreenTypeOK
<1>4. /\ posted' \in Seq(Callbacks) /\ Len(posted') <= MaxPosted
      /\ EndedStopped'
  <2>1. CASE UNCHANGED posted
    BY <2>1, <1>1, <1>2, PostedByClients DEF ScreenInv, ScreenTypeOK, EndedStopped
  <2>2. ASSUME NEW kind \in {"connected", "reconnecting", "disconnected"},
               Post(kind, c), kind = "disconnected" => stopped[c]
        PROVE  /\ posted' \in Seq(Callbacks) /\ Len(posted') <= MaxPosted
               /\ EndedStopped'
    <3>1. /\ posted' \in Seq(Callbacks) /\ Len(posted') <= MaxPosted
          /\ Len(posted') = Len(posted) + 1
          /\ posted'[Len(posted')] = [kind |-> kind, from |-> c]
          /\ \A i \in 1..Len(posted) : posted'[i] = posted[i]
      BY <1>1, <2>2, PostTypes
    <3>2. ASSUME NEW i \in 1..Len(posted'), posted'[i].kind = "disconnected"
          PROVE  stopped'[posted'[i].from]
      <4>1. CASE i = Len(posted')
        <5>1. posted'[i].kind = kind /\ posted'[i].from = c
          BY <3>1, <4>1
        <5> QED
          BY <5>1, <3>2, <2>2, <1>2
      <4>2. CASE i # Len(posted')
        <5>1. i \in 1..Len(posted)
          BY <3>1, <4>2, <1>1, PostedByClients
        <5>2. posted'[i] = posted[i] /\ posted[i].from \in Clients
          BY <5>1, <3>1, <1>1, PostedByClients
        <5>3. stopped[posted[i].from]
          BY <5>1, <5>2, <3>2 DEF ScreenInv, EndedStopped
        <5> QED
          BY <5>2, <5>3, <1>2
      <4> QED
        BY <4>1, <4>2
    <3> QED
      BY <3>1, <3>2 DEF EndedStopped
  <2>3. CASE ClientEnds(c)
    BY <2>3, <2>2 DEF ClientEnds, Disconnected
  <2> QED
    BY <2>1, <2>2, <2>3 DEF ClientThread, Quietly, ClientConnects, ClientBacksOff,
       ClientRetries
<1>5. NoClientForgotten'
  BY <1>1, <1>2 DEF ScreenInv, ScreenTypeOK, NoClientForgotten
<1>6. /\ \A d \in Clients : d # c => life'[d] = life[d]
      /\ life'[c] = "ended" => life[c] = "ended" \/ Disconnected(c)
  BY <1>1, LifeOf DEF ClientThread, Quietly, ClientConnects, ClientBacksOff,
     ClientRetries, ClientEnds
<1>7. NotBegun'
  BY <1>1, <1>6 DEF ClientThread, ScreenInv, NotBegun
\* What waits goes on waiting; a client that ends posts its callback.
<1>8. \A i \in 1..Len(posted) : i \in 1..Len(posted') /\ posted'[i] = posted[i]
  <2>1. CASE UNCHANGED posted
    BY <2>1
  <2>2. ASSUME NEW kind \in {"connected", "reconnecting", "disconnected"}, Post(kind, c)
        PROVE  \A i \in 1..Len(posted) : i \in 1..Len(posted') /\ posted'[i] = posted[i]
    <3>1. /\ Len(posted') = Len(posted) + 1 /\ Len(posted) \in Nat
          /\ \A i \in 1..Len(posted) : posted'[i] = posted[i]
      BY <1>1, <2>2, PostTypes, PostedByClients
    <3> QED
      BY <3>1
  <2> QED
    BY <2>1, <2>2 DEF ClientThread, Quietly, ClientConnects, ClientBacksOff, ClientRetries,
       ClientEnds
<1>9. Disconnected(c) =>
        \E i \in 1..Len(posted') : posted'[i] = [kind |-> "disconnected", from |-> c]
  <2> SUFFICES ASSUME Disconnected(c)
               PROVE  \E i \in 1..Len(posted') :
                        posted'[i] = [kind |-> "disconnected", from |-> c]
    OBVIOUS
  <2>1. life[c] = "trying" /\ life'[c] = "ended" /\ UNCHANGED <<linked, stopped>>
    BY <1>1 DEF Disconnected, Becomes, LifeTypeOK
  <2>2. ClientEnds(c)
    BY <1>1, <2>1 DEF ClientThread, Quietly, ClientConnects, ClientBacksOff, ClientRetries,
       LifeTypeOK, Handshake, HandshakeFails, Connected, SessionEnds, BackOff, Reconnecting,
       Wake, Unlink, Stop, Becomes
  <2>3. Post("disconnected", c)
    BY <2>2 DEF ClientEnds
  <2> QED
    BY <1>1, <2>3, PostTypes, PostedByClients
<1>10. EndIsPosted'
  <2> SUFFICES ASSUME NEW d \in Clients, ~destroyed, client = d, life'[d] = "ended"
               PROVE  \E i \in 1..Len(posted') :
                        posted'[i] = [kind |-> "disconnected", from |-> d]
    BY <1>1 DEF EndIsPosted
  <2>1. CASE life[d] = "ended"
    <3>1. PICK i \in 1..Len(posted) : posted[i] = [kind |-> "disconnected", from |-> d]
      BY <2>1 DEF ScreenInv, EndIsPosted
    <3> QED
      BY <1>8, <3>1
  <2>2. CASE life[d] # "ended"
    <3>1. d = c
      BY <1>6, <2>2
    <3> QED
      BY <1>6, <1>9, <2>2, <3>1
  <2> QED
    BY <2>1, <2>2
<1> QED
  BY <1>1, <1>2, <1>3, <1>4, <1>5, <1>7, <1>10 DEF ScreenInv, ScreenTypeOK, CreatedInOrder

LEMMA TapConnectInv ==
  ASSUME ScreenInv, NEW c \in Clients, TapConnect(c)
  PROVE  ScreenInv'
<1>1. \A d \in created : d < c
  BY ScreenAssumption DEF ScreenInv, ScreenTypeOK, TapConnect, CreatedInOrder
<1>2. NoClientForgotten'
  BY <1>1 DEF ScreenInv, TapConnect, NoClientForgotten, lifeVars
<1>3. CreatedInOrder'
  BY <1>1, ScreenAssumption DEF ScreenInv, ScreenTypeOK, TapConnect, CreatedInOrder
<1>4. life[c] # "ended"
  BY DEF ScreenInv, TapConnect, NotBegun
<1> QED
  BY <1>2, <1>3, <1>4 DEF ScreenInv, ScreenTypeOK, LifeTypeOK, TapConnect, EndedStopped, lifeVars,
     NotBegun, EndIsPosted

LEMMA UiQueueInv == ASSUME ScreenInv, UiQueue PROVE ScreenInv'
<1>1. /\ posted # <<>> /\ posted \in Seq(Callbacks) /\ posted' = Tail(posted)
      /\ UNCHANGED <<life, linked, stopped, created, reconnectActive>>
      /\ Head(posted) \in Callbacks
  BY DEF UiQueue, OnConnected, OnReconnecting, OnDisconnected, Callback, lifeVars,
     ScreenInv, ScreenTypeOK
<1>2. /\ posted' \in Seq(Callbacks) /\ Len(posted') = Len(posted) - 1
      /\ \A i \in 1..Len(posted') : posted'[i] = posted[i + 1] /\ i + 1 \in 1..Len(posted)
  BY <1>1
<1>3. Len(posted') <= MaxPosted /\ EndedStopped'
  BY <1>1, <1>2, ScreenAssumption DEF ScreenInv, ScreenTypeOK, EndedStopped
<1>4. /\ client' \in {0} \cup Clients /\ screen' \in {0} \cup Clients
      /\ rendering' \in BOOLEAN /\ destroyed' \in BOOLEAN
  <2>1. Caller \in Clients
    BY <1>1 DEF Caller, Callbacks
  <2> QED
    BY <2>1 DEF UiQueue, OnConnected, OnReconnecting, OnDisconnected, OnClientStopped,
       activityVars, ScreenInv, ScreenTypeOK
<1>5. NoClientForgotten'
  <2>1. CASE UNCHANGED client
    BY <2>1, <1>1 DEF ScreenInv, NoClientForgotten
  <2>2. CASE OnDisconnected /\ client = Caller
    <3>1. stopped[client]
      <4>1. posted[1] = Head(posted) /\ 1 \in 1..Len(posted)
        BY <1>1
      <4> QED
        BY <4>1, <2>2 DEF OnDisconnected, Callback, Caller, ScreenInv, EndedStopped
    <3> QED
      BY <3>1, <1>1 DEF ScreenInv, NoClientForgotten
  <2> QED
    BY <2>1, <2>2 DEF UiQueue, OnConnected, OnReconnecting, OnDisconnected, activityVars
<1>6. EndIsPosted'
  <2> SUFFICES ASSUME NEW c \in Clients, ~destroyed', client' = c, life[c] = "ended"
               PROVE  \E i \in 1..Len(posted') :
                        posted'[i] = [kind |-> "disconnected", from |-> c]
    BY <1>1 DEF EndIsPosted
  <2>1. client = c /\ ~destroyed
    BY ScreenAssumption DEF UiQueue, OnConnected, OnReconnecting, OnDisconnected,
       OnClientStopped, activityVars
  <2>2. PICK i \in 1..Len(posted) : posted[i] = [kind |-> "disconnected", from |-> c]
    BY <2>1 DEF ScreenInv, EndIsPosted
  <2>3. posted[1] = Head(posted)
    BY <1>1
  \* Were it the one that runs, it would have cleared the field.
  <2>4. i # 1
    <3> SUFFICES ASSUME i = 1 PROVE FALSE
      OBVIOUS
    <3>1. Head(posted).kind = "disconnected" /\ Caller = c
      BY <2>2, <2>3 DEF Caller
    <3>2. OnDisconnected
      BY <3>1 DEF UiQueue, OnConnected, OnReconnecting, Callback
    <3> QED
      BY <2>1, <3>1, <3>2, ScreenAssumption DEF OnDisconnected, OnClientStopped
  <2>5. i - 1 \in 1..Len(posted') /\ posted'[i - 1] = posted[(i - 1) + 1]
    BY <1>1, <1>2, <2>4
  <2> QED
    BY <2>2, <2>5
<1> QED
  BY <1>1, <1>2, <1>3, <1>4, <1>5, <1>6
  DEF ScreenInv, ScreenTypeOK, LifeTypeOK, CreatedInOrder, NotBegun

\* disconnect() by the UI thread, with whatever it does to the fields.
LEMMA DisconnectInv ==
  ASSUME ScreenInv, client \in Clients, Disconnect(client),
         UNCHANGED <<created, reconnectActive, posted>>,
         client' \in {client, 0}, screen' \in {screen, 0},
         rendering' \in BOOLEAN, destroyed' \in BOOLEAN, destroyed => destroyed'
  PROVE  ScreenInv'
<1>1. LifeTypeOK' /\ stopped'[client] /\ \A d \in Clients : stopped[d] => stopped'[d]
  BY DEF ScreenInv, ScreenTypeOK, LifeTypeOK, Disconnect
<1>2. EndedStopped'
  BY <1>1, PostedByClients DEF ScreenInv, EndedStopped
<1>3. NoClientForgotten'
  BY <1>1 DEF ScreenInv, ScreenTypeOK, NoClientForgotten
<1>4. NotBegun' /\ EndIsPosted'
  BY ScreenAssumption DEF ScreenInv, ScreenTypeOK, Disconnect, NotBegun, EndIsPosted
<1> QED
  BY <1>1, <1>2, <1>3, <1>4 DEF ScreenInv, ScreenTypeOK, CreatedInOrder

LEMMA ScreenInvStep == ScreenInv /\ [ScreenNext]_screenVars => ScreenInv'
<1> SUFFICES ASSUME ScreenInv, [ScreenNext]_screenVars PROVE ScreenInv'
  OBVIOUS
<1>1. CASE \E c \in Clients : ClientThread(c)
  BY <1>1, ClientThreadInv
<1>2. CASE \E c \in Clients : TapConnect(c)
  BY <1>2, TapConnectInv
<1>3. CASE UiQueue
  BY <1>3, UiQueueInv
<1>4. CASE StopClient
  <2>1. client \in Clients
    BY <1>4 DEF StopClient, ScreenInv, ScreenTypeOK
  <2> QED
    BY <1>4, <2>1, DisconnectInv DEF StopClient, OnClientStopped, ScreenInv, ScreenTypeOK
<1>5. CASE OnDestroy
  <2>1. CASE client # 0
    <3>1. client \in Clients
      BY <2>1 DEF ScreenInv, ScreenTypeOK
    <3> QED
      BY <1>5, <2>1, <3>1, DisconnectInv DEF OnDestroy, ScreenInv, ScreenTypeOK
  <2>2. CASE client = 0
    BY <1>5, <2>2 DEF OnDestroy, lifeVars, ScreenInv, ScreenTypeOK, LifeTypeOK,
       CreatedInOrder, EndedStopped, NoClientForgotten, NotBegun, EndIsPosted
  <2> QED
    BY <2>1, <2>2
<1>6. CASE UNCHANGED screenVars
  BY <1>6 DEF screenVars, lifeVars, activityVars, ScreenInv, ScreenTypeOK, LifeTypeOK,
     CreatedInOrder, EndedStopped, NoClientForgotten, NotBegun, EndIsPosted
<1> QED
  BY <1>1, <1>2, <1>3, <1>4, <1>5, <1>6 DEF ScreenNext

LEMMA ScreenInvHolds == ScreenSpec => []ScreenInv
  BY ScreenInvInit, ScreenInvStep, PTL DEF ScreenSpec

-----------------------------------------------------------------------------
\* The fields of the activity and of the clients, and the UI thread's queue
\* with its bound, keep their types (MainActivity.kt:18-26).
THEOREM ScreenTypes == ScreenSpec => []ScreenTypeOK
  BY ScreenInvHolds, PTL DEF ScreenInv

\* A client that runs is the one the activity can disconnect, unless a second
\* tap on Connect replaced it (MainActivity.kt:117-119, 149-153).
THEOREM NoClientForgottenHolds == ScreenSpec => []NoClientForgotten
  BY ScreenInvHolds, PTL DEF ScreenInv

\* The callback that takes the user back from a client that has ended is never
\* used up by another (MainActivity.kt:117-119).
THEOREM EndIsPostedHolds == ScreenSpec => []EndIsPosted
  BY ScreenInvHolds, PTL DEF ScreenInv

\* Once destroyed, the activity leaves its screen and its client alone
\* (MainActivity.kt:113-119).
THEOREM QuietAfterDestroyHolds == ScreenSpec => QuietAfterDestroy
<1>1. [ScreenNext]_screenVars => [destroyed => UNCHANGED activityVars]_screenVars
  <2> SUFFICES ASSUME ScreenNext, destroyed PROVE UNCHANGED activityVars
    OBVIOUS
  <2>1. CASE \E c \in Clients : ClientThread(c) \/ TapConnect(c)
    BY <2>1 DEF ClientThread, TapConnect
  <2>2. CASE UiQueue
    BY <2>2 DEF UiQueue, OnConnected, OnReconnecting, OnDisconnected
  <2> QED
    BY <2>1, <2>2 DEF ScreenNext, StopClient, OnDestroy
<1> QED
  BY <1>1, PTL DEF ScreenSpec, QuietAfterDestroy
=============================================================================
