-------------------------- MODULE InputPath_proofs --------------------------
(***************************************************************************)
(* Theorems about InputPath, for any pointers and any number of events     *)
(* under way: the contacts of Windows follow the tablet, each has its end  *)
(* under way when its pointer goes, and the events of a pointer alternate. *)
(***************************************************************************)
EXTENDS InputPath, FiniteSetTheorems, TLAPS

ActiveTouches == activePointers \subseteq touching

\* Only a stylus makes a contact, and a host that has no device none; the
\* next connection starts with nothing.
CleanContacts ==
  /\ contacts \subseteq Styluses
  /\ ~connected => wire = <<>> /\ contacts = {}
  /\ device = "none" => contacts = {}

InputInv ==
  InputTypeOK /\ ActiveTouches /\ CleanContacts /\ EndsComing /\ DownsEnd

-----------------------------------------------------------------------------
LEMMA PointersFinite ==
  ASSUME NEW ids \in SUBSET Pointers
  PROVE  IsFiniteSet(ids) /\ Cardinality(ids) \in Nat
<1>1. IsFiniteSet(Pointers)
  BY InputAssumption, FS_Union DEF Pointers
<1> QED
  BY <1>1, FS_Subset, FS_CardinalityType

\* What the wire holds once a batch is sent.
LEMMA Sent ==
  ASSUME InputTypeOK, NEW type \in {"DOWN", "MOVE", "UP", "CANCEL"},
         NEW ids \in SUBSET Pointers, SendBatch(type, ids)
  PROVE  /\ wire' \in Seq(Events) /\ Len(wire') <= MaxWire
         /\ Len(wire) \in Nat /\ Len(wire') \in Nat /\ Len(wire) <= Len(wire')
         /\ \A i \in 1..Len(wire) : wire'[i] = wire[i]
         /\ \A i \in (Len(wire) + 1)..Len(wire') : wire'[i].type = type /\ wire'[i].id \in ids
         /\ connected => Len(wire') = Len(wire) + Cardinality(ids)
         /\ connected => \A id \in ids :
              \E i \in (Len(wire) + 1)..Len(wire') : wire'[i].id = id
         /\ ~connected => wire' = wire
<1>1. wire \in Seq(Events) /\ Len(wire) \in Nat
  BY DEF InputTypeOK
<1>2. PICK batch \in [1..Cardinality(ids) -> ids] :
        /\ \A id \in ids : \E i \in DOMAIN batch : batch[i] = id
        /\ wire' = IF connected
                     THEN wire \o [i \in DOMAIN batch |-> [type |-> type, id |-> batch[i]]]
                     ELSE wire
        /\ Len(wire') <= MaxWire
  BY DEF SendBatch
<1> DEFINE n == Cardinality(ids)
           w == [i \in DOMAIN batch |-> [type |-> type, id |-> batch[i]]]
<1>3. n \in Nat
  BY PointersFinite
<1> HIDE DEF n
<1>4. /\ DOMAIN batch = 1..n
      /\ \A i \in 1..n : batch[i] \in ids /\ [type |-> type, id |-> batch[i]] \in Events
  BY <1>2 DEF Events, n
<1>5. w \in Seq(Events) /\ Len(w) = n /\ \A i \in 1..n : w[i].type = type /\ w[i].id = batch[i]
  <2>1. w \in [1..n -> Events]
    BY <1>4
  <2> QED
    BY <1>3, <1>4, <2>1
<1>6. CASE ~connected
  <2>1. wire' = wire
    BY <1>2, <1>6
  <2> QED
    BY <1>1, <1>6, <2>1 DEF InputTypeOK
<1>8. Len(wire') <= MaxWire
  BY <1>2
<1>7. CASE connected
  <2> HIDE DEF w
  <2>1. wire' = wire \o w
    BY <1>2, <1>7 DEF w
  <2>2. /\ wire' \in Seq(Events) /\ Len(wire') = Len(wire) + n
        /\ \A i \in 1..Len(wire) : wire'[i] = wire[i]
        /\ \A i \in (Len(wire) + 1)..(Len(wire) + n) : wire'[i] = w[i - Len(wire)]
    BY <1>1, <1>3, <1>5, <2>1
  <2>3. \A i \in (Len(wire) + 1)..Len(wire') : wire'[i].type = type /\ wire'[i].id \in ids
    <3> TAKE i \in (Len(wire) + 1)..Len(wire')
    <3>1. i - Len(wire) \in 1..n /\ wire'[i] = w[i - Len(wire)]
      BY <1>1, <1>3, <2>2
    <3> QED
      BY <3>1, <1>4, <1>5
  <2>4. ASSUME NEW id \in ids
        PROVE  \E i \in (Len(wire) + 1)..Len(wire') : wire'[i].id = id
    <3>1. PICK k \in 1..n : batch[k] = id
      BY <1>2, <1>4
    <3>2. Len(wire) + k \in (Len(wire) + 1)..Len(wire') /\ (Len(wire) + k) - Len(wire) = k
      BY <1>1, <1>3, <2>2
    <3>3. wire'[Len(wire) + k] = w[k]
      BY <1>3, <2>2, <3>2
    <3> QED
      BY <3>1, <3>2, <3>3, <1>5
  <2>5. Len(wire') \in Nat /\ Len(wire) <= Len(wire')
    BY <1>1, <1>3, <2>2
  <2>6. wire' \in Seq(Events) /\ \A i \in 1..Len(wire) : wire'[i] = wire[i]
    BY <2>2
  <2>7. Len(wire') = Len(wire) + Cardinality(ids)
    BY <2>2 DEF n
  <2> QED
    BY <1>1, <1>7, <1>8, <2>3, <2>4, <2>5, <2>6, <2>7
<1> QED
  BY <1>6, <1>7

-----------------------------------------------------------------------------
(* Ends under way, as the wire grows and shrinks.                          *)

\* What is under way stays so, and more may come behind it.
Extended ==
  /\ Len(wire) \in Nat /\ Len(wire') \in Nat /\ Len(wire) <= Len(wire')
  /\ \A i \in 1..Len(wire) : wire'[i] = wire[i]

LEMMA EndCarried ==
  ASSUME Extended, NEW p, EndComes(wire, p),
         \A j \in (Len(wire) + 1)..Len(wire') : ~IsDown(wire'[j], p)
  PROVE  EndComes(wire', p)
<1>1. PICK i \in 1..Len(wire) :
        IsEnd(wire[i], p) /\ \A j \in (i + 1)..Len(wire) : ~IsDown(wire[j], p)
  BY DEF EndComes
<1>2. i \in 1..Len(wire') /\ IsEnd(wire'[i], p)
  BY <1>1 DEF Extended
<1>3. ASSUME NEW j \in (i + 1)..Len(wire') PROVE ~IsDown(wire'[j], p)
  <2>1. CASE j <= Len(wire)
    <3>1. j \in 1..Len(wire) /\ j \in (i + 1)..Len(wire)
      BY <2>1 DEF Extended
    <3> QED
      BY <1>1, <3>1 DEF Extended
  <2>2. CASE j > Len(wire)
    <3>1. j \in (Len(wire) + 1)..Len(wire')
      BY <2>2 DEF Extended
    <3> QED
      BY <3>1
  <2> QED
    BY <2>1, <2>2 DEF Extended
<1> QED
  BY <1>2, <1>3 DEF EndComes

\* The first event is taken.
Received ==
  /\ Len(wire) \in Nat /\ Len(wire) >= 1 /\ Len(wire') = Len(wire) - 1
  /\ \A i \in 1..Len(wire') : wire'[i] = wire[i + 1]
  /\ Front = wire[1]

LEMMA TailReceived ==
  ASSUME InputTypeOK, wire # <<>>, wire' = Tail(wire)
  PROVE  Received /\ wire' \in Seq(Events) /\ Len(wire') <= MaxWire /\ Front \in Events
<1>1. wire \in Seq(Events) /\ Len(wire) <= MaxWire
  BY DEF InputTypeOK
<1>2. /\ Len(wire) \in Nat /\ Len(wire) >= 1 /\ Len(wire') = Len(wire) - 1
      /\ wire' \in Seq(Events)
  BY <1>1
<1>3. \A i \in 1..Len(wire') : wire'[i] = wire[i + 1]
  BY <1>1, <1>2
<1>4. Front = wire[1] /\ Front \in Events
  BY <1>1, <1>2 DEF Front
<1> QED
  BY <1>1, <1>2, <1>3, <1>4, InputAssumption DEF Received

\* If the event taken was not p's end, or p was pressed after that, the end
\* is still under way.
LEMMA EndLeft ==
  ASSUME Received, NEW p, EndComes(wire, p),
         \/ ~IsEnd(wire[1], p)
         \/ \E k \in 1..Len(wire') : IsDown(wire'[k], p)
  PROVE  EndComes(wire', p)
<1>1. PICK i \in 1..Len(wire) :
        IsEnd(wire[i], p) /\ \A j \in (i + 1)..Len(wire) : ~IsDown(wire[j], p)
  BY DEF EndComes
<1>2. i > 1
  <2>1. CASE ~IsEnd(wire[1], p)
    BY <1>1, <2>1 DEF Received
  <2>2. CASE \E k \in 1..Len(wire') : IsDown(wire'[k], p)
    <3>1. PICK k \in 1..Len(wire') : IsDown(wire'[k], p)
      BY <2>2
    <3>2. k + 1 \in 2..Len(wire) /\ IsDown(wire[k + 1], p)
      BY <3>1 DEF Received
    <3>3. ~(k + 1 \in (i + 1)..Len(wire))
      BY <1>1, <3>2
    <3> QED
      BY <1>1, <3>2, <3>3 DEF Received, IsEnd, IsDown
  <2> QED
    BY <2>1, <2>2
<1>3. i - 1 \in 1..Len(wire') /\ (i - 1) + 1 = i
  BY <1>2 DEF Received
<1>4. IsEnd(wire'[i - 1], p)
  BY <1>1, <1>3 DEF Received
<1>5. ASSUME NEW j \in ((i - 1) + 1)..Len(wire') PROVE ~IsDown(wire'[j], p)
  <2>1. j \in 1..Len(wire') /\ j + 1 \in (i + 1)..Len(wire)
    BY <1>2 DEF Received
  <2> QED
    BY <1>1, <2>1 DEF Received
<1> QED
  BY <1>3, <1>4, <1>5 DEF EndComes

-----------------------------------------------------------------------------
(* The actions.                                                            *)

LEMMA InputInvInit == InputInit => InputInv
<1> SUFFICES ASSUME InputInit PROVE InputInv
  OBVIOUS
<1>1. wire \in Seq(Events) /\ Len(wire) = 0
  BY DEF InputInit
<1>2. InputTypeOK
  <2>1. Len(wire) <= MaxWire
    BY <1>1, InputAssumption
  <2>2. /\ touching = {} /\ activePointers = {} /\ contacts = {} /\ device = "none"
        /\ connected \in BOOLEAN /\ missed \in BOOLEAN
    BY DEF InputInit
  <2> QED
    BY <1>1, <2>1, <2>2 DEF InputTypeOK
<1>3. ActiveTouches /\ CleanContacts
  BY DEF InputInit, ActiveTouches, CleanContacts
<1>4. EndsComing /\ DownsEnd
  <2>1. contacts = {}
    BY DEF InputInit
  <2> QED
    BY <1>1, <2>1 DEF EndsComing, Pressed, DownsEnd, EndedBefore
<1> QED
  BY <1>2, <1>3, <1>4 DEF InputInv

\* What is ended before an event stays so as the wire grows.
LEMMA EndedStays ==
  ASSUME DownsEnd, Extended, UNCHANGED <<contacts, missed>>,
         NEW p \in Pointers, NEW j \in 1..Len(wire), IsDown(wire'[j], p)
  PROVE  EndedBefore(p, j)'
<1>1. EndedBefore(p, j)
  BY DEF DownsEnd, Extended
<1>2. \A i \in 1..j : wire'[i] = wire[i] /\ i \in 1..Len(wire)
  BY DEF Extended
<1>3. ASSUME NEW i \in 1..(j - 1), IsDown(wire'[i], p)
      PROVE  \E k \in i..j : IsEnd(wire'[k], p)
  <2>1. IsDown(wire[i], p)
    BY <1>2, <1>3
  <2>2. PICK k \in i..j : IsEnd(wire[k], p)
    BY <1>1, <2>1 DEF EndedBefore
  <2> QED
    BY <1>2, <2>2
<1>4. ASSUME p \in contacts, ~missed
      PROVE  \E k \in 1..j : IsEnd(wire'[k], p)
  <2>1. PICK k \in 1..j : IsEnd(wire[k], p)
    BY <1>1, <1>4 DEF EndedBefore
  <2> QED
    BY <1>2, <2>1
<1> QED
  BY <1>3, <1>4 DEF EndedBefore

LEMMA PointerDownInv ==
  ASSUME InputInv, NEW id \in Pointers, PointerDown(id)
  PROVE  InputInv'
<1>1. /\ InputTypeOK /\ EndsComing /\ DownsEnd /\ ActiveTouches
      /\ SendBatch("DOWN", {id}) /\ {id} \in SUBSET Pointers
      /\ activePointers' = activePointers \cup {id} /\ touching' = touching \cup {id}
      /\ id \notin activePointers
      /\ UNCHANGED <<connected, device, contacts, missed>>
  BY DEF InputInv, PointerDown, hostVars, ActiveTouches
<1>2. /\ wire' \in Seq(Events) /\ Len(wire') <= MaxWire /\ Extended
      /\ \A i \in (Len(wire) + 1)..Len(wire') : wire'[i].type = "DOWN" /\ wire'[i].id = id
      /\ connected => Len(wire') = Len(wire) + Cardinality({id})
      /\ ~connected => wire' = wire
  BY <1>1, Sent DEF Extended
<1>3. InputTypeOK' /\ ActiveTouches' /\ CleanContacts'
  BY <1>1, <1>2 DEF InputInv, InputTypeOK, ActiveTouches, CleanContacts
<1>4. EndsComing'
  <2> SUFFICES ASSUME NEW p \in Pointers \ activePointers', Pressed(p)'
               PROVE  EndComes(wire', p)
    BY DEF EndsComing, EndComes
  <2>1. p # id /\ p \in Pointers \ activePointers
    BY <1>1
  <2>2. \A j \in (Len(wire) + 1)..Len(wire') : ~IsDown(wire'[j], p)
    BY <1>2, <2>1 DEF IsDown
  <2>3. Pressed(p)
    <3>1. ASSUME NEW k \in 1..Len(wire'), IsDown(wire'[k], p)
          PROVE  k \in 1..Len(wire) /\ IsDown(wire[k], p)
      <4>1. k \notin (Len(wire) + 1)..Len(wire')
        BY <2>2, <3>1
      <4> QED
        BY <1>2, <3>1, <4>1 DEF Extended
    <3> QED
      BY <1>1, <3>1 DEF Pressed
  <2> QED
    BY <1>1, <1>2, <2>1, <2>2, <2>3, EndCarried DEF EndsComing
<1>5. DownsEnd'
  <2> SUFFICES ASSUME NEW p \in Pointers, NEW j \in 1..Len(wire'), IsDown(wire'[j], p)
               PROVE  EndedBefore(p, j)'
    BY DEF DownsEnd, EndedBefore
  <2>1. CASE j <= Len(wire)
    <3>1. j \in 1..Len(wire)
      BY <1>2, <2>1 DEF Extended
    <3> QED
      BY <1>1, <1>2, <3>1, EndedStays
  <2>2. CASE j > Len(wire)
    <3>1. connected /\ Len(wire') = Len(wire) + 1 /\ j = Len(wire')
      <4>1. connected
        BY <1>2, <2>2
      <4>2. Cardinality({id}) = 1
        BY FS_Singleton
      <4> QED
        BY <1>2, <2>2, <4>1, <4>2 DEF Extended
    <3>2. p = id
      <4>1. j \in (Len(wire) + 1)..Len(wire')
        BY <1>2, <3>1 DEF Extended
      <4> QED
        BY <1>2, <4>1 DEF IsDown
    <3>3. ASSUME NEW i \in 1..(j - 1), IsDown(wire'[i], p)
          PROVE  \E k \in i..j : IsEnd(wire'[k], p)
      <4>1. i \in 1..Len(wire) /\ IsDown(wire[i], id)
        BY <1>2, <3>1, <3>2, <3>3 DEF Extended
      <4>2. EndComes(wire, id)
        BY <1>1, <4>1 DEF EndsComing, Pressed
      <4>3. PICK k \in 1..Len(wire) :
              IsEnd(wire[k], id) /\ \A l \in (k + 1)..Len(wire) : ~IsDown(wire[l], id)
        BY <4>2 DEF EndComes
      <4>4. ~(i \in (k + 1)..Len(wire))
        BY <4>1, <4>3
      <4>5. k \in i..j /\ wire'[k] = wire[k]
        BY <1>2, <3>1, <4>1, <4>3, <4>4 DEF Extended
      <4> QED
        BY <3>2, <4>3, <4>5
    <3>4. ASSUME p \in contacts', ~missed'
          PROVE  \E k \in 1..j : IsEnd(wire'[k], p)
      <4>1. EndComes(wire, id)
        BY <1>1, <3>2, <3>4 DEF EndsComing, Pressed
      <4>2. PICK k \in 1..Len(wire) : IsEnd(wire[k], id)
        BY <4>1 DEF EndComes
      <4>3. k \in 1..j /\ wire'[k] = wire[k]
        BY <1>2, <3>1, <4>2 DEF Extended
      <4> QED
        BY <3>2, <4>2, <4>3
    <3> QED
      BY <3>3, <3>4 DEF EndedBefore
  <2> QED
    BY <2>1, <2>2, <1>2 DEF Extended
<1> QED
  BY <1>3, <1>4, <1>5 DEF InputInv

\* Any other batch of the tablet's, with the pointers it lets go.
LEMMA OtherBatchInv ==
  ASSUME InputInv, NEW type \in {"MOVE", "UP", "CANCEL"}, NEW ids \in SUBSET Pointers,
         SendBatch(type, ids), UNCHANGED <<connected, device, contacts, missed>>,
         touching' \in SUBSET Pointers, activePointers' \subseteq activePointers,
         activePointers' \subseteq touching',
         activePointers # activePointers' => type # "MOVE",
         activePointers \ activePointers' \subseteq ids
  PROVE  InputInv'
<1>1. /\ InputTypeOK /\ EndsComing /\ DownsEnd /\ CleanContacts
  BY DEF InputInv
<1>2. /\ wire' \in Seq(Events) /\ Len(wire') <= MaxWire /\ Extended
      /\ \A i \in (Len(wire) + 1)..Len(wire') : wire'[i].type = type
      /\ connected => \A id \in ids :
           \E i \in (Len(wire) + 1)..Len(wire') : wire'[i].id = id
      /\ ~connected => wire' = wire
  BY <1>1, Sent DEF Extended
<1>3. InputTypeOK' /\ ActiveTouches' /\ CleanContacts'
  BY <1>1, <1>2 DEF InputTypeOK, ActiveTouches, CleanContacts
<1>4. \A k \in 1..Len(wire') :
        wire'[k].type = "DOWN" => k \in 1..Len(wire) /\ wire'[k] = wire[k]
  <2> TAKE k \in 1..Len(wire')
  <2> HAVE wire'[k].type = "DOWN"
  <2>1. k \notin (Len(wire) + 1)..Len(wire')
    BY <1>2
  <2> QED
    BY <1>2, <2>1 DEF Extended
<1>5. EndsComing'
  <2> SUFFICES ASSUME NEW p \in Pointers \ activePointers', Pressed(p)'
               PROVE  EndComes(wire', p)
    BY DEF EndsComing, EndComes
  <2>1. Pressed(p)
    BY <1>4 DEF Pressed, IsDown
  <2>2. \A j \in (Len(wire) + 1)..Len(wire') : ~IsDown(wire'[j], p)
    BY <1>2 DEF IsDown
  <2>3. CASE p \notin activePointers
    BY <1>1, <1>2, <2>1, <2>2, <2>3, EndCarried DEF EndsComing
  <2>4. CASE p \in activePointers
    <3>1. p \in ids /\ type \in {"UP", "CANCEL"}
      BY <2>4
    <3>2. connected
      <4> SUFFICES ASSUME ~connected PROVE FALSE
        OBVIOUS
      <4>1. wire = <<>> /\ contacts = {}
        BY <1>1 DEF CleanContacts
      <4>2. Len(wire) = 0
        BY <4>1
      <4> QED
        BY <2>1, <4>1, <4>2 DEF Pressed
    <3>3. PICK i \in (Len(wire) + 1)..Len(wire') : wire'[i].id = p
      BY <1>2, <3>1, <3>2
    <3>4. i \in 1..Len(wire') /\ IsEnd(wire'[i], p)
      BY <1>2, <3>1, <3>3 DEF Extended, IsEnd
    <3>5. \A j \in (i + 1)..Len(wire') : ~IsDown(wire'[j], p)
      BY <1>2, <2>2, <3>3 DEF Extended
    <3> QED
      BY <3>4, <3>5 DEF EndComes
  <2> QED
    BY <2>3, <2>4
<1>6. DownsEnd'
  <2> SUFFICES ASSUME NEW p \in Pointers, NEW j \in 1..Len(wire'), IsDown(wire'[j], p)
               PROVE  EndedBefore(p, j)'
    BY DEF DownsEnd, EndedBefore
  <2>1. j \in 1..Len(wire)
    BY <1>4 DEF IsDown
  <2> QED
    BY <1>1, <1>2, <2>1, EndedStays
<1> QED
  BY <1>3, <1>5, <1>6 DEF InputInv

\* An event taken by the host, with the contacts it leaves: those it did not
\* end, and the one it may have made.
LEMMA TakenInv ==
  ASSUME InputInv, wire # <<>>, wire' = Tail(wire),
         UNCHANGED <<tabletVars, connected, device>>, missed' \in BOOLEAN,
         contacts' \subseteq Styluses, device = "none" => contacts' = {},
         \A p \in contacts' : ~missed' =>
           /\ (p \in contacts /\ ~missed) \/ IsDown(Front, p)
           /\ ~IsEnd(Front, p)
  PROVE  InputInv'
<1>1. /\ InputTypeOK /\ EndsComing /\ DownsEnd /\ CleanContacts /\ ActiveTouches
      /\ UNCHANGED <<touching, activePointers, connected, device>>
  BY DEF InputInv, tabletVars
<1>2. Received /\ wire' \in Seq(Events) /\ Len(wire') <= MaxWire
  BY <1>1, TailReceived
<1>3. contacts' \in SUBSET Pointers /\ connected
  BY <1>1 DEF Pointers, CleanContacts
<1>4. InputTypeOK' /\ ActiveTouches' /\ CleanContacts'
  BY <1>1, <1>2, <1>3 DEF InputTypeOK, ActiveTouches, CleanContacts
<1>5. EndsComing'
  <2> SUFFICES ASSUME NEW p \in Pointers \ activePointers', Pressed(p)'
               PROVE  EndComes(wire', p)
    BY DEF EndsComing, EndComes
  <2>1. CASE p \in contacts' /\ ~missed'
    <3>1. Pressed(p) /\ ~IsEnd(wire[1], p)
      BY <1>2, <2>1 DEF Pressed, Received
    <3> QED
      BY <1>1, <1>2, <3>1, EndLeft DEF EndsComing
  <2>2. CASE \E k \in 1..Len(wire') : IsDown(wire'[k], p)
    <3>1. Pressed(p)
      <4>1. PICK k \in 1..Len(wire') : IsDown(wire'[k], p)
        BY <2>2
      <4>2. k + 1 \in 1..Len(wire) /\ wire[k + 1] = wire'[k]
        BY <1>2 DEF Received
      <4> QED
        BY <4>1, <4>2 DEF Pressed
    <3> QED
      BY <1>1, <1>2, <2>2, <3>1, EndLeft DEF EndsComing
  <2> QED
    BY <2>1, <2>2 DEF Pressed
<1>6. DownsEnd'
  <2> SUFFICES ASSUME NEW p \in Pointers, NEW j \in 1..Len(wire'), IsDown(wire'[j], p)
               PROVE  EndedBefore(p, j)'
    BY DEF DownsEnd, EndedBefore
  <2>1. /\ j \in Nat /\ j + 1 \in 1..Len(wire) /\ IsDown(wire[j + 1], p)
        /\ EndedBefore(p, j + 1)
    BY <1>1, <1>2 DEF Received, DownsEnd
  <2>2. ASSUME NEW k \in 2..(j + 1), IsEnd(wire[k], p)
        PROVE  k - 1 \in 1..j /\ IsEnd(wire'[k - 1], p)
    <3>1. k - 1 \in 1..Len(wire') /\ (k - 1) + 1 = k /\ k - 1 \in 1..j
      BY <1>2, <2>1 DEF Received
    <3> QED
      BY <1>2, <2>2, <3>1 DEF Received
  <2>3. ASSUME NEW i \in 1..(j - 1), IsDown(wire'[i], p)
        PROVE  \E k \in i..j : IsEnd(wire'[k], p)
    <3>1. i + 1 \in 1..((j + 1) - 1) /\ IsDown(wire[i + 1], p)
      BY <1>2, <2>1, <2>3 DEF Received
    <3>2. PICK k \in (i + 1)..(j + 1) : IsEnd(wire[k], p)
      BY <2>1, <3>1 DEF EndedBefore
    <3>3. k \in 2..(j + 1) /\ k - 1 \in i..j
      BY <2>1, <3>2
    <3> QED
      BY <2>2, <3>2, <3>3
  <2>4. ASSUME p \in contacts', ~missed'
        PROVE  \E k \in 1..j : IsEnd(wire'[k], p)
    <3>1. (p \in contacts /\ ~missed) \/ IsDown(wire[1], p)
      BY <1>2, <2>4 DEF Received
    <3>2. ~IsEnd(wire[1], p)
      BY <1>2, <2>4 DEF Received
    <3>3. PICK k \in 1..(j + 1) : IsEnd(wire[k], p)
      <4>1. 1 \in 1..((j + 1) - 1)
        BY <2>1, <1>2 DEF Received
      <4> QED
        BY <2>1, <3>1, <4>1 DEF EndedBefore
    <3>4. k \in 2..(j + 1)
      BY <2>1, <3>2, <3>3
    <3> QED
      BY <2>2, <3>3, <3>4
  <2> QED
    BY <2>3, <2>4 DEF EndedBefore
<1> QED
  BY <1>4, <1>5, <1>6 DEF InputInv

LEMMA InjectsInv == ASSUME InputInv, Injects PROVE InputInv'
<1>1. /\ InputTypeOK /\ CleanContacts /\ wire # <<>> /\ wire' = Tail(wire)
      /\ UNCHANGED <<tabletVars, connected, device>>
  BY DEF Injects, InjectMouse, Inject, InjectMisses, InputInv, hostVars
<1>2. Received /\ Front.type \in {"DOWN", "MOVE", "UP", "CANCEL"} /\ Front.id \in Pointers
  BY <1>1, TailReceived DEF Events
<1>3. CASE InjectMouse
  <2>1. UNCHANGED <<contacts, missed>> /\ Front.type # "CANCEL" /\ Front.id \in Fingers
    BY <1>3 DEF InjectMouse, IsMouse, hostVars
  <2>2. \A p \in contacts : ~IsEnd(Front, p)
    BY <1>1, <2>1, InputAssumption DEF IsEnd, CleanContacts
  <2> QED
    BY <1>1, <2>1, <2>2, TakenInv DEF InputTypeOK, CleanContacts
<1>4. CASE Inject
  <2>1. missed' = (missed /\ contacts' # {}) /\ ~IsMouse(Front)
    BY <1>4 DEF Inject
  <2>2. CASE device = "none"
    <3>1. contacts' = {}
      BY <1>1, <1>4, <2>2 DEF Inject, CleanContacts
    <3> QED
      BY <1>1, <2>1, <3>1, TakenInv
  <2>3. CASE device # "none" /\ Front.type = "DOWN"
    <3>1. contacts' = contacts \cup {Front.id} /\ Front.id \in Styluses
      BY <1>2, <1>4, <2>1, <2>3 DEF Inject, IsMouse, Pointers
    <3>2. IsDown(Front, Front.id)
      BY <2>3 DEF IsDown
    <3>3. \A p \in contacts' : ~missed' =>
            ((p \in contacts /\ ~missed) \/ IsDown(Front, p)) /\ ~IsEnd(Front, p)
      BY <2>1, <2>3, <3>1, <3>2 DEF IsEnd
    <3> QED
      BY <1>1, <2>1, <2>3, <3>1, <3>3, TakenInv DEF CleanContacts
  <2>4. CASE device # "none" /\ Front.type = "MOVE"
    <3>1. contacts' = contacts
      BY <1>4, <2>4 DEF Inject
    <3>2. \A p \in contacts' : ~missed' =>
            ((p \in contacts /\ ~missed) \/ IsDown(Front, p)) /\ ~IsEnd(Front, p)
      BY <2>1, <2>4, <3>1 DEF IsEnd
    <3> QED
      BY <1>1, <2>1, <2>4, <3>1, <3>2, TakenInv DEF CleanContacts
  <2>5. CASE device # "none" /\ Front.type \in {"UP", "CANCEL"}
    <3>1. contacts' = contacts \ SameContact(Front.id)
      BY <1>4, <2>5 DEF Inject
    <3>2. Front.id \in SameContact(Front.id)
      BY <1>2 DEF SameContact
    <3>3. \A p \in contacts' : ~missed' =>
            ((p \in contacts /\ ~missed) \/ IsDown(Front, p)) /\ ~IsEnd(Front, p)
      BY <2>1, <3>1, <3>2 DEF IsEnd
    <3> QED
      BY <1>1, <2>1, <2>5, <3>1, <3>3, TakenInv DEF CleanContacts
  <2> QED
    BY <1>2, <2>2, <2>3, <2>4, <2>5
<1>5. CASE InjectMisses
  <2>1. missed' = (contacts # {}) /\ contacts' = contacts
    BY <1>5 DEF InjectMisses
  <2> QED
    BY <1>1, <2>1, TakenInv DEF CleanContacts
<1> QED
  BY <1>3, <1>4, <1>5 DEF Injects

LEMMA InputInvStep == InputInv /\ [InputNext]_inputVars => InputInv'
<1> SUFFICES ASSUME InputInv, [InputNext]_inputVars PROVE InputInv'
  OBVIOUS
<1>1. InputTypeOK /\ ActiveTouches
  BY DEF InputInv
<1>2. ASSUME NEW id \in Pointers, PointerDown(id) PROVE InputInv'
  BY <1>2, PointerDownInv
<1>3. ASSUME NEW id \in Pointers, PointerUp(id) PROVE InputInv'
  <2>1. /\ SendBatch("UP", {id}) /\ UNCHANGED <<connected, device, contacts, missed>>
        /\ touching' = touching \ {id} /\ activePointers' = activePointers \ {id}
    BY <1>3 DEF PointerUp, hostVars
  <2>2. /\ {id} \in SUBSET Pointers /\ touching' \in SUBSET Pointers
        /\ activePointers' \subseteq activePointers /\ activePointers' \subseteq touching'
        /\ activePointers \ activePointers' \subseteq {id}
    BY <1>1, <2>1 DEF InputTypeOK, ActiveTouches
  <2> QED
    BY <2>1, <2>2, OtherBatchInv
<1>4. CASE PointersMove
  <2>1. /\ SendBatch("MOVE", touching \cap activePointers)
        /\ UNCHANGED <<touching, activePointers, connected, device, contacts, missed>>
    BY <1>4 DEF PointersMove, tabletVars, hostVars
  <2>2. /\ touching \cap activePointers \in SUBSET Pointers /\ touching' \in SUBSET Pointers
        /\ activePointers' \subseteq activePointers /\ activePointers' \subseteq touching'
        /\ activePointers \ activePointers' \subseteq touching \cap activePointers
    BY <1>1, <2>1 DEF InputTypeOK, ActiveTouches
  <2> QED
    BY <2>1, <2>2, OtherBatchInv
<1>5. CASE Cancel
  <2>1. /\ SendBatch("CANCEL", activePointers)
        /\ UNCHANGED <<connected, device, contacts, missed>>
        /\ touching' = {} /\ activePointers' = {}
    BY <1>5 DEF Cancel, hostVars
  <2>2. /\ activePointers \in SUBSET Pointers /\ touching' \in SUBSET Pointers
        /\ activePointers' \subseteq activePointers /\ activePointers' \subseteq touching'
        /\ activePointers \ activePointers' \subseteq activePointers
    BY <1>1, <2>1 DEF InputTypeOK
  <2> QED
    BY <2>1, <2>2, OtherBatchInv
<1>6. CASE Injects
  BY <1>6, InjectsInv
<1>7. CASE LinkDrops
  <2>1. /\ wire' = <<>> /\ contacts' = {} /\ missed' = FALSE /\ device' = "none"
        /\ connected' = FALSE /\ UNCHANGED <<touching, activePointers>>
    BY <1>7 DEF LinkDrops, tabletVars
  <2>2. wire' \in Seq(Events) /\ Len(wire') = 0
    BY <2>1
  <2>3. EndsComing' /\ DownsEnd'
    BY <2>1, <2>2 DEF EndsComing, Pressed, DownsEnd, EndedBefore
  <2>4. Len(wire') <= MaxWire
    BY <2>2, InputAssumption
  <2>5. InputTypeOK' /\ ActiveTouches' /\ CleanContacts'
    BY <1>1, <2>1, <2>2, <2>4 DEF InputTypeOK, ActiveTouches, CleanContacts
  <2> QED
    BY <2>3, <2>5 DEF InputInv
<1>8. CASE HostAnswers
  <2>1. UNCHANGED <<touching, activePointers, wire, contacts, missed>>
    BY <1>8 DEF HostAnswers, tabletVars
  <2>2. contacts = {} /\ connected' \in BOOLEAN /\ device' \in {"none", "pen", "touch"} /\ connected'
    BY <1>8 DEF HostAnswers, InputInv, CleanContacts
  <2>3. EndsComing' /\ DownsEnd'
    BY <2>1 DEF InputInv, EndsComing, EndComes, Pressed, DownsEnd, EndedBefore
  <2>4. InputTypeOK' /\ ActiveTouches' /\ CleanContacts'
    BY <1>1, <2>1, <2>2 DEF InputTypeOK, ActiveTouches, CleanContacts
  <2> QED
    BY <2>3, <2>4 DEF InputInv
<1>9. CASE UNCHANGED inputVars
  BY <1>9 DEF inputVars, tabletVars, hostVars, InputInv, InputTypeOK, ActiveTouches,
     CleanContacts, EndsComing, EndComes, Pressed, DownsEnd, EndedBefore
<1> QED
  BY <1>2, <1>3, <1>4, <1>5, <1>6, <1>7, <1>8, <1>9 DEF InputNext

LEMMA InputInvHolds == InputSpec => []InputInv
  BY InputInvInit, InputInvStep, PTL DEF InputSpec

-----------------------------------------------------------------------------
\* The pointers, the wire with its bound and the contacts keep their types
\* (InputSender.kt:16, inject.cpp:51-78).
THEOREM InputTypes == InputSpec => []InputTypeOK
  BY InputInvHolds, PTL DEF InputInv

\* With nothing under way no contact is down that no stylus is, unless an
\* event was missed (InputSender.kt:41-55, inject.cpp:91-105).
THEOREM PenFollowsHolds == InputSpec => []PenFollows
<1>1. InputInv => PenFollows
  <2> SUFFICES ASSUME InputInv, wire = <<>>, ~missed, NEW p \in contacts
               PROVE  p \in activePointers
    BY DEF PenFollows
  <2>1. Len(wire) = 0 /\ p \in Pointers
    BY DEF InputInv, InputTypeOK
  <2>2. ~EndComes(wire, p)
    BY <2>1 DEF EndComes
  <2> QED
    BY <2>1, <2>2 DEF InputInv, EndsComing, Pressed
<1> QED
  BY <1>1, InputInvHolds, PTL

\* Of a pointer the tablet let go, whatever Windows has down of it or will have,
\* the end is under way (InputSender.kt:41-55, inject.cpp:80-105).
THEOREM EndsComingHolds == InputSpec => []EndsComing
  BY InputInvHolds, PTL DEF InputInv

\* A pointer's DOWN is behind the end of its last, whether that is under way
\* or has been injected (protocol.md:78-79, InputSender.kt:18-59).
THEOREM DownsEndHolds == InputSpec => []DownsEnd
  BY InputInvHolds, PTL DEF InputInv
=============================================================================
