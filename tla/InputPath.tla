----------------------------- MODULE InputPath -----------------------------
(***************************************************************************)
(* A touch's way from InputSender.kt through the connection to inject.cpp: *)
(* what the tablet takes to be down, the events under way, and the pen or  *)
(* touch contacts of Windows.  Positions, pressure and tilt are left out.  *)
(*                                                                         *)
(* MotionEvents and Windows' injection are external.  Windows refuses an   *)
(* event that does not fit the state of its contact, and may lose any with *)
(* ERROR_NOT_READY, which the host does not repeat.  When the connection   *)
(* goes, the host's process ends and a new one answers the next.           *)
(***************************************************************************)
EXTENDS Naturals, Sequences, FiniteSets

CONSTANTS
  Styluses, Fingers,    \* pointer ids, by the tool that has them
  MaxWire               \* bound on the events under way

ASSUME InputAssumption ==
  /\ Styluses \subseteq Nat /\ Fingers \subseteq Nat
  /\ IsFiniteSet(Styluses) /\ IsFiniteSet(Fingers) /\ Styluses \cap Fingers = {}
  /\ MaxWire \in Nat

VARIABLES
  touching,         \* the pointers on the screen
  activePointers,   \* the field of InputSender
  connected,        \* Client.connected, and the host's process behind it
  wire,             \* events under way, in order
  device,           \* pen_ok_ and touch_ok_ of the host's process: what a
                    \* stylus is injected as
  contacts,         \* pointers Windows has in contact
  missed            \* an event of a contact was lost to ERROR_NOT_READY

tabletVars == <<touching, activePointers>>
hostVars   == <<device, contacts, missed>>
inputVars  == <<tabletVars, connected, wire, hostVars>>

Pointers == Styluses \cup Fingers
Events   == [type : {"DOWN", "MOVE", "UP", "CANCEL"}, id : Pointers]

InputTypeOK ==
  /\ touching \in SUBSET Pointers /\ activePointers \in SUBSET Pointers
  /\ connected \in BOOLEAN /\ missed \in BOOLEAN
  /\ device \in {"none", "pen", "touch"}
  /\ wire \in Seq(Events) /\ Len(wire) <= MaxWire
  /\ contacts \in SUBSET Pointers

InputInit ==
  /\ touching = {} /\ activePointers = {}
  /\ connected = FALSE /\ wire = <<>>
  /\ device = "none" /\ contacts = {} /\ missed = FALSE

-----------------------------------------------------------------------------
(* The tablet: onTouch().                                                  *)

\* sendInputBatch() of one event of a type for each pointer, in any order.
SendBatch(type, ids) ==
  \E batch \in [1..Cardinality(ids) -> ids] :
    /\ \A id \in ids : \E i \in DOMAIN batch : batch[i] = id
    /\ wire' = IF connected THEN wire \o [i \in DOMAIN batch |-> [type |-> type, id |-> batch[i]]]
                         ELSE wire
    /\ Len(wire') <= MaxWire

PointerDown(id) ==
  /\ id \notin touching /\ touching' = touching \cup {id}
  /\ activePointers' = activePointers \cup {id}
  /\ SendBatch("DOWN", {id})
  /\ UNCHANGED <<connected, hostVars>>

PointersMove ==
  /\ touching # {}
  /\ SendBatch("MOVE", touching \cap activePointers)
  /\ UNCHANGED <<tabletVars, connected, hostVars>>

\* Mutant: an UP is only sent for a pointer other than the last.
PointerUpQuiet(id) ==
  /\ id \in touching /\ touching' = touching \ {id}
  /\ activePointers' = activePointers \ {id}
  /\ SendBatch("UP", IF touching' = {} THEN {} ELSE {id})
  /\ UNCHANGED <<connected, hostVars>>

PointerUp(id) ==
  /\ id \in touching /\ touching' = touching \ {id}
  /\ activePointers' = activePointers \ {id}
  /\ SendBatch("UP", {id})
  /\ UNCHANGED <<connected, hostVars>>

\* Mutant: the pointers are forgotten before their CANCEL is made.
CancelForgets ==
  /\ touching # {} /\ touching' = {} /\ activePointers' = {}
  /\ SendBatch("CANCEL", {})
  /\ UNCHANGED <<connected, hostVars>>

\* The system takes the gesture over: the pointers go without an UP.
Cancel ==
  /\ touching # {} /\ touching' = {} /\ activePointers' = {}
  /\ SendBatch("CANCEL", activePointers)
  /\ UNCHANGED <<connected, hostVars>>

-----------------------------------------------------------------------------
(* The host: InjectBatch(), event by event.                                *)

Front == Head(wire)

\* Mouse events move the pointer; buttons is 0 in all the tablet sends.
IsMouse(e) == e.type # "CANCEL" /\ e.id \in Fingers

\* One pen for all styluses; a CANCEL is the pen's whatever its pointer was.
\* Without a pen device sixteen contacts stand for all pointers.
SameContact(id) ==
  IF device = "pen" THEN Pointers ELSE {p \in Pointers : p % 16 = id % 16}

InjectMouse ==
  /\ wire # <<>> /\ IsMouse(Front)
  /\ wire' = Tail(wire)
  /\ UNCHANGED <<tabletVars, connected, hostVars>>

\* Mutant: a CANCEL is an end for no contact.
InjectNoCancel ==
  /\ wire # <<>> /\ ~IsMouse(Front)
  /\ wire' = Tail(wire)
  /\ contacts' = IF device = "none" THEN contacts
                 ELSE CASE Front.type = "DOWN" -> contacts \cup {Front.id}
                        [] Front.type = "UP"   -> contacts \ SameContact(Front.id)
                        [] OTHER               -> contacts
  /\ missed' = (missed /\ contacts' # {})
  /\ UNCHANGED <<tabletVars, connected, device>>

\* InjectPen() or InjectTouch(): a DOWN makes a contact, an end ends it.
Inject ==
  /\ wire # <<>> /\ ~IsMouse(Front)
  /\ wire' = Tail(wire)
  /\ contacts' = IF device = "none" THEN contacts
                 ELSE CASE Front.type = "DOWN" -> contacts \cup {Front.id}
                        [] Front.type = "MOVE" -> contacts
                        [] OTHER               -> contacts \ SameContact(Front.id)
  /\ missed' = (missed /\ contacts' # {})
  /\ UNCHANGED <<tabletVars, connected, device>>

\* ERROR_NOT_READY: the event is not injected again.
InjectMisses ==
  /\ wire # <<>> /\ ~IsMouse(Front) /\ device # "none"
  /\ wire' = Tail(wire)
  /\ missed' = (contacts # {})
  /\ UNCHANGED <<tabletVars, connected, device, contacts>>

Injects == InjectMouse \/ Inject \/ InjectMisses

-----------------------------------------------------------------------------
LinkDrops ==
  /\ connected /\ connected' = FALSE
  /\ wire' = <<>> /\ contacts' = {} /\ missed' = FALSE
  /\ device' = "none"
  /\ UNCHANGED tabletVars

\* A new process of the host, by InputInjector::Init().
HostAnswers ==
  /\ ~connected /\ connected' = TRUE
  /\ device' \in {"none", "pen", "touch"}
  /\ UNCHANGED <<tabletVars, wire, contacts, missed>>

InputNext ==
  \/ \E id \in Pointers : PointerDown(id) \/ PointerUp(id)
  \/ PointersMove \/ Cancel \/ Injects \/ LinkDrops \/ HostAnswers

InputSpec == InputInit /\ [][InputNext]_inputVars

-----------------------------------------------------------------------------
\* With nothing under way no contact of Windows is down that no stylus on the
\* tablet is, unless an event was missed while one was: not after a cancelled
\* gesture, nor after a connection that went with the stylus down
\* (InputSender.kt:41-55, inject.cpp:91-105).
PenFollows == wire = <<>> /\ ~missed => contacts \subseteq activePointers

IsDown(e, p) == e.type = "DOWN" /\ e.id = p
IsEnd(e, p)  == e.type \in {"UP", "CANCEL"} /\ e.id = p

\* An end of p's is under way, and nothing after it presses p again.
EndComes(w, p) ==
  \E i \in 1..Len(w) : IsEnd(w[i], p) /\ \A j \in (i + 1)..Len(w) : ~IsDown(w[j], p)

\* What the host has of p, or is about to get: something that needs an end.
Pressed(p) ==
  \/ p \in contacts /\ ~missed
  \/ \E k \in 1..Len(wire) : IsDown(wire[k], p)

\* No contact outlives its pointer: of a pointer the tablet has let go, an end
\* is under way for as long as Windows has it down, or will have by a DOWN
\* that is still under way (InputSender.kt:41-55, inject.cpp:80-105).
EndsComing == \A p \in Pointers \ activePointers : Pressed(p) => EndComes(wire, p)

\* What pressed p before the j-th event under way has its end before it.
EndedBefore(p, j) ==
  /\ \A i \in 1..(j - 1) : IsDown(wire[i], p) => \E k \in i..j : IsEnd(wire[k], p)
  /\ p \in contacts /\ ~missed => \E k \in 1..j : IsEnd(wire[k], p)

\* "A DOWN must be followed by an UP or CANCEL for the same pointer_id before
\* a new DOWN with that id", whether the first is under way as well or has
\* been injected (protocol.md:78-79, InputSender.kt:18-59).
DownsEnd ==
  \A p \in Pointers : \A j \in 1..Len(wire) : IsDown(wire[j], p) => EndedBefore(p, j)
=============================================================================
