------------------------- MODULE InputBridgeProofs -------------------------
(***************************************************************************)
(* Theorems about InputBridge, for any controllers, slots and buttons.     *)
(*                                                                         *)
(* A handler may remove a controller and then add another, so what holds   *)
(* of the bridge and the host is stated of any b and h: the lemmas about   *)
(* the helpers can then be used in the middle of a step.                   *)
(***************************************************************************)
EXTENDS InputBridge, SequenceTheorems, WellFoundedInduction, TLAPS

BridgeType == [controllers : [Ids -> Controller], slotToController : [Slots -> Ids \cup {NoId}],
               mask : SUBSET Slots, active : BOOLEAN, shutdown : BOOLEAN,
               outbox : [Ids -> Seq(BOOLEAN)]]

HostType == [pads : [Slots -> SUBSET Buttons], mask : SUBSET Slots, mouse : SUBSET MouseButtons]

SlotsOK(b) ==
    /\ \A c \in Ids : b.controllers[c].slot # NoSlot =>
                          b.slotToController[b.controllers[c].slot] = c
    /\ \A s \in Slots : b.slotToController[s] # NoId =>
                            b.controllers[b.slotToController[s]].slot = s
    /\ b.mask = {s \in Slots : b.slotToController[s] # NoId}

\* A controller without a slot is as if it had never been; it is announced only while the
\* stream is active; and the mouse buttons it holds are held in the state it sent last.
ControllersOK(b) ==
    \A c \in Ids : LET k == b.controllers[c] IN
        /\ k.slot = NoSlot => k = Absent
        /\ k.announced => b.active
        /\ k.simulated \subseteq k.previous \ k.suppressed

MouseOK(b, h) ==
    /\ \A x \in h.mouse : \E c \in Ids : x \in b.controllers[c].simulated
    /\ \A c \in Ids : b.controllers[c].simulated # {} =>
                          b.controllers[c].mouseMode /\ Told(b, b.controllers[c])

PadsOK(b, h) ==
    /\ \A s \in Slots : h.pads[s] # {} =>
           \E c \in Ids : b.controllers[c].slot = s /\ Told(b, b.controllers[c])
    /\ \A c \in Ids : Told(b, b.controllers[c]) => b.controllers[c].slot \in h.mask

Sound(b, h) ==
    /\ b \in BridgeType /\ h \in HostType
    /\ SlotsOK(b) /\ ControllersOK(b) /\ MouseOK(b, h) /\ PadsOK(b, h)

BridgeInv == Sound(bridge, host)

\* What the runs check of the bridge are parts of the inductive invariant.
LEMMA InvImplies == BridgeInv => BridgeTypeOK /\ SlotsAgree /\ MouseHeldByController /\ PadHeldByController
<1> SUFFICES ASSUME BridgeInv
             PROVE  BridgeTypeOK /\ SlotsAgree /\ MouseHeldByController /\ PadHeldByController
  OBVIOUS
<1> USE DEF BridgeInv, Sound
<1>1. BridgeTypeOK
  BY DEF BridgeTypeOK, BridgeType, HostType
<1>2. SlotsAgree
  BY DEF SlotsAgree, SlotsOK, Connected
<1>3. MouseHeldByController
  <2>1. \A c \in Ids : bridge.controllers[c].simulated # {} => c \in Connected
    BY DEF ControllersOK, Absent, Connected
  <2>2. QED
    BY <2>1 DEF MouseOK, MouseHeldByController
<1>4. PadHeldByController
  <2>1. \A c \in Ids : Told(bridge, bridge.controllers[c]) => c \in Connected
    BY DEF ControllersOK, Absent, Connected, Told
  <2>2. \A c \in Connected : c \in Ids
    BY DEF Connected
  <2>3. QED
    BY <2>1, <2>2 DEF PadsOK, PadHeldByController
<1>5. QED
  BY <1>1, <1>2, <1>3, <1>4

\* The markers are no slot and no controller, and there is a slot.
LEMMA SlotFacts == NoSlot \notin Slots /\ Slots # {} /\ NoId \notin Ids
BY InputAssumption DEF NoSlot, Slots

\* A controller that is not connected is of the type of controllers.
LEMMA AbsentType == Absent \in Controller
BY DEF Absent, Controller

\* A bridge that has just been created is sound.
LEMMA InitSound == BridgeInit => BridgeInv
<1> SUFFICES ASSUME BridgeInit PROVE BridgeInv
  OBVIOUS
<1>1. bridge \in BridgeType /\ host \in HostType
  BY AbsentType DEF BridgeInit, BridgeType, HostType
<1>2. SlotsOK(bridge)
  BY DEF BridgeInit, SlotsOK, Absent
<1>3. ControllersOK(bridge)
  BY DEF BridgeInit, ControllersOK, Absent
<1>4. MouseOK(bridge, host) /\ PadsOK(bridge, host)
  BY DEF BridgeInit, MouseOK, PadsOK, Absent, Told
<1>5. QED
  BY <1>1, <1>2, <1>3, <1>4 DEF BridgeInv, Sound
-----------------------------------------------------------------------------
(***************************************************************************)
(* Removing a controller.                                                  *)
(***************************************************************************)
LEMMA WithoutFields ==
    ASSUME NEW b \in BridgeType, NEW c \in Ids, b.controllers[c].slot # NoSlot
    PROVE  LET w == BridgeWithout(b, c) IN
           /\ w \in BridgeType
           /\ w.controllers = [b.controllers EXCEPT ![c] = Absent]
           /\ w.slotToController = [b.slotToController EXCEPT ![b.controllers[c].slot] = NoId]
           /\ w.mask = b.mask \ {b.controllers[c].slot}
           /\ w.active = b.active /\ w.shutdown = b.shutdown
<1> DEFINE k == b.controllers[c]
<1>1. k \in Controller /\ k.slot \in Slots
  BY DEF BridgeType, Controller
<1>2. Append(b.outbox[c], FALSE) \in Seq(BOOLEAN)
  BY DEF BridgeType
<1>3. QED
  BY <1>1, <1>2, AbsentType DEF BridgeWithout, BridgeType

\* Removing a controller, with what the host is told of it, leaves the bridge sound
\* and the controller absent.
LEMMA WithoutSound ==
    ASSUME NEW b, NEW h, NEW c \in Ids, Sound(b, h)
    PROVE  LET w == BridgeWithout(b, c) IN
           /\ Sound(w, HostWithout(b, h, c))
           /\ w.controllers[c] = Absent
           /\ w.active = b.active /\ w.shutdown = b.shutdown
<1> DEFINE k == b.controllers[c]
           w == BridgeWithout(b, c)
           g == HostWithout(b, h, c)
<1> USE DEF Sound
<1>1. CASE k.slot = NoSlot
  BY <1>1 DEF BridgeWithout, HostWithout, ControllersOK
<1>2. CASE k.slot # NoSlot
  <2>1. /\ w \in BridgeType
        /\ w.controllers = [b.controllers EXCEPT ![c] = Absent]
        /\ w.slotToController = [b.slotToController EXCEPT ![k.slot] = NoId]
        /\ w.mask = b.mask \ {k.slot}
        /\ w.active = b.active /\ w.shutdown = b.shutdown
    BY <1>2, WithoutFields
  <2>2. /\ k \in Controller /\ k.slot \in Slots
        /\ b.controllers \in [Ids -> Controller] /\ b.slotToController \in [Slots -> Ids \cup {NoId}]
        /\ w.controllers[c] = Absent
        /\ \A d \in Ids \ {c} : w.controllers[d] = b.controllers[d]
    BY <1>2, <2>1 DEF BridgeType, Controller
  <2>3. /\ g \in HostType
        /\ g.mouse = h.mouse \ k.simulated
        /\ Told(b, k) => /\ g.pads = [h.pads EXCEPT ![k.slot] = {}]
                         /\ g.mask = b.mask \ {k.slot}
        /\ ~Told(b, k) => g.pads = h.pads /\ g.mask = h.mask
    BY <1>2, <2>2 DEF HostWithout, HostType, BridgeType
  <2>4. \A d \in Ids \ {c} : b.controllers[d].slot # NoSlot => b.controllers[d].slot # k.slot
    BY <1>2, <2>2 DEF SlotsOK
  <2>5. SlotsOK(w)
    BY <1>2, <2>1, <2>2, <2>4, SlotFacts DEF SlotsOK, Absent, Controller
  <2>6. ControllersOK(w)
    <3>1. Absent.announced = FALSE /\ Absent.simulated = {}
      BY DEF Absent
    <3>2. QED
      BY <2>1, <2>2, <3>1 DEF ControllersOK
  <2>7. MouseOK(w, g)
    BY <2>1, <2>2, <2>3 DEF MouseOK, Absent, Told
  <2>8. PadsOK(w, g)
    <3>1. \A d \in Ids : Told(w, w.controllers[d]) => d # c /\ Told(b, b.controllers[d])
      BY <2>1, <2>2 DEF Told, Absent
    <3>2. \A d \in Ids : Told(b, b.controllers[d]) => b.controllers[d].slot # NoSlot
      BY DEF Told, ControllersOK, Absent
    <3>3. \A d \in Ids : Told(w, w.controllers[d]) => w.controllers[d].slot \in g.mask
      <4>1. \A d \in Ids : b.controllers[d].slot # NoSlot => b.controllers[d].slot \in b.mask
        BY <2>2, SlotFacts DEF SlotsOK, Controller
      <4>2. QED
        BY <2>2, <2>3, <2>4, <3>1, <3>2, <4>1 DEF PadsOK
    <3>4. ASSUME NEW s \in Slots, g.pads[s] # {}
          PROVE  \E d \in Ids : w.controllers[d].slot = s /\ Told(w, w.controllers[d])
      <4>1. h.pads \in [Slots -> SUBSET Buttons]
        BY DEF HostType
      <4>2. h.pads[s] # {} /\ (Told(b, k) => s # k.slot)
        BY <2>3, <3>4, <4>1
      <4>3. PICK d \in Ids : b.controllers[d].slot = s /\ Told(b, b.controllers[d])
        BY <4>2 DEF PadsOK
      <4>4. d # c
        BY <4>2, <4>3
      <4>5. QED
        BY <2>1, <2>2, <4>3, <4>4 DEF Told
    <3>5. QED
      BY <3>3, <3>4 DEF PadsOK
  <2>9. QED
    BY <2>1, <2>2, <2>3, <2>5, <2>6, <2>7, <2>8
<1>3. QED
  BY <1>1, <1>2
-----------------------------------------------------------------------------
(***************************************************************************)
(* Removing all of them: nothing is left for the last lemma to hold of,    *)
(* whether or not the stream stays active.                                 *)
(***************************************************************************)
LEMMA ClearSound ==
    ASSUME NEW late, late \in SUBSET Slots, BridgeInv,
           NEW active \in BOOLEAN, NEW shutdown \in BOOLEAN
    PROVE  Sound([BridgeCleared(bridge) EXCEPT !.active = active, !.shutdown = shutdown],
                 HostCleared(bridge, host, late))
<1> DEFINE b == [BridgeCleared(bridge) EXCEPT !.active = active, !.shutdown = shutdown]
           h == HostCleared(bridge, host, late)
<1> USE DEF BridgeInv, Sound
<1>1. \A c \in Ids : Append(bridge.outbox[c], FALSE) \in Seq(BOOLEAN)
  BY DEF BridgeType
<1>2. /\ b \in BridgeType
      /\ b.controllers = [c \in Ids |-> Absent]
      /\ b.slotToController = [s \in Slots |-> NoId]
      /\ b.mask = {}
  BY <1>1, AbsentType DEF BridgeCleared, BridgeType
<1>3. h \in HostType
  BY DEF HostCleared, HostType
<1>4. SlotsOK(b) /\ ControllersOK(b)
  <2>1. Absent.slot = NoSlot /\ Absent.announced = FALSE /\ Absent.simulated = {}
    BY DEF Absent
  <2>2. SlotsOK(b)
    BY <1>2, <2>1 DEF SlotsOK
  <2>3. \A c \in Ids : b.controllers[c] = Absent
    BY <1>2
  <2>4. ControllersOK(b)
    BY <2>1, <2>3 DEF ControllersOK
  <2>5. QED
    BY <2>2, <2>4
<1>5. h.mouse = {}
  BY DEF HostCleared, MouseOK
<1>6. \A s \in Slots : h.pads[s] = {}
  BY DEF HostCleared, HostType, PadsOK
<1>7. MouseOK(b, h) /\ PadsOK(b, h)
  BY <1>2, <1>5, <1>6 DEF MouseOK, PadsOK, Absent, Told
<1>8. QED
  BY <1>2, <1>3, <1>4, <1>7

\* Clearing the bridge while the host is told, as activate, deactivate and shutdown do,
\* leaves it sound.
LEMMA ClearedSound ==
    ASSUME BridgeInv, HostLearnsClear,
           NEW active \in BOOLEAN, NEW shutdown \in BOOLEAN,
           bridge' = [BridgeCleared(bridge) EXCEPT !.active = active, !.shutdown = shutdown]
    PROVE  BridgeInv'
<1>1. Unannounced(bridge) \in SUBSET Slots
  BY DEF Unannounced, BridgeInv, Sound, BridgeType, Controller
<1>2. PICK late \in SUBSET Slots : host' = HostCleared(bridge, host, late)
  BY <1>1 DEF HostLearnsClear
<1>3. QED
  BY <1>2, ClearSound DEF BridgeInv
\* While a slot is free, the lowest free slot is a slot and is free.
LEMMA LowestFreeExists ==
    ASSUME NEW b, Free(b) # {}
    PROVE  LowestFree(b) \in Slots /\ b.slotToController[LowestFree(b)] = NoId
<1> DEFINE R == {ss \in Nat \X Nat : ss[1] < ss[2]}
<1>1. IsWellFoundedOn(R, Nat)
  BY NatLessThanWellFounded, Zenon DEF OpToRel
<1>2. Free(b) \subseteq Nat
  BY InputAssumption DEF Free, Slots
<1>3. PICK s \in Free(b) : \A t \in Free(b) : ~ <<t, s>> \in R
  <2> HIDE DEF R
  <2> QED
    BY <1>1, <1>2, WFMin
<1>4. ASSUME NEW t \in Free(b) PROVE s <= t
  <2>1. s \in Nat /\ t \in Nat /\ <<t, s>> \in Nat \X Nat
    BY <1>2
  <2>2. ~ (<<t, s>>[1] < <<t, s>>[2])
    BY <1>3, <2>1
  <2>3. QED
    BY <2>1, <2>2
<1>5. LowestFree(b) \in Free(b)
  BY <1>3, <1>4 DEF LowestFree
<1>6. QED
  BY <1>5 DEF Free
-----------------------------------------------------------------------------
(***************************************************************************)
(* The actions.                                                            *)
(***************************************************************************)
LEMMA ConnectKeeps == ASSUME BridgeInv, NEW c \in Ids, NEW accepted \in BOOLEAN, Connect(c, accepted)
                      PROVE  BridgeInv'
<1> DEFINE b == BridgeWithout(bridge, c)
           h == HostWithout(bridge, host, c)
           s == LowestFree(b)
           told == b.active /\ accepted
           k == [Absent EXCEPT !.slot = s, !.announced = told]
<1>1. Sound(b, h) /\ b.controllers[c] = Absent
  BY WithoutSound DEF BridgeInv
<1>2. CASE Free(b) = {}
  BY <1>1, <1>2 DEF Connect, BridgeInv
<1>3. CASE Free(b) # {}
  <2> USE DEF Sound
  <2>1. s \in Slots /\ b.slotToController[s] = NoId
    BY <1>3, LowestFreeExists
  <2>2. /\ bridge' = [b EXCEPT !.controllers[c] = k, !.slotToController[s] = c,
                               !.mask = @ \cup {s}]
        /\ host' = IF told THEN [h EXCEPT !.mask = b.mask \cup {s}] ELSE h
    BY <1>3 DEF Connect
  <2> HIDE DEF b, h, s, told
  <2>3. /\ b \in BridgeType /\ h \in HostType /\ told \in BOOLEAN
        /\ k \in Controller /\ k.slot = s /\ k.announced = told
        /\ k.simulated = {} /\ k.mouseMode = FALSE
    BY <1>1, <2>1 DEF Absent, Controller, BridgeType, told
  <2> HIDE DEF k
  <2>4. /\ bridge' \in BridgeType /\ host' \in HostType
        /\ bridge'.controllers = [b.controllers EXCEPT ![c] = k]
        /\ bridge'.slotToController = [b.slotToController EXCEPT ![s] = c]
        /\ bridge'.mask = b.mask \cup {s}
        /\ bridge'.active = b.active
        /\ host'.pads = h.pads /\ host'.mouse = h.mouse
        /\ host'.mask = IF told THEN b.mask \cup {s} ELSE h.mask
    BY <2>1, <2>2, <2>3 DEF BridgeType, HostType
  <2>5. /\ bridge'.controllers[c] = k
        /\ \A d \in Ids \ {c} : bridge'.controllers[d] = b.controllers[d]
        /\ \A d \in Ids : b.controllers[d] \in Controller
    BY <2>3, <2>4 DEF BridgeType
  <2>6. Absent.slot = NoSlot /\ Absent.announced = FALSE /\ Absent.simulated = {}
    BY DEF Absent
  <2>7. \A d \in Ids \ {c} : b.controllers[d].slot # s
    BY <1>1, <2>1, <2>5, SlotFacts DEF SlotsOK
  <2>8. SlotsOK(bridge')
    <3>1. \A d \in Ids : bridge'.controllers[d].slot # NoSlot =>
                             bridge'.slotToController[bridge'.controllers[d].slot] = d
      BY <1>1, <2>1, <2>3, <2>4, <2>5, <2>7 DEF SlotsOK, BridgeType, Controller
    <3>2. \A t \in Slots : bridge'.slotToController[t] # NoId =>
                               bridge'.controllers[bridge'.slotToController[t]].slot = t
      BY <1>1, <2>1, <2>3, <2>4, <2>5, <2>6, SlotFacts DEF SlotsOK, BridgeType
    <3>3. bridge'.mask = {t \in Slots : bridge'.slotToController[t] # NoId}
      BY <1>1, <2>1, <2>3, <2>4, SlotFacts DEF SlotsOK, BridgeType
    <3>4. QED
      BY <3>1, <3>2, <3>3 DEF SlotsOK
  <2>9. ControllersOK(bridge')
    <3>1. k.announced => bridge'.active
      BY <2>3, <2>4 DEF told
    <3>2. k.slot # NoSlot
      BY <2>1, <2>3, SlotFacts
    <3>3. QED
      BY <1>1, <2>3, <2>4, <2>5, <3>1, <3>2 DEF ControllersOK
  <2>10. MouseOK(bridge', host')
    BY <1>1, <2>3, <2>4, <2>5, <2>6 DEF MouseOK, Told
  <2>11. PadsOK(bridge', host')
    <3>1. \A d \in Ids \ {c} : Told(b, b.controllers[d]) => b.controllers[d].slot \in h.mask \cap b.mask
      BY <1>1, <2>1, <2>5, <2>6, SlotFacts DEF SlotsOK, PadsOK, ControllersOK, Told, Controller
    <3>2. \A d \in Ids : Told(bridge', bridge'.controllers[d]) => bridge'.controllers[d].slot \in host'.mask
      BY <2>3, <2>4, <2>5, <3>1 DEF Told
    <3>3. ASSUME NEW t \in Slots, host'.pads[t] # {}
          PROVE  \E d \in Ids : bridge'.controllers[d].slot = t /\ Told(bridge', bridge'.controllers[d])
      <4>1. PICK d \in Ids : b.controllers[d].slot = t /\ Told(b, b.controllers[d])
        BY <1>1, <2>4, <3>3 DEF PadsOK
      <4>2. d # c
        BY <1>1, <2>6, <4>1 DEF Told
      <4>3. QED
        BY <2>4, <2>5, <4>1, <4>2 DEF Told
    <3>4. QED
      BY <3>2, <3>3 DEF PadsOK
  <2>12. QED
    BY <2>4, <2>8, <2>9, <2>10, <2>11 DEF BridgeInv
<1>4. QED
  BY <1>2, <1>3

\* A controller's disconnection keeps the bridge sound.
LEMMA DisconnectKeeps == ASSUME BridgeInv, NEW c \in Ids, Disconnect(c) PROVE BridgeInv'
BY WithoutSound DEF Disconnect, BridgeInv

\* The worker's handing of a mouse-mode message to the channel keeps the bridge sound.
LEMMA WorkerKeeps == ASSUME BridgeInv, NEW c \in Ids, WorkerSends(c) PROVE BridgeInv'
<1> USE DEF BridgeInv, Sound
<1>1. bridge.outbox[c] \in Seq(BOOLEAN) /\ bridge.outbox[c] # <<>>
  BY DEF WorkerSends, BridgeType
<1>2. Tail(bridge.outbox[c]) \in Seq(BOOLEAN)
  BY <1>1, HeadTailProperties
<1>3. /\ bridge' \in BridgeType /\ host' = host
      /\ bridge'.controllers = bridge.controllers
      /\ bridge'.slotToController = bridge.slotToController
      /\ bridge'.mask = bridge.mask /\ bridge'.active = bridge.active
  BY <1>2 DEF WorkerSends, BridgeType
<1>4. SlotsOK(bridge') /\ ControllersOK(bridge')
  BY <1>3 DEF SlotsOK, ControllersOK
<1>5. MouseOK(bridge', host') /\ PadsOK(bridge', host')
  BY <1>3 DEF MouseOK, PadsOK, Told
<1>6. QED
  BY <1>3, <1>4, <1>5

\* Marking a controller as announced changes nothing else of it.
LEMMA AnnouncedController ==
    ASSUME NEW k \in Controller
    PROVE  LET l == [k EXCEPT !.announced = TRUE] IN
           /\ l \in Controller /\ l.announced = TRUE
           /\ l.slot = k.slot /\ l.simulated = k.simulated /\ l.previous = k.previous
           /\ l.suppressed = k.suppressed /\ l.mouseMode = k.mouseMode
BY DEF Controller

\* Activation, whichever announcements fail, keeps the bridge sound.
LEMMA ActivateKeeps == ASSUME BridgeInv, NEW failing \in SUBSET Ids, Activate(failing)
                       PROVE  BridgeInv'
<1> DEFINE arrived == {c \in Connected : ~bridge.controllers[c].announced} \ failing
<1> USE DEF BridgeInv, Sound
<1>1. /\ bridge' = [bridge EXCEPT !.active = TRUE,
             !.controllers = [c \in Ids |->
                 IF c \in arrived THEN [@[c] EXCEPT !.announced = TRUE] ELSE @[c]]]
      /\ host' = IF arrived = {} THEN host ELSE [host EXCEPT !.mask = bridge.mask]
      /\ bridge.active = FALSE
  BY DEF Activate, BridgeType
<1>2. \A c \in arrived : c \in Ids /\ bridge.controllers[c].slot # NoSlot
  BY DEF arrived, Connected
<1> HIDE DEF arrived
<1>3. /\ bridge.controllers \in [Ids -> Controller]
      /\ bridge'.active = TRUE /\ bridge'.slotToController = bridge.slotToController
      /\ bridge'.mask = bridge.mask
      /\ bridge'.controllers =
             [c \in Ids |-> IF c \in arrived THEN [bridge.controllers[c] EXCEPT !.announced = TRUE]
                            ELSE bridge.controllers[c]]
  BY <1>1 DEF BridgeType
<1>4. bridge' \in BridgeType /\ host' \in HostType
  <2>1. \A c \in Ids : [bridge.controllers[c] EXCEPT !.announced = TRUE] \in Controller
    BY <1>3, AnnouncedController
  <2>2. bridge'.controllers \in [Ids -> Controller]
    BY <1>3, <2>1
  <2>3. bridge' \in BridgeType
    BY <1>1, <1>3, <2>2 DEF BridgeType
  <2>4. host' \in HostType
    BY <1>1 DEF BridgeType, HostType
  <2>5. QED
    BY <2>3, <2>4
<1>5. \A c \in Ids : LET k == bridge.controllers[c]
                         l == bridge'.controllers[c]
                     IN /\ l.slot = k.slot /\ l.simulated = k.simulated
                        /\ l.previous = k.previous /\ l.suppressed = k.suppressed
                        /\ l.mouseMode = k.mouseMode
                        /\ c \in arrived => l.announced = TRUE
                        /\ c \notin arrived => l = k
  BY <1>3, AnnouncedController
<1>6. /\ \A c \in Ids : ~bridge.controllers[c].announced
      /\ \A c \in Ids : bridge.controllers[c].simulated = {}
  BY <1>1 DEF ControllersOK, MouseOK, Told
<1>7. SlotsOK(bridge')
  BY <1>3, <1>5 DEF SlotsOK, BridgeType
<1>8. ControllersOK(bridge')
  BY <1>3, <1>5, <1>2 DEF ControllersOK
<1>9. MouseOK(bridge', host')
  BY <1>1, <1>5, <1>6 DEF MouseOK, HostType
<1>10. PadsOK(bridge', host')
  <2>1. \A s \in Slots : host'.pads[s] = {}
    BY <1>1, <1>6 DEF PadsOK, Told, HostType
  <2>2. ASSUME NEW c \in Ids, Told(bridge', bridge'.controllers[c])
        PROVE  bridge'.controllers[c].slot \in host'.mask
    <3>1. c \in arrived
      BY <1>5, <1>6, <2>2 DEF Told
    <3>2. bridge.controllers[c].slot \in bridge.mask
      BY <1>3, <1>2, <3>1, SlotFacts DEF SlotsOK, Controller
    <3>3. host'.mask = bridge.mask
      BY <1>1, <3>1 DEF HostType
    <3>4. QED
      BY <1>5, <3>2, <3>3
  <2>3. QED
    BY <2>1, <2>2 DEF PadsOK
<1>11. QED
  BY <1>4, <1>7, <1>8, <1>9, <1>10

\* A controller's new state, in either mode, keeps the bridge sound.
LEMMA StateKeeps == ASSUME BridgeInv, NEW c \in Ids, NEW pressed \in SUBSET Buttons,
                           NEW long \in BOOLEAN, State(c, pressed, long)
                    PROVE  BridgeInv'
<1> DEFINE k      == bridge.controllers[c]
           told   == Told(bridge, k)
           toggle == Start \in k.previous /\ Start \notin pressed /\ long
           mode   == k.mouseMode # toggle
           supp   == Suppressed(k, pressed, toggle)
           now    == (pressed \ supp) \cap MouseButtons
           before == (k.previous \ supp) \cap MouseButtons
           ended  == toggle /\ k.mouseMode
           l == [k EXCEPT !.previous = pressed, !.mouseMode = mode,
                          !.suppressed = IF told /\ mode THEN supp \cap pressed ELSE supp,
                          !.simulated = IF told /\ mode THEN now ELSE IF ended THEN {} ELSE @]
           queue == IF toggle THEN Append(bridge.outbox[c], mode) ELSE bridge.outbox[c]
<1> USE DEF BridgeInv, Sound
<1>1. /\ k \in Controller /\ k.slot \in Slots /\ bridge.outbox[c] \in Seq(BOOLEAN)
      /\ k.mouseMode \in BOOLEAN /\ toggle \in BOOLEAN /\ mode \in BOOLEAN
      /\ bridge.controllers \in [Ids -> Controller]
  BY DEF State, BridgeType, Controller
<1>2. supp \in SUBSET MouseButtons
  BY <1>1 DEF Suppressed, Controller
<1>3. /\ bridge' = [bridge EXCEPT !.controllers[c] = l, !.outbox[c] = queue]
      /\ host'.mouse = IF ended THEN host.mouse \ k.simulated
                       ELSE IF told /\ mode /\ ~toggle
                       THEN (host.mouse \cup (now \ before)) \ (before \ now)
                       ELSE host.mouse
      /\ host'.pads = IF told /\ (toggle \/ ~mode)
                      THEN [host.pads EXCEPT ![k.slot] = pressed] ELSE host.pads
      /\ host'.mask = IF told /\ (toggle \/ ~mode) THEN bridge.mask ELSE host.mask
      /\ host' = [pads |-> host'.pads, mask |-> host'.mask, mouse |-> host'.mouse]
  BY DEF State, BridgeType
<1>4. queue \in Seq(BOOLEAN)
  <2> HIDE DEF mode, toggle
  <2> QED
    BY <1>1, AppendProperties
<1>5. /\ l \in Controller /\ l.slot = k.slot /\ l.announced = k.announced
      /\ l.previous = pressed /\ l.mouseMode = mode
      /\ l.suppressed = IF told /\ mode THEN supp \cap pressed ELSE supp
      /\ l.simulated = IF told /\ mode THEN now ELSE IF ended THEN {} ELSE k.simulated
  BY <1>1, <1>2 DEF Controller
<1>6. /\ toggle => mode = ~k.mouseMode
      /\ ~toggle => mode = k.mouseMode
      /\ ~toggle => supp = k.suppressed
  BY <1>1 DEF Suppressed
<1>7. k.simulated # {} => k.mouseMode /\ told
  BY DEF MouseOK
<1> HIDE DEF l, queue, mode, supp, toggle, told
<1>8. /\ bridge' \in BridgeType
      /\ bridge'.controllers[c] = l
      /\ \A d \in Ids \ {c} : bridge'.controllers[d] = bridge.controllers[d]
      /\ bridge'.slotToController = bridge.slotToController
      /\ bridge'.mask = bridge.mask /\ bridge'.active = bridge.active
  BY <1>3, <1>4, <1>5 DEF BridgeType
<1>9. host' \in HostType
  <2>1. /\ host'.pads \in [Slots -> SUBSET Buttons]
        /\ host'.mask \in SUBSET Slots /\ host'.mouse \in SUBSET MouseButtons
    BY <1>1, <1>3 DEF HostType, BridgeType
  <2>2. QED
    BY <1>3, <2>1 DEF HostType
<1>10. SlotsOK(bridge')
  <2>1. \A d \in Ids : bridge'.controllers[d].slot = bridge.controllers[d].slot
    BY <1>5, <1>8
  <2>2. \A s \in Slots : bridge.slotToController[s] # NoId => bridge.slotToController[s] \in Ids
    BY DEF BridgeType
  <2>3. QED
    BY <1>8, <2>1, <2>2 DEF SlotsOK
<1>11. l.simulated \subseteq l.previous \ l.suppressed
  <2>1. CASE told /\ mode
    BY <1>5, <2>1
  <2>2. CASE ~(told /\ mode)
    <3>1. l.simulated = {}
      BY <1>1, <1>5, <1>6, <1>7, <2>2
    <3>2. QED
      BY <3>1
  <2>3. QED
    BY <2>1, <2>2
<1>12. ControllersOK(bridge')
  BY <1>1, <1>5, <1>8, <1>11, SlotFacts DEF ControllersOK
<1>13. MouseOK(bridge', host')
  <2>1. l.simulated # {} => l.mouseMode /\ Told(bridge', l)
    BY <1>1, <1>5, <1>6, <1>7, <1>8 DEF Told, told
  <2>2. ASSUME NEW x \in host'.mouse PROVE \E d \in Ids : x \in bridge'.controllers[d].simulated
    <3>1. CASE told /\ mode /\ ~toggle /\ x \in now
      BY <1>5, <1>8, <3>1
    <3>2. CASE ~(told /\ mode /\ ~toggle /\ x \in now)
      <4>1. x \in host.mouse /\ (ended => x \notin k.simulated)
        BY <1>3, <2>2, <3>2
      <4>2. PICK d \in Ids : x \in bridge.controllers[d].simulated
        BY <4>1 DEF MouseOK
      <4>3. d # c
        <5> SUFFICES ASSUME d = c PROVE FALSE
          OBVIOUS
        <5>1. x \in k.simulated /\ k.mouseMode /\ told /\ ~toggle /\ mode
          BY <1>1, <1>6, <1>7, <4>1, <4>2
        <5>2. x \in before
          BY <1>1, <1>6, <5>1 DEF ControllersOK, Controller
        <5>3. QED
          BY <1>3, <2>2, <3>2, <5>1, <5>2
      <4>4. QED
        BY <1>8, <4>2, <4>3
    <3>3. QED
      BY <3>1, <3>2
  <2>3. QED
    BY <1>8, <2>1, <2>2 DEF MouseOK, Told
<1>14. PadsOK(bridge', host')
  <2>1. \A d \in Ids : /\ Told(bridge', bridge'.controllers[d]) <=> Told(bridge, bridge.controllers[d])
                       /\ bridge'.controllers[d].slot = bridge.controllers[d].slot
    BY <1>5, <1>8 DEF Told
  <2>2. \A d \in Ids : Told(bridge, bridge.controllers[d]) =>
                           bridge.controllers[d].slot \in host.mask \cap bridge.mask
    <3>1. \A d \in Ids : Told(bridge, bridge.controllers[d]) => bridge.controllers[d].slot \in Slots
      BY <1>1 DEF Told, ControllersOK, Absent, Controller
    <3>2. QED
      BY <3>1, SlotFacts DEF PadsOK, SlotsOK
  <2>3. \A d \in Ids : Told(bridge', bridge'.controllers[d]) =>
                           bridge'.controllers[d].slot \in host'.mask
    BY <1>3, <2>1, <2>2
  <2>4. ASSUME NEW s \in Slots, host'.pads[s] # {}
        PROVE  \E d \in Ids : bridge.controllers[d].slot = s /\ Told(bridge, bridge.controllers[d])
    <3>1. host.pads \in [Slots -> SUBSET Buttons]
      BY DEF HostType
    <3>2. CASE told /\ s = k.slot
      BY <3>2 DEF told
    <3>3. CASE ~(told /\ s = k.slot)
      <4>1. host.pads[s] # {}
        BY <1>3, <2>4, <3>1, <3>3
      <4>2. QED
        BY <4>1 DEF PadsOK
    <3>4. QED
      BY <3>2, <3>3
  <2>5. QED
    BY <2>1, <2>3, <2>4 DEF PadsOK
<1>15. QED
  BY <1>8, <1>9, <1>10, <1>12, <1>13, <1>14
-----------------------------------------------------------------------------
\* Every step keeps the bridge sound.
LEMMA NextKeeps == BridgeInv /\ [BridgeNext]_<<bridge, host>> => BridgeInv'
<1> SUFFICES ASSUME BridgeInv, [BridgeNext]_<<bridge, host>> PROVE BridgeInv'
  OBVIOUS
<1>1. ASSUME NEW c \in Ids, NEW accepted \in BOOLEAN, Connect(c, accepted) PROVE BridgeInv'
  BY <1>1, ConnectKeeps
<1>2. ASSUME NEW c \in Ids, Disconnect(c) \/ WorkerSends(c) PROVE BridgeInv'
  BY <1>2, DisconnectKeeps, WorkerKeeps
<1>3. ASSUME NEW c \in Ids, NEW stale \in BOOLEAN, Reject(c, stale) PROVE BridgeInv'
  BY <1>3 DEF Reject, BridgeInv
<1>4. ASSUME NEW c \in Ids, NEW pressed \in SUBSET Buttons, NEW long \in BOOLEAN,
             State(c, pressed, long)
      PROVE  BridgeInv'
  BY <1>4, StateKeeps
<1>5. ASSUME NEW failing \in SUBSET Ids, Activate(failing) PROVE BridgeInv'
  BY <1>5, ActivateKeeps
<1>6. CASE Deactivate
  <2>1. bridge' = [BridgeCleared(bridge) EXCEPT !.active = FALSE, !.shutdown = FALSE]
    BY <1>6 DEF Deactivate, BridgeCleared, BridgeInv, Sound, BridgeType
  <2>2. QED
    BY <1>6, <2>1, ClearedSound DEF Deactivate
<1>7. CASE OnTransportClosed
  <2>1. /\ bridge.active \in BOOLEAN
        /\ bridge' = [BridgeCleared(bridge) EXCEPT !.active = bridge.active, !.shutdown = FALSE]
    BY <1>7 DEF OnTransportClosed, BridgeCleared, BridgeInv, Sound, BridgeType
  <2>2. QED
    BY <1>7, <2>1, ClearedSound DEF OnTransportClosed
<1>8. CASE Shutdown
  BY <1>8, ClearedSound DEF Shutdown
<1>9. CASE UNCHANGED <<bridge, host>>
  BY <1>9 DEF BridgeInv
<1>10. QED
  BY <1>1, <1>2, <1>3, <1>4, <1>5, <1>6, <1>7, <1>8, <1>9 DEF BridgeNext

\* The bridge is sound in every reachable state.
LEMMA BridgeInvariant == BridgeSpec => []BridgeInv
BY InitSound, NextKeeps, PTL DEF BridgeSpec

\* The bridge's data keep their types.
THEOREM BridgeTypeCorrect == BridgeSpec => []BridgeTypeOK
BY BridgeInvariant, InvImplies, PTL

\* The controllers, the slots and the mask agree, whatever controllers come and go, with
\* the stream active or not: at() in handleRumble finds its controller.
THEOREM SlotsAlwaysAgree == BridgeSpec => []SlotsAgree
BY BridgeInvariant, InvImplies, PTL

\* No mouse button stays down at the host without a controller in mouse mode that holds it.
THEOREM MouseReleased == BridgeSpec => []MouseHeldByController
BY BridgeInvariant, InvImplies, PTL

\* No button of a pad stays pressed at the host without its controller.
THEOREM PadReleased == BridgeSpec => []PadHeldByController
BY BridgeInvariant, InvImplies, PTL
=============================================================================
