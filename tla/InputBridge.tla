---------------------------- MODULE InputBridge ----------------------------
(***************************************************************************)
(* The Gateway's MoonlightInputBridge: the controllers of a TV, the slots  *)
(* they have at the host, and mouse mode, in which some buttons of a       *)
(* controller are mouse buttons of the host.  Every operation holds mutex_.*)
(*                                                                         *)
(* Sticks, triggers, scrolling and mouse movement are left out, as are     *)
(* rumble and diagnostics: they are data that nothing here depends on.     *)
(***************************************************************************)
EXTENDS Naturals, Sequences

CONSTANTS
    Ids,            \* client controller ids
    SlotCount,      \* MaximumGamepads, 16 in the code
    Buttons, MouseButtons, Start,
    MaxOutbox       \* bound: no mouse mode change while the TV lags behind by this many

NoId == 0
Slots == 0..SlotCount - 1
NoSlot == SlotCount

ASSUME InputAssumption ==
    /\ NoId \notin Ids /\ MaxOutbox \in Nat /\ SlotCount \in Nat \ {0}
    /\ MouseButtons \subseteq Buttons /\ Start \in Buttons \ MouseButtons

VARIABLES
    bridge,    \* controllers, slotToController_, activeGamepadMask_, moonlightSessionActive_,
               \* shutdown_, and the mouse-mode messages on their way to the TV, per
               \* controller: those of different controllers have nothing to do with each other
    host       \* what the host was told: pressed buttons per slot, mask, mouse buttons down

Absent == [slot |-> NoSlot, announced |-> FALSE, previous |-> {}, mouseMode |-> FALSE,
           suppressed |-> {}, simulated |-> {}]

Connected == {c \in Ids : bridge.controllers[c].slot # NoSlot}

BridgeInit ==
    /\ bridge = [controllers |-> [c \in Ids |-> Absent],
                 slotToController |-> [s \in Slots |-> NoId],
                 mask |-> {}, active |-> FALSE, shutdown |-> FALSE,
                 outbox |-> [c \in Ids |-> <<>>]]
    /\ host = [pads |-> [s \in Slots |-> {}], mask |-> {}, mouse |-> {}]
-----------------------------------------------------------------------------
(***************************************************************************)
(* Helpers, as functions of the bridge b and what the host knows, h.       *)
(***************************************************************************)
Told(b, k) == b.active /\ k.announced

\* Mutant: the slot is not given back.
BridgeWithoutKeepsSlot(b, c) ==
    LET k == b.controllers[c] IN
    IF k.slot = NoSlot THEN b
    ELSE [b EXCEPT !.controllers[c] = Absent, !.mask = @ \ {k.slot}]

\* removeControllerLocked and neutralizeAndRemoveLocked.
BridgeWithout(b, c) ==
    LET k == b.controllers[c] IN
    IF k.slot = NoSlot THEN b
    ELSE [b EXCEPT !.controllers[c] = Absent,
                   !.slotToController[k.slot] = NoId,
                   !.mask = @ \ {k.slot},
                   !.outbox[c] = IF k.mouseMode THEN Append(@, FALSE) ELSE @]

\* Mutant: the mouse buttons the controller holds are not released.
HostWithoutKeepsMouse(b, h, c) ==
    LET k == b.controllers[c] IN
    IF k.slot = NoSlot \/ ~Told(b, k) THEN h
    ELSE [h EXCEPT !.pads[k.slot] = {}, !.mask = b.mask \ {k.slot}]

HostWithout(b, h, c) ==
    LET k == b.controllers[c] IN
    IF k.slot = NoSlot THEN h
    ELSE IF Told(b, k)
    THEN [pads |-> [h.pads EXCEPT ![k.slot] = {}], mask |-> b.mask \ {k.slot},
          mouse |-> h.mouse \ k.simulated]
    ELSE [h EXCEPT !.mouse = @ \ k.simulated]

\* clearControllersLocked, in an order that is not defined: the last neutral state
\* still has the mask of unannounced controllers that are removed after it.
BridgeCleared(b) ==
    [b EXCEPT !.controllers = [c \in Ids |-> Absent],
              !.slotToController = [s \in Slots |-> NoId],
              !.mask = {},
              !.outbox = [c \in Ids |-> IF b.controllers[c].mouseMode
                                         THEN Append(@[c], FALSE) ELSE @[c]]]

HostCleared(b, h, late) ==
    LET told == {b.controllers[c].slot : c \in {d \in Ids : Told(b, b.controllers[d])}} IN
    [pads  |-> [s \in Slots |-> IF s \in told THEN {} ELSE h.pads[s]],
     mask  |-> IF told = {} THEN h.mask ELSE late,
     mouse |-> h.mouse \ UNION {b.controllers[c].simulated : c \in Ids}]

Unannounced(b) == {b.controllers[c].slot : c \in {d \in Ids :
                        b.controllers[d].slot # NoSlot /\ ~b.controllers[d].announced}}

HostLearnsClear == \E late \in SUBSET Unannounced(bridge) : host' = HostCleared(bridge, host, late)

Free(b) == {s \in Slots : b.slotToController[s] = NoId}
LowestFree(b) == CHOOSE s \in Free(b) : \A t \in Free(b) : s <= t
-----------------------------------------------------------------------------
\* "gamepad-connected".  A controller that is already there is removed first.
\* accepted: controllerArrival succeeded.
Connect(c, accepted) ==
    LET b == BridgeWithout(bridge, c)
        h == HostWithout(bridge, host, c)
        s == LowestFree(b)
        told == b.active /\ accepted
    IN
    /\ ~bridge.shutdown
    /\ IF Free(b) = {}
       THEN bridge' = b /\ host' = h
       ELSE /\ bridge' = [b EXCEPT !.controllers[c] = [Absent EXCEPT !.slot = s,
                                                                     !.announced = told],
                                   !.slotToController[s] = c,
                                   !.mask = @ \cup {s}]
            /\ host' = IF told THEN [h EXCEPT !.mask = b.mask \cup {s}] ELSE h

\* "gamepad-disconnected".
Disconnect(c) ==
    /\ ~bridge.shutdown
    /\ bridge' = BridgeWithout(bridge, c)
    /\ host' = HostWithout(bridge, host, c)

\* A state of a controller that is not there, or not newer than the last accepted one.
Reject(c, stale) ==
    /\ bridge.shutdown \/ bridge.controllers[c].slot = NoSlot \/ stale
    /\ UNCHANGED <<bridge, host>>

\* Mutant: buttons that are not mouse buttons are suppressed as well.
SuppressedAll(k, pressed, toggle) ==
    IF ~toggle THEN k.suppressed ELSE IF k.mouseMode THEN {} ELSE pressed

\* Buttons held when mouse mode begins are no mouse buttons until they are released.
Suppressed(k, pressed, toggle) ==
    IF ~toggle THEN k.suppressed ELSE IF k.mouseMode THEN {} ELSE pressed \cap MouseButtons

\* "gamepad-state": Start was released after it was held for more than 750 ms (long),
\* so mouse mode begins or ends.
State(c, pressed, long) ==
    LET k      == bridge.controllers[c]
        told   == Told(bridge, k)
        toggle == Start \in k.previous /\ Start \notin pressed /\ long
        mode   == k.mouseMode # toggle
        supp   == Suppressed(k, pressed, toggle)
        now    == (pressed \ supp) \cap MouseButtons
        before == (k.previous \ supp) \cap MouseButtons
        \* Leaving mouse mode releases what it holds.
        ended  == toggle /\ k.mouseMode
    IN
    /\ ~bridge.shutdown /\ k.slot # NoSlot
    /\ toggle => Len(bridge.outbox[c]) < MaxOutbox
    /\ bridge' = [bridge EXCEPT
         !.controllers[c] = [k EXCEPT
             !.previous = pressed, !.mouseMode = mode,
             !.suppressed = IF told /\ mode THEN supp \cap pressed ELSE supp,
             !.simulated = IF told /\ mode THEN now ELSE IF ended THEN {} ELSE @],
         !.outbox[c] = IF toggle THEN Append(@, mode) ELSE @]
    /\ host' = [pads  |-> IF told /\ (toggle \/ ~mode)
                          THEN [host.pads EXCEPT ![k.slot] = pressed] ELSE host.pads,
                mask  |-> IF told /\ (toggle \/ ~mode) THEN bridge.mask ELSE host.mask,
                mouse |-> IF ended THEN host.mouse \ k.simulated
                          ELSE IF told /\ mode /\ ~toggle
                          THEN (host.mouse \cup (now \ before)) \ (before \ now)
                          ELSE host.mouse]

\* setMoonlightSessionActive(true): every controller is announced; an arrival may fail.
Activate(failing) ==
    LET arrived == {c \in Connected : ~bridge.controllers[c].announced} \ failing IN
    /\ ~bridge.shutdown /\ ~bridge.active
    /\ bridge' = [bridge EXCEPT
         !.active = TRUE,
         !.controllers = [c \in Ids |-> IF c \in arrived THEN [@[c] EXCEPT !.announced = TRUE]
                                         ELSE @[c]]]
    /\ host' = IF arrived = {} THEN host ELSE [host EXCEPT !.mask = bridge.mask]

\* Mutant: the controllers are kept.
DeactivateKeeps ==
    /\ ~bridge.shutdown /\ bridge.active
    /\ bridge' = [bridge EXCEPT !.active = FALSE]
    /\ UNCHANGED host

\* setMoonlightSessionActive(false).
Deactivate ==
    /\ ~bridge.shutdown /\ bridge.active
    /\ HostLearnsClear
    /\ bridge' = [BridgeCleared(bridge) EXCEPT !.active = FALSE]

OnTransportClosed ==
    /\ ~bridge.shutdown
    /\ HostLearnsClear
    /\ bridge' = BridgeCleared(bridge)

Shutdown ==
    /\ ~bridge.shutdown
    /\ HostLearnsClear
    /\ bridge' = [BridgeCleared(bridge) EXCEPT !.active = FALSE, !.shutdown = TRUE]

\* workerLoop hands the oldest message about c to the channel; it ends at shutdown.
WorkerSends(c) ==
    /\ ~bridge.shutdown /\ bridge.outbox[c] # <<>>
    /\ bridge' = [bridge EXCEPT !.outbox[c] = Tail(@)]
    /\ UNCHANGED host

BridgeNext ==
    \/ \E c \in Ids, accepted \in BOOLEAN : Connect(c, accepted)
    \/ \E c \in Ids : Disconnect(c) \/ WorkerSends(c)
    \/ \E c \in Ids, stale \in BOOLEAN : Reject(c, stale)
    \/ \E c \in Ids, pressed \in SUBSET Buttons, long \in BOOLEAN : State(c, pressed, long)
    \/ \E failing \in SUBSET Ids : Activate(failing)
    \/ Deactivate \/ OnTransportClosed \/ Shutdown

BridgeSpec == BridgeInit /\ [][BridgeNext]_<<bridge, host>>
-----------------------------------------------------------------------------
Controller == [slot : Slots \cup {NoSlot}, announced : BOOLEAN, previous : SUBSET Buttons,
               mouseMode : BOOLEAN, suppressed : SUBSET MouseButtons,
               simulated : SUBSET MouseButtons]

BridgeTypeOK ==
    /\ bridge \in [controllers : [Ids -> Controller], slotToController : [Slots -> Ids \cup {NoId}],
                   mask : SUBSET Slots, active : BOOLEAN, shutdown : BOOLEAN,
                   outbox : [Ids -> Seq(BOOLEAN)]]
    /\ host \in [pads : [Slots -> SUBSET Buttons], mask : SUBSET Slots,
                 mouse : SUBSET MouseButtons]

\* The three records of who has which slot agree: handleRumble finds the controller
\* of a slot with at(), which throws when they do not.
SlotsAgree ==
    /\ \A c \in Connected : bridge.slotToController[bridge.controllers[c].slot] = c
    /\ \A s \in Slots : bridge.slotToController[s] # NoId =>
                            bridge.controllers[bridge.slotToController[s]].slot = s
    /\ bridge.mask = {s \in Slots : bridge.slotToController[s] # NoId}

\* No mouse button stays down at the host unless a controller in mouse mode holds it,
\* so none does when its controller is unplugged, leaves mouse mode or the stream ends.
MouseHeldByController ==
    /\ host.mouse \subseteq UNION {bridge.controllers[c].simulated : c \in Connected}
    /\ \A c \in Ids : bridge.controllers[c].simulated # {} =>
                          bridge.controllers[c].mouseMode /\ Told(bridge, bridge.controllers[c])

\* No button of a pad stays pressed at the host unless its controller is connected and
\* announced; and the host's mask has every such pad.
PadHeldByController ==
    /\ \A s \in Slots : host.pads[s] # {} =>
           \E c \in Connected : bridge.controllers[c].slot = s /\ Told(bridge, bridge.controllers[c])
    /\ \A c \in Connected : Told(bridge, bridge.controllers[c])
                                => bridge.controllers[c].slot \in host.mask
=============================================================================
