---------------------------- MODULE TvGamepads -----------------------------
(***************************************************************************)
(* The GamepadInputManager of the TV while a stream plays: which gamepads  *)
(* it knows, which it has announced to the Gateway, and when it sends      *)
(* their state.  Both data channels are open; the module that composes     *)
(* this one ends when they close.                                          *)
(*                                                                         *)
(* A state is the set of buttons held.  Its sequence number is only ever   *)
(* compared, so a message in flight has a flag instead, set when the       *)
(* Gateway has accepted a newer state of the same controller.              *)
(***************************************************************************)
EXTENDS Naturals, FiniteSets, SequencesExt

CONSTANTS
    Pads,             \* indexes of gamepads, numbers
    Buttons,
    MaxControllers,   \* MAX_CONTROLLERS, 16 in the code
    MaxId,            \* bound: controller ids given out
    MaxInFlight       \* bound: states in the gamepad channel; beyond it, it is congested

VARIABLES
    device,     \* the browser's gamepads: plugged in, with an event due, buttons held
    tv,         \* records, next id, document.hidden, the stream menu, the poll timer
    control,    \* the reliable, ordered channel to the Gateway
    states      \* the unordered channel to the Gateway, in the order of sending

tvVars == <<device, tv, control, states>>

NoRecord == [id |-> 0, announced |-> FALSE, hasSent |-> FALSE, lastSent |-> {},
             mouseMode |-> FALSE]

TvInit ==
    /\ device = [plugged |-> {}, event |-> {}, held |-> [p \in Pads |-> {}]]
    /\ tv = [records |-> [p \in Pads |-> NoRecord], next |-> 1,
             hidden |-> FALSE, menu |-> FALSE, polling |-> TRUE]
    /\ control = <<>>
    /\ states = <<>>

\* Of the manager t.
Known(t) == {p \in Pads : t.records[p].id # 0}
Announced(t) == {p \in Pads : t.records[p].announced}
AnnouncedIds(t) == {t.records[p].id : p \in Announced(t)}
CanAnnounce(t) == ~t.hidden /\ ~t.menu
-----------------------------------------------------------------------------
\* register, of every gamepad that has no record.
Registered(t) ==
    LET new      == device.plugged \ Known(t)
        before(p) == Cardinality({q \in new : q < p})
        taken    == {p \in new : before(p) + Cardinality(Known(t)) < MaxControllers}
    IN [t EXCEPT !.next = @ + Cardinality(taken),
                 !.records = [p \in Pads |->
                     IF p \in taken THEN [NoRecord EXCEPT !.id = t.next + before(p),
                                                          !.announced = CanAnnounce(t)]
                     ELSE @[p]]]

Unregistered(t, gone) ==
    [t EXCEPT !.records = [p \in Pads |-> IF p \in gone THEN NoRecord ELSE @[p]]]

Enumerated(t) == LET r == Registered(t) IN Unregistered(r, Known(r) \ device.plugged)

WithAllAnnounced(t) ==
    [t EXCEPT !.records = [p \in Pads |->
        IF p \in Known(t) /\ CanAnnounce(t) THEN [@[p] EXCEPT !.announced = TRUE] ELSE @[p]]]

\* resume.  isStreaming is false while the menu is open.
Resumed(t) ==
    LET a == WithAllAnnounced(Enumerated(t)) IN
    IF t.menu THEN Enumerated(t)
    ELSE [a EXCEPT !.polling = @ \/ ~t.hidden,
                   !.records = [p \in Pads |-> [@[p] EXCEPT !.hasSent = FALSE]]]

\* The manager becomes t, and the Gateway is told of the controllers that came and went.
Become(t) ==
    LET about(type, ids) == SetToSeq({[type |-> type, id |-> c] : c \in ids}) IN
    /\ tv' = t
    /\ control' = control \o about("gamepad-connected", AnnouncedIds(t) \ AnnouncedIds(tv))
                          \o about("gamepad-disconnected", AnnouncedIds(tv) \ AnnouncedIds(t))

\* sendState.  Of the states in out, those that find the channel congested are dropped.
Send(out) ==
    /\ Len(states) + Cardinality(out) <= MaxInFlight
    /\ states' = states \o SetToSeq({[id |-> m.id, pressed |-> m.pressed, stale |-> FALSE] : m \in out})

Neutral(pads) == {[id |-> tv.records[p].id, pressed |-> {}] : p \in pads \cap Announced(tv)}
-----------------------------------------------------------------------------
\* The player.  An event follows each change of what is plugged in.
IdsToCome == Cardinality(device.plugged \ Known(tv))

Plug(p) ==
    /\ p \notin device.plugged \cup device.event
    /\ tv.next + IdsToCome <= MaxId
    /\ device' = [device EXCEPT !.plugged = @ \cup {p}, !.event = @ \cup {p}]
    /\ UNCHANGED <<tv, control, states>>

Unplug(p) ==
    /\ p \in device.plugged \ device.event
    /\ device' = [device EXCEPT !.plugged = @ \ {p}, !.event = @ \cup {p}, !.held[p] = {}]
    /\ UNCHANGED <<tv, control, states>>

Press(p, buttons) ==
    /\ p \in device.plugged /\ device.held[p] # buttons
    /\ device' = [device EXCEPT !.held[p] = buttons]
    /\ UNCHANGED <<tv, control, states>>

GamepadConnected(p) ==
    /\ p \in device.event \cap device.plugged
    /\ Become(Resumed(tv))
    /\ device' = [device EXCEPT !.event = @ \ {p}]
    /\ UNCHANGED states

GamepadDisconnected(p) ==
    /\ p \in device.event \ device.plugged
    /\ Become(Unregistered(tv, {p}))
    /\ \E out \in SUBSET Neutral({p}) : Send(out)
    /\ device' = [device EXCEPT !.event = @ \ {p}]

\* A state is due when it differs from the one sent last, or after KEEPALIVE_INTERVAL_MS.
\* Mutant: there is no keepalive.
DueNoKeepalive(record, state, keepalive) == ~record.hasSent \/ record.lastSent # state

Due(record, state, keepalive) == ~record.hasSent \/ record.lastSent # state \/ keepalive

Poll(keepalive, sent) ==
    LET t == WithAllAnnounced(Enumerated(tv)) IN
    /\ tv.polling /\ CanAnnounce(tv)
    /\ sent \subseteq {p \in Announced(t) : Due(t.records[p], device.held[p], keepalive)}
    /\ Become([t EXCEPT !.records = [p \in Pads |->
                   IF p \in sent THEN [@[p] EXCEPT !.hasSent = TRUE, !.lastSent = device.held[p]]
                   ELSE @[p]]])
    /\ \E out \in SUBSET Neutral(Known(tv) \ device.plugged) :
           Send(out \cup {[id |-> t.records[p].id, pressed |-> device.held[p]] : p \in sent})
    /\ UNCHANGED device

\* showStreamMenu with pauseForUi.
OpenMenu ==
    /\ ~tv.hidden /\ ~tv.menu
    /\ Become([tv EXCEPT !.menu = TRUE, !.polling = FALSE])
    /\ \E out \in SUBSET Neutral(Pads) : Send(out)
    /\ UNCHANGED device

CloseMenu ==
    /\ ~tv.hidden /\ tv.menu
    /\ Become(Resumed([tv EXCEPT !.menu = FALSE]))
    /\ UNCHANGED <<device, states>>

\* Mutant: suspend(false).
HideSilently ==
    /\ ~tv.hidden
    /\ tv.next + Cardinality(device.plugged) <= MaxId + 1
    /\ tv' = [Unregistered(tv, Pads) EXCEPT !.hidden = TRUE, !.polling = FALSE]
    /\ \E out \in SUBSET Neutral(Pads) : Send(out)
    /\ UNCHANGED <<device, control>>

\* visibilitychange: suspend(true), and resume.
Hide ==
    /\ ~tv.hidden
    /\ tv.next + Cardinality(device.plugged) <= MaxId + 1
    /\ Become([Unregistered(tv, Pads) EXCEPT !.hidden = TRUE, !.polling = FALSE])
    /\ \E out \in SUBSET Neutral(Pads) : Send(out)
    /\ UNCHANGED device

Show ==
    /\ tv.hidden
    /\ Become(Resumed([tv EXCEPT !.hidden = FALSE]))
    /\ UNCHANGED <<device, states>>

\* Mutant: mouse mode never ends.
ReceiveMouseModeOn(c, active) ==
    /\ tv' = [tv EXCEPT !.records = [p \in Pads |->
                  IF @[p].id = c THEN [@[p] EXCEPT !.mouseMode = @ \/ active] ELSE @[p]]]
    /\ UNCHANGED <<device, control, states>>

\* handleControlMessage, for "mouse-mode".
ReceiveMouseMode(c, active) ==
    /\ tv' = [tv EXCEPT !.records = [p \in Pads |->
                  IF @[p].id = c THEN [@[p] EXCEPT !.mouseMode = active] ELSE @[p]]]
    /\ UNCHANGED <<device, control, states>>

TvNext ==
    \/ \E p \in Pads : Plug(p) \/ Unplug(p) \/ GamepadConnected(p) \/ GamepadDisconnected(p)
    \/ \E p \in Pads, buttons \in SUBSET Buttons : Press(p, buttons)
    \/ \E keepalive \in BOOLEAN, sent \in SUBSET Pads : Poll(keepalive, sent)
    \/ OpenMenu \/ CloseMenu \/ Hide \/ Show

TvTypeOK ==
    /\ device \in [plugged : SUBSET Pads, event : SUBSET Pads, held : [Pads -> SUBSET Buttons]]
    /\ tv \in [records : [Pads -> [id : 0..MaxId, announced : BOOLEAN, hasSent : BOOLEAN,
                                   lastSent : SUBSET Buttons, mouseMode : BOOLEAN]],
               next : 1..MaxId + 1, hidden : BOOLEAN, menu : BOOLEAN, polling : BOOLEAN]
    /\ control \in Seq([type : {"gamepad-connected", "gamepad-disconnected"}, id : 1..MaxId])
    /\ states \in Seq([id : 1..MaxId, pressed : SUBSET Buttons, stale : BOOLEAN])
=============================================================================
