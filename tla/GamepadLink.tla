---------------------------- MODULE GamepadLink ----------------------------
(***************************************************************************)
(* Gamepads from the player's hand to the host: the TV's manager           *)
(* (TvGamepads), the two data channels, and the Gateway's bridge           *)
(* (InputBridge).  "control" is reliable and ordered; "gamepad" is         *)
(* unordered and loses messages (maxRetransmits 0).                        *)
(***************************************************************************)
EXTENDS InputBridge, FiniteSets, SequencesExt

CONSTANTS Pads, MaxId, MaxInFlight,
          Lossy     \* whether the gamepad channel loses messages

\* Ids are given out from 1; the browser numbers the gamepads.
ASSUME LinkAssumption ==
    /\ MaxId \in Nat /\ Ids = 1..MaxId
    /\ Pads \subseteq Nat /\ IsFiniteSet(Pads)

VARIABLES device, tv, control, states,
          stream    \* the Gateway's streaming thread and the transport: "starting", "on",
                    \* "over", "closed"

TV == INSTANCE TvGamepads WITH MaxControllers <- SlotCount

linkVars == <<bridge, host, device, tv, control, states, stream>>

LinkInit == BridgeInit /\ TV!TvInit /\ stream = "starting"
-----------------------------------------------------------------------------
TvActs == stream # "closed" /\ TV!TvNext /\ UNCHANGED <<bridge, host, stream>>

ReceiveControl(accepted) ==
    /\ control # <<>>
    /\ \/ Head(control).type = "gamepad-connected" /\ Connect(Head(control).id, accepted)
       \/ Head(control).type = "gamepad-disconnected" /\ Disconnect(Head(control).id)
    /\ control' = Tail(control)
    /\ UNCHANGED <<device, tv, states, stream>>

\* The i-th state in flight arrives; those of its controller that were sent earlier are
\* out of date from now on.
AcceptState(i, long) ==
    /\ i \in DOMAIN states /\ ~states[i].stale
    /\ State(states[i].id, states[i].pressed, long)
    /\ states' = RemoveAt([j \in DOMAIN states |->
                     IF j < i /\ states[j].id = states[i].id
                     THEN [states[j] EXCEPT !.stale = TRUE] ELSE states[j]], i)
    /\ UNCHANGED <<device, tv, control, stream>>

RejectState(i) ==
    /\ i \in DOMAIN states
    /\ Reject(states[i].id, states[i].stale)
    /\ states' = RemoveAt(states, i)
    /\ UNCHANGED <<device, tv, control, stream>>

LoseState(i) ==
    /\ Lossy /\ i \in DOMAIN states
    /\ states' = RemoveAt(states, i)
    /\ UNCHANGED <<bridge, host, device, tv, control, stream>>

ReceiveMouseMode(c) ==
    /\ WorkerSends(c)
    /\ TV!ReceiveMouseMode(c, Head(bridge.outbox[c]))
    /\ UNCHANGED stream

\* The streaming thread, once.
StreamStarts(failing) ==
    /\ stream = "starting" /\ stream' = "on"
    /\ Activate(failing)
    /\ UNCHANGED <<device, tv, control, states>>

StreamEnds ==
    /\ stream = "on" /\ stream' = "over"
    /\ Deactivate
    /\ UNCHANGED <<device, tv, control, states>>

\* The data channels close with what is in them; the Session is released afterwards.  If
\* the thread still runs it deactivates a bridge without controllers first, which tells
\* the host nothing.
TransportCloses ==
    /\ stream # "closed" /\ stream' = "closed"
    /\ OnTransportClosed
    /\ control' = <<>> /\ states' = <<>>
    /\ UNCHANGED <<device, tv>>

SessionReleased ==
    /\ stream = "closed"
    /\ Shutdown
    /\ UNCHANGED <<device, tv, control, states, stream>>

LinkNext ==
    \/ TvActs
    \/ \E accepted \in BOOLEAN : ReceiveControl(accepted)
    \/ \E i \in 1..MaxInFlight : RejectState(i) \/ LoseState(i)
                                 \/ \E long \in BOOLEAN : AcceptState(i, long)
    \/ \E c \in Ids : ReceiveMouseMode(c)
    \/ \E failing \in SUBSET Ids : StreamStarts(failing)
    \/ StreamEnds \/ TransportCloses \/ SessionReleased

LinkSpec == LinkInit /\ [][LinkNext]_linkVars

\* The poll timer fires, and a channel into which states are put again and again neither
\* refuses nor loses them all.
PollSends ==
    /\ stream # "closed"
    /\ \E keepalive \in BOOLEAN, sent \in SUBSET Pads : sent # {} /\ TV!Poll(keepalive, sent)
    /\ UNCHANGED <<bridge, host, stream>>

StateArrives == \E i \in 1..MaxInFlight : RejectState(i) \/ \E long \in BOOLEAN : AcceptState(i, long)

FairLinkSpec == LinkSpec /\ SF_linkVars(PollSends) /\ SF_linkVars(StateArrives)
-----------------------------------------------------------------------------
LinkTypeOK ==
    /\ BridgeTypeOK /\ TV!TvTypeOK
    /\ stream \in {"starting", "on", "over", "closed"}

\* Once the control channel is empty the Gateway has exactly the controllers the TV has
\* announced, none refused for want of a slot, and none of a hidden TV.  The channel's
\* order matters: ids are new each time, slots are not.
ControllersAgree ==
    stream \in {"starting", "on"} /\ control = <<>> => Connected = TV!AnnouncedIds(tv)

\* Once nothing is on its way, the TV shows mouse mode for the controllers that are in it.
MouseModeShown ==
    stream \in {"starting", "on"} /\ control = <<>> =>
        \A p \in TV!Announced(tv) :
            LET c == tv.records[p].id IN
            bridge.outbox[c] = <<>> => tv.records[p].mouseMode = bridge.controllers[c].mouseMode

\* Of a gamepad in use, outside mouse mode, the host in the end shows the buttons held,
\* whatever the channel dropped, lost or reordered and whenever the stream began.
InUse(p, buttons) ==
    LET c == tv.records[p].id IN
    /\ p \in device.plugged /\ device.held[p] = buttons
    /\ ~tv.hidden /\ ~tv.menu /\ c # 0
    /\ Told(bridge, bridge.controllers[c]) /\ ~bridge.controllers[c].mouseMode

Shown(p, buttons) ==
    \E c \in Connected : /\ c = tv.records[p].id
                         /\ host.pads[bridge.controllers[c].slot] = buttons

HostFollows ==
    \A p \in Pads, buttons \in SUBSET Buttons :
        <>[]InUse(p, buttons) => <>[]Shown(p, buttons)

\* pauseForUi sends a neutral state, so no button is held while the menu is open, once
\* all states have arrived.  Of a dropped state sendState says "Dropping a state here
\* costs nothing: the next poll is 8 ms away and carries a newer one".
MenuHoldsNothing ==
    tv.menu /\ control = <<>> /\ states = <<>> =>
        \A c \in Connected : ~bridge.controllers[c].mouseMode
                                 => host.pads[bridge.controllers[c].slot] = {}
=============================================================================
