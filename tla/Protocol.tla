------------------------------ MODULE Protocol ------------------------------
(***************************************************************************)
(* The WebSocket messages between the TV and the Gateway (GatewayProtocol, *)
(* docs/gateway-protocol.md) as far as sessions are concerned.  Stream     *)
(* settings are reduced to the codec; "sid" is 0 where a message carries   *)
(* no sessionId; SDP is reduced to whether the answer keeps the codec.     *)
(***************************************************************************)
EXTENDS Naturals

CONSTANT NoApp   \* "no application"

\* From the Gateway.
Message(type, state, sid) == [type |-> type, state |-> state, sid |-> sid]
Status(state, sid) == Message("session-status", state, sid)
HostStatus(state)  == Message("host-session-status", state, 0)
Error(code)        == Message("error", code, 0)
Offer(sid)         == Message("offer", "none", sid)
\* These two carry the application that runs on the host.
GatewayStatus(a)   == Message("gateway-status", a, 0)
AppList(a)         == Message("apps", a, 0)

\* From the TV.
Request(type, a, c) == [type |-> type, app |-> a, codec |-> c, sid |-> 0, accepted |-> FALSE]
StopSession         == Request("stop-session", NoApp, "none")
StopHostSession     == Request("stop-host-session", NoApp, "none")
GetApps             == Request("get-apps", NoApp, "none")
Answer(sid, accepted) ==
    [type |-> "answer", app |-> NoApp, codec |-> "none", sid |-> sid, accepted |-> accepted]
=============================================================================
