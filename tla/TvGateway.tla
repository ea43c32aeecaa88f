----------------------------- MODULE TvGateway -----------------------------
(***************************************************************************)
(* The TV and the Gateway over one WebSocket, which delivers every message *)
(* once and in order (gateway-protocol.md) but after any delay.            *)
(***************************************************************************)
EXTENDS Naturals, Sequences, Protocol

CONSTANTS
    Apps, Codecs,
    MaxClicks,    \* bound: what the user does
    MaxQueue      \* bound: the Gateway sends when fewer messages wait for the TV

ASSUME ConstantsAssumption == NoApp \notin Apps /\ {MaxClicks, MaxQueue} \subseteq Nat

VARIABLES
    screen, sessionState, currentSessionId, peerConnection, answering, cancelRequested,
    cancelSent, switching, busy, runningAppId, selectedApp, av1Supported, toGateway,
    serving, nextSessionId, sessionId, codec, app, stopRequested, stream, peerConnected,
    offered, answered, hostApp, toTv,
    clicks

TV == INSTANCE TvClient
GW == INSTANCE GatewayService

tvView == <<screen, sessionState, currentSessionId, peerConnection, answering, cancelRequested,
            cancelSent, switching, busy, runningAppId, selectedApp, av1Supported>>
gateway == <<serving, nextSessionId, sessionId, codec, app, stopRequested, stream,
             peerConnected, offered, answered, hostApp>>
vars == <<tvView, toGateway, gateway, toTv, clicks>>

\* The TV has just read the state of the host.
Init == TV!Init /\ GW!Init /\ runningAppId = hostApp /\ clicks = 0

UserActs ==
    /\ clicks < MaxClicks
    /\ TV!User
    /\ clicks' = clicks + 1
    /\ UNCHANGED <<gateway, toTv>>

\* A stalled decoder is only looked for under AV1.
TvActs ==
    /\ TV!AnswerOffer \/ TV!SettingsTimer \/ (codec = "av1" /\ TV!Av1BlackScreen)
    /\ UNCHANGED <<gateway, toTv, clicks>>

TvReceives ==
    /\ toTv # <<>>
    /\ TV!Handle(Head(toTv))
    /\ toTv' = Tail(toTv)
    /\ UNCHANGED <<gateway, clicks>>

GatewayReceives ==
    /\ toGateway # <<>> /\ serving.pc = "idle" /\ Len(toTv) < MaxQueue
    /\ GW!Handle(Head(toGateway))
    /\ toGateway' = Tail(toGateway)
    /\ UNCHANGED <<tvView, clicks>>

Gateway(action) ==
    /\ Len(toTv) < MaxQueue
    /\ action
    /\ UNCHANGED <<tvView, toGateway, clicks>>

GatewayServes  == Gateway(GW!Serving)
GatewayStreams == Gateway(GW!Thread)
GatewayOther   == Gateway(GW!WebRtc \/ GW!Host)

Next ==
    \/ UserActs \/ TvActs \/ TvReceives
    \/ GatewayReceives \/ GatewayServes \/ GatewayStreams \/ GatewayOther

Spec == Init /\ [][Next]_vars

\* Messages arrive, handlers and the streaming thread go on.  Nothing is assumed
\* of the user, the browser's WebRTC, the peer connection or Sunshine.
Fairness ==
    /\ WF_vars(TvReceives) /\ WF_vars(GatewayReceives)
    /\ WF_vars(GatewayServes) /\ WF_vars(GatewayStreams)

FairSpec == Spec /\ Fairness
-----------------------------------------------------------------------------
\* Everything sent has arrived and been handled.
Quiet == toTv = <<>> /\ toGateway = <<>> /\ serving.pc = "idle" /\ answering = 0

Known == 0..nextSessionId - 1

\* A type invariant; the session ids on the TV are ones the Gateway has given.
TypeOK ==
    /\ screen \in {"home", "launching", "streaming"}
    /\ {sessionId, currentSessionId, peerConnection, answering} \subseteq Known
    /\ {app, hostApp, runningAppId, selectedApp, serving.app} \subseteq Apps \cup {NoApp}
    /\ {cancelRequested, cancelSent, switching, busy, av1Supported, stopRequested,
        peerConnected, offered, answered} \subseteq BOOLEAN
    /\ stream \in {"none", "waiting", "starting", "streaming", "ending", "over"}
    /\ serving.pc \in {"idle", "start", "stop", "query", "stopLocal", "cancel", "await"}
    /\ \A i \in DOMAIN toTv : toTv[i].sid \in Known
    /\ \A i \in DOMAIN toGateway : toGateway[i].sid \in Known

\* While the TV shows a stream it knows the id it needs to stop it, whatever
\* statuses, errors and offers of earlier sessions arrived late; and once all
\* messages are handled, an id it keeps is not that of a former session.
StreamIdKnown ==
    /\ screen = "streaming" /\ sessionState = "streaming" => currentSessionId # 0
    /\ Quiet /\ 0 \notin {sessionId, currentSessionId} => currentSessionId = sessionId

\* The stream of a launch the user has cancelled is never shown, although
\* "streaming" may be on its way when the user presses Back.
CancelHidesStream == cancelRequested => screen # "streaming"

\* A cancellation pressed before the TV knew the session's id is not lost: it is
\* sent as soon as a message brings the id.
CancellationSent == Quiet /\ cancelRequested /\ currentSessionId # 0 => cancelSent

\* This coarser Gateway keeps the promise GatewaySession is shown to keep.
Lease == INSTANCE SessionLease WITH
            current <- sessionId,
            last <- nextSessionId - 1,
            streaming <- stream = "streaming",
            running <- hostApp

LeaseSpec == Lease!Spec

\* A stop or a cancellation the TV sends ends the session, in whatever stage of
\* its launch the message finds it.
StopReleases ==
    (\E i \in DOMAIN toGateway : toGateway[i] = StopSession) ~> (sessionId = 0)
-----------------------------------------------------------------------------
(***************************************************************************)
(* What the documentation says and the code does not keep.                 *)
(***************************************************************************)
\* The Gateway takes the next request.
Takes(type) ==
    /\ toGateway # <<>> /\ toGateway' = Tail(toGateway)
    /\ Head(toGateway).type = type

\* gateway-protocol.md: "codec-unsupported", "so the client can automatically
\* fall back to HEVC".  (Only the fallback asks for a codec not in Codecs.)
FallbackStarts ==
    [][Takes("start-session") /\ Head(toGateway).codec \notin Codecs
         => serving'.pc = "start"]_vars

\* TizenUiTest.js: "switching applications requires an explicit confirmation
\* dialog".  New stream settings must restart the application that is streamed.
SettingsKeepApplication ==
    [][\A a \in Apps, c \in Codecs :
         stream = "streaming" /\ clicks' # clicks /\ TV!ChangeSettings(a, c) => a = app]_vars
=============================================================================
