------------------------------ MODULE TvClient ------------------------------
(***************************************************************************)
(* The TV's side of a session: tizen/app.js.                               *)
(*                                                                         *)
(* JavaScript runs one handler at a time; handleOffer awaits the browser's *)
(* WebRTC calls, so the answer is a step of its own.  The screens the user *)
(* can see decide which of the user's actions are possible.                *)
(*                                                                         *)
(* Not modelled: autostart, reconnecting, probing and waking of Gateways,  *)
(* gamepads, statistics other than the AV1 check.                          *)
(***************************************************************************)
EXTENDS Naturals, Sequences, Protocol

CONSTANTS Apps, Codecs

VARIABLES
    screen,              \* the screen shown: "home", "launching" or "streaming"
    sessionState,
    currentSessionId,
    peerConnection,      \* the sessionId its RTCPeerConnection was made for, or 0
    answering,           \* the sessionId whose offer handleOffer awaits on, or 0
    cancelRequested,     \* launchCancellationRequested
    cancelSent,          \* launchCancellationSent
    switching,           \* isSwitchingStreamSettings
    busy,                \* hostOperationBusy
    runningAppId,
    selectedApp,         \* selectedSession.appId, NoApp when there is no selectedSession
    av1Supported,        \* webRtcAv1Supported: AV1 is still offered to the user
    toGateway            \* messages on their way to the Gateway

launch == <<cancelRequested, cancelSent>>
web    == <<currentSessionId, peerConnection, answering>>
host   == <<busy, runningAppId, selectedApp, av1Supported>>
view   == <<screen, sessionState, web, launch, switching, host>>
vars   == <<view, toGateway>>

SendRequests(messages) == toGateway' = toGateway \o messages
SendNothing == UNCHANGED toGateway

\* The codecs the settings offer (applySelectedVideoMode).
Choices == IF av1Supported THEN Codecs ELSE Codecs \ {"av1"}

Init ==
    /\ screen = "home"
    /\ sessionState = "idle" /\ currentSessionId = 0
    /\ peerConnection = 0 /\ answering = 0
    /\ cancelRequested = FALSE /\ cancelSent = FALSE
    /\ switching = FALSE /\ busy = FALSE
    /\ runningAppId \in Apps \cup {NoApp}
    /\ selectedApp = NoApp
    /\ av1Supported = TRUE
    /\ toGateway = <<>>
-----------------------------------------------------------------------------
(***************************************************************************)
(* The user                                                                *)
(***************************************************************************)
\* launchApplication with nothing running, then startSelectedSession.
LaunchApplication(a, c) ==
    /\ screen = "home" /\ ~busy /\ runningAppId = NoApp /\ sessionState = "idle"
    /\ c \in Choices
    /\ selectedApp' = a
    /\ cancelRequested' = FALSE /\ cancelSent' = FALSE
    /\ sessionState' = "starting"
    /\ screen' = "launching"
    /\ SendRequests(<<Request("start-session", a, c)>>)
    /\ UNCHANGED <<web, switching, busy, runningAppId, av1Supported>>

\* cancelLaunchingSession, and requestLaunchCancellation once the id is known.
CancelLaunch ==
    /\ screen = "launching"
    /\ cancelRequested' = TRUE
    /\ IF currentSessionId # 0 /\ ~cancelSent
       THEN /\ cancelSent' = TRUE
            /\ sessionState' = "stopping"
            /\ SendRequests(<<StopSession>>)
       ELSE /\ SendNothing
            /\ UNCHANGED <<cancelSent, sessionState>>
    /\ UNCHANGED <<screen, web, switching, host>>

\* stopCurrentSession, from the stream menu or the gamepad.
StopStream ==
    /\ screen = "streaming"
    /\ switching' = FALSE
    /\ IF currentSessionId = 0
       THEN /\ screen' = "home" /\ SendNothing
            /\ UNCHANGED sessionState
       ELSE /\ sessionState' = "stopping" /\ SendRequests(<<StopSession>>)
            /\ UNCHANGED screen
    /\ UNCHANGED <<web, launch, host>>

\* stopCurrentHostSession, from the stream menu.
StopHostFromStream ==
    /\ screen = "streaming"
    /\ switching' = FALSE
    /\ sessionState' = "stopping"
    /\ SendRequests(<<StopHostSession>>)
    /\ UNCHANGED <<screen, web, launch, host>>

\* stopRunningApplication, from the menu of the running application.
StopRunningApplication ==
    /\ screen = "home" /\ runningAppId # NoApp /\ ~busy
    /\ busy' = TRUE
    /\ SendRequests(<<StopHostSession>>)
    /\ UNCHANGED <<screen, sessionState, web, launch, switching, runningAppId, selectedApp,
                   av1Supported>>

\* The dialog "Stop & Launch": confirmSwitchApplication.
ConfirmSwitch(a, c) ==
    /\ screen = "home" /\ runningAppId \notin {NoApp, a} /\ ~busy
    /\ c \in Choices
    /\ switching' = TRUE /\ busy' = TRUE
    /\ SendRequests(<<Request("switch-session", a, c)>>)
    /\ UNCHANGED <<screen, sessionState, web, launch, runningAppId, selectedApp, av1Supported>>

\* The application a running stream is taken to show: that of selectedSession, else the
\* running one, else the list's selection, which every new list resets.
TargetApps ==
    IF selectedApp # NoApp THEN {selectedApp}
    ELSE IF runningAppId # NoApp THEN {runningAppId} ELSE Apps

\* selectedSession.appId after a status; one without an id has no stream settings.
Selected(sid) == IF sid = 0 THEN {selectedApp} ELSE TargetApps

\* A new setting for the running stream: the resolution, frame rate and bitrate selectors
\* restart it.
ChangeSettings(a, c) ==
    /\ screen = "streaming" /\ sessionState = "streaming"
    /\ a \in TargetApps /\ c \in Choices
    /\ switching' = TRUE
    /\ SendRequests(<<Request("switch-session", a, c)>>)
    /\ UNCHANGED <<screen, sessionState, web, launch, host>>

\* The 15 s timer of setSwitchingStreamSettings.
SettingsTimer ==
    /\ switching
    /\ switching' = FALSE
    /\ SendNothing
    /\ UNCHANGED <<screen, sessionState, web, launch, host>>

User ==
    \/ \E a \in Apps, c \in Codecs :
          LaunchApplication(a, c) \/ ConfirmSwitch(a, c) \/ ChangeSettings(a, c)
    \/ CancelLaunch \/ StopStream \/ StopHostFromStream \/ StopRunningApplication
-----------------------------------------------------------------------------
(***************************************************************************)
(* Messages of the Gateway: handleSessionStatus                            *)
(***************************************************************************)
\* Mutant: the first id is kept.
AdoptedOnce(sid) == IF currentSessionId = 0 THEN sid ELSE currentSessionId

\* The id a status carries replaces the current one.
Adopted(sid) == IF sid # 0 THEN sid ELSE currentSessionId

\* A cancellation that waited for the id is sent with the first status that has one.
CancelsNow(sid) == cancelRequested /\ ~cancelSent /\ Adopted(sid) # 0
Cancellation(sid) == IF CancelsNow(sid) THEN <<StopSession>> ELSE <<>>
StateAfter(state, sid) == IF CancelsNow(sid) THEN "stopping" ELSE state

ClosePeerConnection == peerConnection' = 0 /\ answering' = 0

\* Mutant: a cancellation that waits for the id is forgotten.
HandleStageForgets(state, sid) ==
    /\ currentSessionId' = Adopted(sid)
    /\ sessionState' = state
    /\ SendNothing
    /\ busy' = (busy /\ state \notin {"starting", "starting-webrtc"})
    /\ selectedApp' \in Selected(sid)
    /\ UNCHANGED <<screen, peerConnection, answering, launch, switching, runningAppId,
                   av1Supported>>

\* "starting" and the other stages of a launch, and "stopping".
HandleStage(state, sid) ==
    /\ currentSessionId' = Adopted(sid)
    /\ sessionState' = StateAfter(state, sid)
    /\ cancelSent' = (cancelSent \/ CancelsNow(sid))
    /\ SendRequests(Cancellation(sid))
    /\ busy' = (busy /\ state \notin {"starting", "starting-webrtc"})
    /\ selectedApp' \in Selected(sid)
    /\ UNCHANGED <<screen, peerConnection, answering, cancelRequested, switching,
                   runningAppId, av1Supported>>

\* Mutant: the stream is shown although its launch was cancelled.
HandleStreamingShows(sid) ==
    /\ currentSessionId' = Adopted(sid)
    /\ sessionState' = "streaming" /\ screen' = "streaming"
    /\ selectedApp' \in Selected(sid)
    /\ switching' = FALSE /\ busy' = FALSE
    /\ SendNothing
    /\ UNCHANGED <<peerConnection, answering, launch, runningAppId, av1Supported>>

HandleStreaming(sid) ==
    /\ currentSessionId' = Adopted(sid)
    /\ sessionState' = StateAfter("streaming", sid)
    /\ selectedApp' \in Selected(sid)
    /\ switching' = FALSE
    /\ SendRequests(Cancellation(sid))
    /\ IF cancelRequested
       THEN /\ cancelSent' = (cancelSent \/ CancelsNow(sid))
            /\ UNCHANGED <<screen, cancelRequested, busy>>
       ELSE /\ screen' = "streaming" /\ busy' = FALSE
            /\ cancelRequested' = FALSE /\ cancelSent' = FALSE
    /\ UNCHANGED <<peerConnection, answering, runningAppId, av1Supported>>

HandleIdle(sid) ==
    /\ sessionState' = StateAfter("idle", sid)
    /\ currentSessionId' = 0
    /\ ClosePeerConnection
    /\ cancelRequested' = FALSE /\ cancelSent' = FALSE
    /\ selectedApp' \in Selected(sid)
    /\ IF switching
       THEN /\ SendRequests(Cancellation(sid))
            /\ UNCHANGED screen
       ELSE /\ SendRequests(Cancellation(sid) \o <<GetApps>>)
            /\ screen' = "home"
    /\ UNCHANGED <<switching, busy, runningAppId, av1Supported>>

\* AV1 was not accepted, or shows a black screen: start again with HEVC.
HandleCodecUnsupported(sid) ==
    /\ sessionState' = StateAfter("codec-unsupported", sid)
    /\ av1Supported' = FALSE
    /\ busy' = FALSE
    /\ cancelRequested' = FALSE /\ cancelSent' = FALSE
    /\ ClosePeerConnection
    /\ currentSessionId' = 0
    /\ selectedApp' \in Selected(sid)
    /\ IF selectedApp' # NoApp
       THEN /\ SendRequests(Append(Cancellation(sid),
                                   Request("start-session", selectedApp', "hevc")))
            /\ UNCHANGED screen
       ELSE /\ SendRequests(Cancellation(sid))
            /\ screen' = "home"
    /\ UNCHANGED <<switching, runningAppId>>

HandleSessionError(sid) ==
    /\ sessionState' = StateAfter("error", sid)
    /\ currentSessionId' = Adopted(sid)
    /\ switching' = FALSE /\ busy' = FALSE
    /\ cancelRequested' = FALSE /\ cancelSent' = FALSE
    /\ screen' = IF screen = "launching" THEN "home" ELSE screen
    /\ selectedApp' \in Selected(sid)
    /\ SendRequests(Cancellation(sid)
                    \o IF currentSessionId' # 0 THEN <<StopSession>> ELSE <<>>)
    /\ UNCHANGED <<peerConnection, answering, runningAppId, av1Supported>>

HandleSessionStatus(state, sid) ==
    CASE state = "streaming"         -> HandleStreaming(sid)
      [] state = "idle"              -> HandleIdle(sid)
      [] state = "codec-unsupported" -> HandleCodecUnsupported(sid)
      [] state = "error"             -> HandleSessionError(sid)
      [] OTHER                       -> HandleStage(state, sid)

\* updateStatistics: no frame of an AV1 stream was decoded for 8 s.
Av1BlackScreen ==
    /\ screen = "streaming" /\ sessionState = "streaming" /\ peerConnection # 0
    /\ HandleCodecUnsupported(0)
-----------------------------------------------------------------------------
(***************************************************************************)
(* The other messages of the Gateway                                       *)
(***************************************************************************)
HandleGatewayError ==
    /\ switching' = FALSE
    /\ sessionState' = IF sessionState = "streaming" THEN sessionState ELSE "idle"
    /\ screen' = IF sessionState # "streaming" /\ screen = "launching" THEN "home" ELSE screen
    /\ SendNothing
    /\ UNCHANGED <<web, launch, host>>

HandleHostSessionStatus(state) ==
    /\ busy' = (state \notin {"stopped", "failed"})
    /\ runningAppId' = IF state = "stopped" THEN NoApp ELSE runningAppId
    /\ SendRequests(IF state \in {"stopped", "failed"} THEN <<GetApps>> ELSE <<>>)
    /\ UNCHANGED <<screen, sessionState, web, launch, switching, selectedApp, av1Supported>>

\* gateway-status and apps both say what runs on the host.
HandleRunning(a) ==
    /\ runningAppId' = a
    /\ SendNothing
    /\ UNCHANGED <<screen, sessionState, web, launch, switching, busy, selectedApp, av1Supported>>

\* handleOffer up to its first await: the peer connection of another session is replaced.
HandleOffer(sid) ==
    /\ IF peerConnection = 0 \/ currentSessionId # sid
       THEN peerConnection' = sid /\ currentSessionId' = sid
       ELSE UNCHANGED <<peerConnection, currentSessionId>>
    /\ answering' = sid
    /\ SendNothing
    /\ UNCHANGED <<screen, sessionState, launch, switching, host>>

\* The browser made the answer, without the codec it cannot decode, or failed to.
\* A peer connection closed meanwhile never answers.
AnswerOffer ==
    /\ answering # 0
    /\ answering' = 0
    /\ \/ \E accepted \in BOOLEAN : SendRequests(<<Answer(answering, accepted)>>)
       \/ SendNothing
    /\ UNCHANGED <<screen, sessionState, currentSessionId, peerConnection, launch, switching,
                   host>>

Handle(m) ==
    CASE m.type = "session-status"      -> HandleSessionStatus(m.state, m.sid)
      [] m.type = "host-session-status" -> HandleHostSessionStatus(m.state)
      [] m.type = "error"               -> HandleGatewayError
      [] m.type = "offer"               -> HandleOffer(m.sid)
      [] OTHER                          -> HandleRunning(m.state)
=============================================================================
