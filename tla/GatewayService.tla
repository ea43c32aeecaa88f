--------------------------- MODULE GatewayService ---------------------------
(***************************************************************************)
(* The Gateway as its client sees it: the same code as GatewaySession,     *)
(* src/src/main.cpp, one step per message or blocking phase instead of one *)
(* per critical section.  A socket thread serves one request at a time     *)
(* while the streaming thread and WebRTC go on.  Callbacks of a session    *)
(* that is over and a socket that closes are left to GatewaySession.       *)
(***************************************************************************)
EXTENDS Naturals, Sequences, Protocol

CONSTANTS Apps, Codecs

VARIABLES
    serving,         \* the request in progress and how far it got
    nextSessionId, sessionId, codec, app, stopRequested,
    stream,          \* what the streaming thread does
    peerConnected,
    offered, answered,
    hostApp,         \* external: the application Sunshine runs
    toTv             \* messages on their way to the TV

session == <<sessionId, codec, app>>
webrtc  == <<peerConnected, offered, answered>>
vars    == <<serving, nextSessionId, session, stopRequested, stream, webrtc, hostApp, toTv>>

Reply(messages) == toTv' = toTv \o messages
Silent == UNCHANGED toTv
SessionStatus(state) == Status(state, sessionId)
Lists  == <<AppList(hostApp), GatewayStatus(hostApp)>>

Nothing == [pc |-> "idle", type |-> "none", app |-> NoApp, codec |-> "av1", next |-> "none"]
Goto(pc) == serving' = [serving EXCEPT !.pc = pc]
Done == serving' = Nothing
Switching == serving.type = "switch-session"

Init ==
    /\ serving = Nothing
    /\ nextSessionId = 1 /\ sessionId = 0 /\ codec = "av1" /\ app = NoApp
    /\ stopRequested = FALSE /\ stream = "none"
    /\ peerConnected = FALSE /\ offered = FALSE /\ answered = FALSE
    /\ hostApp \in Apps \cup {NoApp}
    /\ toTv = <<>>
-----------------------------------------------------------------------------
(***************************************************************************)
(* handleMessage, while the socket thread is idle                          *)
(***************************************************************************)
Serve(pc, m) ==
    serving' = [pc |-> pc, type |-> m.type, app |-> m.app, codec |-> m.codec, next |-> "none"]

\* startSession refuses while there is a session, even one whose stream is over.
ReceiveStart(m) ==
    /\ IF sessionId # 0
       THEN Reply(<<Error("session-active")>>) /\ UNCHANGED serving
       ELSE Serve("start", m) /\ Silent
    /\ UNCHANGED <<nextSessionId, session, stopRequested, stream, webrtc, hostApp>>

\* Mutant: the streaming thread is joined without having been asked to stop.
ReceiveStopForgets(m) ==
    /\ IF sessionId = 0
       THEN Reply(<<Status("idle", 0)>>) /\ UNCHANGED serving
       ELSE Serve("stop", m) /\ Reply(<<SessionStatus("stopping")>>)
    /\ UNCHANGED <<nextSessionId, session, stopRequested, stream, webrtc, hostApp>>

\* stopActiveSession up to its join of the streaming thread.
ReceiveStop(m) ==
    /\ IF sessionId = 0
       THEN /\ Reply(<<Status("idle", 0)>>)
            /\ UNCHANGED <<serving, stopRequested>>
       ELSE /\ Serve("stop", m)
            /\ Reply(<<SessionStatus("stopping")>>)
            /\ stopRequested' = TRUE
    /\ UNCHANGED <<nextSessionId, session, stream, webrtc, hostApp>>

ReceiveHostOperation(m) ==
    /\ Serve("query", m) /\ Silent
    /\ UNCHANGED <<nextSessionId, session, stopRequested, stream, webrtc, hostApp>>

\* An answer without AV1 ends the stream; the session itself stays.
ReceiveAnswer(m) ==
    /\ IF m.sid = 0 \/ m.sid # sessionId
       THEN Silent /\ UNCHANGED <<answered, stopRequested>>
       ELSE IF m.accepted
       THEN Silent /\ answered' = TRUE /\ UNCHANGED stopRequested
       ELSE /\ Reply(<<SessionStatus(IF codec = "av1" THEN "codec-unsupported" ELSE "error")>>)
            /\ stopRequested' = TRUE
            /\ UNCHANGED answered
    /\ UNCHANGED <<serving, nextSessionId, session, stream, peerConnected, offered, hostApp>>

ReceiveGetApps ==
    /\ Reply(<<AppList(hostApp)>>) \/ Reply(<<Error("sunshine-unavailable")>>)
    /\ UNCHANGED <<serving, nextSessionId, session, stopRequested, stream, webrtc, hostApp>>

Handle(m) ==
    CASE m.type = "start-session" -> ReceiveStart(m)
      [] m.type = "stop-session"  -> ReceiveStop(m)
      [] m.type = "answer"        -> ReceiveAnswer(m)
      [] m.type = "get-apps"      -> ReceiveGetApps
      [] OTHER                    -> ReceiveHostOperation(m)
-----------------------------------------------------------------------------
(***************************************************************************)
(* The request in progress                                                 *)
(***************************************************************************)
StartFails ==
    /\ serving.pc = "start"
    /\ Done
    /\ Reply(<<Error("invalid-application")>>)
    /\ UNCHANGED <<nextSessionId, session, stopRequested, stream, webrtc, hostApp>>

\* The session gets its id; createPeerConnection may fail and is then undone.
StartSession ==
    /\ serving.pc = "start"
    /\ sessionId' = nextSessionId /\ nextSessionId' = nextSessionId + 1
    /\ codec' = serving.codec /\ app' = serving.app
    /\ offered' = FALSE /\ answered' = FALSE /\ peerConnected' = FALSE
    /\ stream' = "waiting"
    /\ \E failed \in BOOLEAN :
         /\ stopRequested' = failed
         /\ IF failed THEN Goto("stop") ELSE Done
         /\ Reply(<<Status("starting", sessionId'), Status("starting-webrtc", sessionId')>>
                  \o IF failed THEN <<Status("error", sessionId'), Status("stopping", sessionId')>>
                               ELSE <<>>)
    /\ UNCHANGED hostApp

\* What stopActiveSession leaves behind, once the streaming thread has ended.
Release ==
    /\ sessionId' = 0 /\ app' = NoApp
    /\ stream' = "none"
    /\ peerConnected' = FALSE /\ answered' = FALSE
    /\ UNCHANGED <<codec, stopRequested, offered>>

StopCompletes ==
    /\ serving.pc = "stop" /\ stream \in {"none", "over"}
    /\ Done
    /\ Reply(<<Status("idle", 0), GatewayStatus(hostApp)>>)
    /\ Release
    /\ UNCHANGED <<nextSessionId, hostApp>>

\* detectSunshine, /serverinfo and /applist: one of them throws, or they show
\* that nothing runs, that the target runs already, or that an application has
\* to be cancelled first.  Only a stop with nothing running leaves the stream alone.
HostQueryFails ==
    /\ serving.pc = "query"
    /\ Done
    /\ Reply(Append(Lists, HostStatus("failed")))
    /\ UNCHANGED <<nextSessionId, session, stopRequested, stream, webrtc, hostApp>>

HostQueryNothingToStop ==
    /\ serving.pc = "query" /\ ~Switching /\ hostApp = NoApp
    /\ Done
    /\ Reply(Append(Lists, HostStatus("stopped")))
    /\ UNCHANGED <<nextSessionId, session, stopRequested, stream, webrtc, hostApp>>

\* Mutant: the local stream is not ended.
HostQueryKeepsStream ==
    /\ serving.pc = "query" /\ (Switching \/ hostApp # NoApp)
    /\ serving' = [serving EXCEPT !.pc = "start"]
    /\ Silent
    /\ UNCHANGED <<nextSessionId, session, stopRequested, stream, webrtc, hostApp>>

HostQueryStopsStream ==
    /\ serving.pc = "query" /\ (Switching \/ hostApp # NoApp)
    /\ LET cancel == hostApp \notin {NoApp, serving.app} IN
         /\ serving' = [serving EXCEPT !.pc = "stopLocal",
                                       !.next = IF cancel THEN "cancel"
                                                ELSE IF hostApp = NoApp THEN "starting"
                                                ELSE "resuming"]
         /\ Reply(IF cancel THEN <<HostStatus(IF Switching THEN "switching" ELSE "stopping")>>
                            ELSE <<>>)
    /\ stopRequested' = (sessionId # 0 \/ stopRequested)
    /\ UNCHANGED <<nextSessionId, session, stream, webrtc, hostApp>>

\* stopActiveSession(session, false), then the start or the cancellation.
HostStopCompletes ==
    /\ serving.pc = "stopLocal" /\ stream \in {"none", "over"}
    /\ Release
    /\ IF serving.next = "cancel"
       THEN Goto("cancel") /\ Silent
       ELSE Goto("start") /\ Reply(<<HostStatus(serving.next)>>)
    /\ UNCHANGED <<nextSessionId, hostApp>>

\* /cancel, and the polls of waitForSunshineIdle.
HostCancel ==
    /\ serving.pc = "cancel"
    /\ hostApp' \in {hostApp, NoApp}
    /\ Goto("await") /\ Silent
    /\ UNCHANGED <<nextSessionId, session, stopRequested, stream, webrtc>>

HostIdle ==
    /\ serving.pc = "await" /\ hostApp = NoApp
    /\ IF Switching
       THEN Goto("start") /\ Reply(Append(Lists, HostStatus("starting")))
       ELSE Done /\ Reply(Append(Lists, HostStatus("stopped")))
    /\ UNCHANGED <<nextSessionId, session, stopRequested, stream, webrtc, hostApp>>

HostFails ==
    /\ serving.pc \in {"cancel", "await"}
    /\ Done
    /\ Reply(Append(Lists, HostStatus("failed")))
    /\ UNCHANGED <<nextSessionId, session, stopRequested, stream, webrtc, hostApp>>
-----------------------------------------------------------------------------
(***************************************************************************)
(* WebRTC and the streaming thread                                         *)
(***************************************************************************)
\* onLocalDescription: the offer, or an error when it lacks the codec.
RaiseOffer ==
    /\ sessionId # 0 /\ ~offered
    /\ offered' = TRUE
    /\ \/ Reply(<<Offer(sessionId)>>) /\ UNCHANGED stopRequested
       \/ Reply(<<SessionStatus("error")>>) /\ stopRequested' = TRUE
    /\ UNCHANGED <<serving, nextSessionId, session, stream, peerConnected, answered, hostApp>>

\* The peers connect and the tracks open: waitForMediaTracks returns.
Connect ==
    /\ stream = "waiting" /\ answered /\ ~stopRequested
    /\ peerConnected' = TRUE
    /\ stream' = "starting"
    /\ Reply(<<SessionStatus("connecting-sunshine"), SessionStatus("starting-moonlight")>>)
    /\ UNCHANGED <<serving, nextSessionId, session, stopRequested, offered, answered, hostApp>>

\* The peer connection fails, disconnects or closes.
Lost ==
    /\ answered /\ stream \in {"waiting", "starting", "streaming"}
    /\ peerConnected' = FALSE /\ stopRequested' = TRUE
    /\ Silent
    /\ UNCHANGED <<serving, nextSessionId, session, stream, offered, answered, hostApp>>

\* MoonlightSession::start; it never replaces another application.
StreamStarts ==
    /\ stream = "starting" /\ hostApp \in {NoApp, app}
    /\ hostApp' = app
    /\ stream' = "streaming"
    /\ Reply(<<SessionStatus("streaming")>>)
    /\ UNCHANGED <<serving, nextSessionId, session, stopRequested, webrtc>>

StreamStartFails ==
    /\ stream = "starting"
    /\ hostApp' \in {hostApp, IF hostApp = NoApp THEN app ELSE hostApp}
    /\ stream' = "ending" /\ stopRequested' = TRUE
    /\ Reply(<<SessionStatus("error")>>)
    /\ UNCHANGED <<serving, nextSessionId, session, webrtc>>

\* The Moonlight connection ends from the host's side, perhaps while it starts.
MoonlightTerminates ==
    /\ stream \in {"starting", "streaming"}
    /\ stopRequested' = TRUE
    /\ Silent
    /\ UNCHANGED <<serving, nextSessionId, session, stream, webrtc, hostApp>>

\* The thread ends.  It reports "idle" unless it never streamed or lost its peer.
StreamEnds ==
    /\ stopRequested /\ stream \in {"waiting", "streaming", "ending"}
    /\ stream' = "over"
    /\ Reply(IF peerConnected THEN <<SessionStatus("idle")>> ELSE <<>>)
    /\ UNCHANGED <<serving, nextSessionId, session, stopRequested, webrtc, hostApp>>

HostAppQuits ==
    /\ hostApp # NoApp
    /\ hostApp' = NoApp
    /\ Silent
    /\ UNCHANGED <<serving, nextSessionId, session, stopRequested, stream, webrtc>>
-----------------------------------------------------------------------------
Serving ==
    \/ StartFails \/ StartSession \/ StopCompletes
    \/ HostQueryFails \/ HostQueryNothingToStop \/ HostQueryStopsStream
    \/ HostStopCompletes \/ HostCancel \/ HostIdle \/ HostFails

WebRtc == RaiseOffer \/ Connect \/ Lost

\* The streaming thread once the tracks are open: these calls return.
Thread == StreamStarts \/ StreamStartFails \/ StreamEnds

Host == MoonlightTerminates \/ HostAppQuits
=============================================================================
