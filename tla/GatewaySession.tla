--------------------------- MODULE GatewaySession ---------------------------
(***************************************************************************)
(* One WebSocket client of the Gateway: struct Session of src/src/main.cpp *)
(* and the threads that share it.                                          *)
(*                                                                         *)
(*   - the socket thread runs the handlers of the TV's messages, one at a  *)
(*     time, and stopActiveSession when the socket closes;                 *)
(*   - the streaming thread runs streamMoonlightMedia for one sessionId;   *)
(*   - the WebRTC threads run the callbacks that createPeerConnection      *)
(*     registers.  Each callback is bound to the sessionId it was created  *)
(*     for; it calls isCurrentSession, which locks and unlocks             *)
(*     streamMutex, and only then locks it again to act.  The two halves   *)
(*     are two steps here, so everything else may happen in between.       *)
(*                                                                         *)
(* A step is one critical section of streamMutex, or one blocking call.    *)
(* The messages a step sends to the TV are the value of "sent" after it.   *)
(***************************************************************************)
EXTENDS Naturals, Sequences, Protocol

CONSTANTS
    Apps,         \* Sunshine applications a client may ask for
    Codecs,       \* the codecs a client may ask for
    Kinds,        \* bound: the callbacks WebRTC raises, of AllKinds
    MaxSessions   \* bound: sessions started on one socket (nextSessionId_)

AllKinds == {"connected", "lost", "videoOpen", "audioOpen", "trackClosed",
             "offer", "offerInvalid"}

ASSUME ConstantsAssumption ==
    /\ Kinds \subseteq AllKinds
    /\ NoApp \notin Apps
    /\ "av1" \in Codecs
    /\ MaxSessions \in Nat \ {0}

Sids == 1..MaxSessions

VARIABLES
    socketOpen,          \* socket->isOpen()
    sock,                \* socket thread: program counter and request being served
    nextSessionId,       \* SignalingServer::nextSessionId_
    sessionId,           \* Session::sessionId, 0 when there is none
    codec,               \* Session::settings.codec
    app,                 \* Session::applicationId
    peer,                \* Session::peerConnection: the sessionId it was made for, or 0
    peerConnected, videoTrackOpen, audioTrackOpen, stopRequested,
    streamingActive, hostOperationActive,
    moonlight,           \* Session::moonlightSession and its state_
    inputActive,         \* inputBridge: moonlightSessionActive_
    thread,              \* Session::streamingThread: its pc and the sessionId it serves
    hasRemoteDescription,
    fired,               \* external: callbacks the current peer connection has raised
    callback,            \* per peer connection: callback past isCurrentSession, or "none"
    hostApp,             \* external: the application Sunshine runs
    sent                 \* messages the last step handed to the socket

flags  == <<peerConnected, videoTrackOpen, audioTrackOpen, stopRequested>>
rtc    == <<hasRemoteDescription, fired, callback>>
stream == <<streamingActive, moonlight, inputActive, thread>>
ident  == <<nextSessionId, sessionId, codec, app, peer>>
sessionVars == <<socketOpen, ident, flags, stream, hostOperationActive, rtc, hostApp>>
vars   == <<socketOpen, sock, ident, flags, stream, hostOperationActive, rtc, hostApp, sent>>
-----------------------------------------------------------------------------
\* sendJson drops the message when the socket is no longer open.
Send(messages) == sent' = IF socketOpen THEN messages ELSE <<>>
Silent == sent' = <<>>

\* sendSessionStatus attaches the sessionId while there is one.
SessionStatus(state) == Status(state, sessionId)

NoRequest == [pc |-> "idle", type |-> "none", app |-> NoApp, codec |-> "av1", plan |-> "none"]
NoThread  == [pc |-> "none", sid |-> 0]

Goto(pc)       == sock' = [sock EXCEPT !.pc = pc]
Done           == sock' = NoRequest
ThreadGoto(pc) == thread' = [thread EXCEPT !.pc = pc]
ThreadRunning  == thread.pc \notin {"none", "exited"}
TracksReady    == peerConnected /\ videoTrackOpen /\ audioTrackOpen

Init ==
    /\ socketOpen = TRUE
    /\ sock = NoRequest
    /\ nextSessionId = 1 /\ sessionId = 0 /\ codec = "av1" /\ app = NoApp /\ peer = 0
    /\ peerConnected = FALSE /\ videoTrackOpen = FALSE /\ audioTrackOpen = FALSE
    /\ stopRequested = FALSE /\ streamingActive = FALSE /\ hostOperationActive = FALSE
    /\ moonlight = "none" /\ inputActive = FALSE
    /\ thread = NoThread
    /\ hasRemoteDescription = FALSE
    /\ fired = {}
    /\ callback = [s \in Sids |-> "none"]
    /\ hostApp \in Apps \cup {NoApp}
    /\ sent = <<>>
-----------------------------------------------------------------------------
(***************************************************************************)
(* Socket thread: handleMessage takes the next message of the client.      *)
(***************************************************************************)
Receive(type, a, c, pc) ==
    /\ socketOpen /\ sock.pc = "idle"
    /\ sock' = [pc |-> pc, type |-> type, app |-> a, codec |-> c, plan |-> "none"]

HandleStart(a, c) ==
    /\ nextSessionId <= MaxSessions
    /\ Receive("start-session", a, c, "check")
    /\ Silent
    /\ UNCHANGED sessionVars

HandleStop ==
    /\ Receive("stop-session", NoApp, "av1", "stopRead")
    /\ Silent
    /\ UNCHANGED sessionVars

\* sendApplications
HandleGetApps ==
    /\ socketOpen /\ sock.pc = "idle"
    /\ Send(<<AppList(hostApp)>>) \/ Send(<<Error("sunshine-unavailable")>>)
    /\ UNCHANGED <<sock, sessionVars>>

\* stopOrSwitchHostSession up to beginHostOperation.
HandleHostOperation(type, a, c) ==
    /\ type = "switch-session" => nextSessionId <= MaxSessions
    /\ socketOpen /\ sock.pc = "idle"
    /\ IF hostOperationActive
       THEN /\ Send(<<Error("host-operation-active")>>)
            /\ UNCHANGED <<sock, hostOperationActive>>
       ELSE /\ Receive(type, a, c, "query")
            /\ hostOperationActive' = TRUE
            /\ Silent
    /\ UNCHANGED <<socketOpen, ident, flags, stream, rtc, hostApp>>

\* What becomes of an answer: WebRTC may throw at its description or at a candidate.
AnswerOutcomes == {"accepted", "refused", "throws"}

\* An answer that keeps the offered codec becomes the remote description; one
\* that lost it ends the stream.  An answer for another session is ignored.
HandleAnswer(sid, outcome) ==
    /\ socketOpen /\ sock.pc = "idle"
    /\ IF sid = 0 \/ sid # sessionId \/ peer = 0
       THEN Silent /\ UNCHANGED <<stopRequested, hasRemoteDescription>>
       ELSE \/ /\ outcome = "accepted"
               /\ Silent
               /\ hasRemoteDescription' = TRUE
               /\ UNCHANGED stopRequested
            \/ /\ outcome = "refused"
               /\ Send(<<SessionStatus(IF codec = "av1" THEN "codec-unsupported" ELSE "error")>>)
               /\ stopRequested' = TRUE
               /\ UNCHANGED hasRemoteDescription
            \/ /\ outcome = "throws"
               /\ Send(<<Error("internal-error")>>)
               /\ hasRemoteDescription' \in {hasRemoteDescription, TRUE}
               /\ UNCHANGED stopRequested
    /\ UNCHANGED <<socketOpen, sock, ident, peerConnected, videoTrackOpen, audioTrackOpen,
                   stream, hostOperationActive, fired, callback, hostApp>>

\* The connection to the TV drops; the handler in progress goes on.
SocketDrops ==
    /\ socketOpen
    /\ socketOpen' = FALSE
    /\ Silent
    /\ UNCHANGED <<sock, ident, flags, stream, hostOperationActive, rtc, hostApp>>

\* onClosed calls closeSession.
HandleClosed ==
    /\ ~socketOpen /\ sock.pc = "idle"
    /\ sock' = [NoRequest EXCEPT !.pc = "stopRead", !.type = "close"]
    /\ Silent
    /\ UNCHANGED sessionVars
-----------------------------------------------------------------------------
(***************************************************************************)
(* Socket thread: startSession                                             *)
(***************************************************************************)
StartAdmissible == ~hostOperationActive /\ sessionId = 0 /\ peer = 0

CheckStart ==
    /\ sock.pc = "check"
    /\ IF StartAdmissible
       THEN Goto("load") /\ Silent
       ELSE /\ Done
            /\ Send(<<Error(IF hostOperationActive THEN "host-operation-active"
                                                   ELSE "session-active")>>)
    /\ UNCHANGED sessionVars

\* loadApplications asks Sunshine over HTTP; it may fail or not list the application.
LoadApplications ==
    /\ sock.pc = "load"
    /\ \/ Goto("assign") /\ Silent
       \/ Done /\ Send(<<Error("invalid-application")>>)
    /\ UNCHANGED sessionVars

\* Mutant: the id is read after nextSessionId_ was incremented.
AssignSessionLateId ==
    /\ sock.pc = "assign"
    /\ sessionId' = nextSessionId + 1
    /\ nextSessionId' = nextSessionId + 1
    /\ Goto("create") /\ Silent
    /\ UNCHANGED <<socketOpen, codec, app, peer, flags, stream, hostOperationActive, rtc,
                   hostApp>>

AssignSession ==
    /\ sock.pc = "assign"
    /\ sessionId' = nextSessionId
    /\ nextSessionId' = nextSessionId + 1
    /\ codec' = sock.codec
    /\ app' = sock.app
    /\ peerConnected' = FALSE /\ videoTrackOpen' = FALSE /\ audioTrackOpen' = FALSE
    /\ stopRequested' = FALSE
    /\ streamingActive' = FALSE
    /\ Send(<<Status("starting", nextSessionId), Status("starting-webrtc", nextSessionId)>>)
    /\ hasRemoteDescription' = FALSE
    /\ Goto("create")
    /\ UNCHANGED <<socketOpen, peer, moonlight, inputActive, thread, hostOperationActive,
                   fired, callback, hostApp>>

\* createPeerConnection, which starts the streaming thread and, last, the offer.
\* It throws before the thread exists or in setLocalDescription, after it.
CreatePeerConnection ==
    /\ sock.pc = "create"
    /\ peer' = sessionId
    /\ inputActive' = FALSE
    /\ fired' = {}
    /\ \/ /\ thread' = [pc |-> "enter", sid |-> sessionId]
          /\ Done /\ Silent
       \/ /\ thread' \in {thread, [pc |-> "enter", sid |-> sessionId]}
          /\ Send(<<SessionStatus("error")>>)
          /\ Goto("stopRead")
    /\ UNCHANGED <<socketOpen, nextSessionId, sessionId, codec, app, flags, streamingActive,
                   moonlight, hostOperationActive, hasRemoteDescription, callback, hostApp>>
-----------------------------------------------------------------------------
(***************************************************************************)
(* Socket thread: stopActiveSession(notifyClient)                          *)
(***************************************************************************)
HostTypes == {"switch-session", "stop-host-session"}

NotifyClient == sock.type \in {"start-session", "stop-session"}

\* What the caller of stopActiveSession does next.
AfterStop ==
    \/ sock.type = "close" /\ Goto("closed")
    \/ NotifyClient /\ Done
    \/ sock.type \in HostTypes /\ Goto(sock.plan)

StopRead ==
    /\ sock.pc = "stopRead"
    /\ IF sessionId = 0
       THEN /\ AfterStop
            /\ Send(IF NotifyClient THEN <<Status("idle", 0)>> ELSE <<>>)
       ELSE /\ Goto("stopRequest")
            /\ Send(IF NotifyClient THEN <<SessionStatus("stopping")>> ELSE <<>>)
    /\ UNCHANGED sessionVars

\* Mutant: the thread is joined without having been asked to stop.
StopRequestForgotten ==
    /\ sock.pc = "stopRequest"
    /\ Goto("stopJoin") /\ Silent
    /\ UNCHANGED sessionVars

\* requestStreamingStop
StopRequest ==
    /\ sock.pc = "stopRequest"
    /\ stopRequested' = TRUE
    /\ Goto("stopJoin")
    /\ Silent
    /\ UNCHANGED <<socketOpen, ident, peerConnected, videoTrackOpen, audioTrackOpen, stream,
                   hostOperationActive, rtc, hostApp>>

\* Mutant: the streaming thread is left running.
StopJoinDropped ==
    /\ sock.pc = "stopJoin"
    /\ Goto("stopClear") /\ Silent
    /\ UNCHANGED sessionVars

\* streamingThread.join(), when it is joinable.
StopJoin ==
    /\ sock.pc = "stopJoin"
    /\ ~ThreadRunning
    /\ thread' = NoThread
    /\ Goto("stopClear")
    /\ Silent
    /\ UNCHANGED <<socketOpen, ident, flags, streamingActive, moonlight, inputActive,
                   hostOperationActive, rtc, hostApp>>

\* Mutant: peerConnection is closed but not reset.
StopClearKeepsPeer ==
    /\ sock.pc = "stopClear"
    /\ sessionId' = 0
    /\ AfterStop
    /\ Send(IF NotifyClient THEN <<Status("idle", 0), GatewayStatus(hostApp)>> ELSE <<>>)
    /\ UNCHANGED <<socketOpen, nextSessionId, codec, app, peer, flags, stream,
                   hostOperationActive, rtc, hostApp>>

\* Mutant: every session starts again from id 1.
StopClearReusesId ==
    /\ sock.pc = "stopClear"
    /\ sessionId' = 0 /\ peer' = 0 /\ nextSessionId' = 1
    /\ AfterStop /\ Silent
    /\ UNCHANGED <<socketOpen, codec, app, flags, stream, hostOperationActive, rtc, hostApp>>

\* peerConnection->close() and the reset of everything the session owned.
StopClear ==
    /\ sock.pc = "stopClear"
    /\ sessionId' = 0 /\ peer' = 0 /\ app' = NoApp
    /\ moonlight' = "none" /\ inputActive' = FALSE /\ streamingActive' = FALSE
    /\ peerConnected' = FALSE /\ videoTrackOpen' = FALSE /\ audioTrackOpen' = FALSE
    /\ hasRemoteDescription' = FALSE
    /\ fired' = {}
    /\ AfterStop
    /\ Send(IF NotifyClient THEN <<Status("idle", 0), GatewayStatus(hostApp)>> ELSE <<>>)
    /\ UNCHANGED <<socketOpen, nextSessionId, codec, stopRequested, thread,
                   hostOperationActive, callback, hostApp>>
-----------------------------------------------------------------------------
(***************************************************************************)
(* Socket thread: stopOrSwitchHostSession after beginHostOperation         *)
(***************************************************************************)
Switching == sock.type = "switch-session"

\* finishHostOperation, then startSession(*switchTarget) where there is a target.
FinishAndStart(messages) ==
    /\ hostOperationActive' = FALSE
    /\ sock' = [sock EXCEPT !.pc = "check", !.type = "start-session"]
    /\ Send(messages)

Finish(messages) ==
    /\ hostOperationActive' = FALSE
    /\ Done
    /\ Send(messages)

\* detectSunshine, /serverinfo and, for a switch, /applist; any of them may throw.
HostQueryFails ==
    /\ sock.pc = "query"
    /\ Goto("failed") /\ Silent
    /\ UNCHANGED sessionVars

\* The target runs already, or nothing does: no application to cancel.
HostQueryNoCancel ==
    /\ sock.pc = "query" /\ Switching /\ hostApp \in {sock.app, NoApp}
    /\ sock' = [sock EXCEPT !.pc = "stopRead",
                            !.plan = IF hostApp = NoApp THEN "launch" ELSE "resume"]
    /\ Silent
    /\ UNCHANGED sessionVars

HostQueryNothingToStop ==
    /\ sock.pc = "query" /\ ~Switching /\ hostApp = NoApp
    /\ Finish(<<AppList(hostApp), GatewayStatus(hostApp), HostStatus("stopped")>>)
    /\ UNCHANGED <<socketOpen, ident, flags, stream, rtc, hostApp>>

\* Mutant: the running application is cancelled under the local stream.
HostQueryCancelsFirst ==
    /\ sock.pc = "query" /\ hostApp # NoApp
    /\ sock' = [sock EXCEPT !.pc = "cancel", !.plan = "cancel"]
    /\ Silent
    /\ UNCHANGED sessionVars

\* Another application runs: end the local stream, then cancel it.
HostQueryCancel ==
    /\ sock.pc = "query" /\ hostApp # NoApp /\ (Switching => hostApp # sock.app)
    /\ sock' = [sock EXCEPT !.pc = "stopRead", !.plan = "cancel"]
    /\ Send(<<HostStatus(IF Switching THEN "switching" ELSE "stopping")>>)
    /\ UNCHANGED sessionVars

\* The target already runs ("resume") or nothing ran ("launch").
HostStart ==
    /\ sock.pc \in {"resume", "launch"}
    /\ FinishAndStart(<<HostStatus(IF sock.pc = "resume" THEN "resuming" ELSE "starting")>>)
    /\ UNCHANGED <<socketOpen, ident, flags, stream, rtc, hostApp>>

\* /cancel: Sunshine refuses, or accepts and quits the application at once or later.
HostCancel ==
    /\ sock.pc = "cancel"
    /\ \/ Goto("await") /\ hostApp' \in {hostApp, NoApp}
       \/ Goto("failed") /\ UNCHANGED hostApp
    /\ Silent
    /\ UNCHANGED <<socketOpen, ident, flags, stream, hostOperationActive, rtc>>

\* Mutant: the target starts without waiting for Sunshine to be idle.
HostAwaitNothing ==
    /\ sock.pc = "await" /\ Switching
    /\ FinishAndStart(<<HostStatus("starting")>>)
    /\ UNCHANGED <<socketOpen, ident, flags, stream, rtc, hostApp>>

\* waitForSunshineIdle sees no application in one of its 20 polls of /serverinfo.
HostIdleStarts ==
    /\ sock.pc = "await" /\ Switching /\ hostApp = NoApp
    /\ FinishAndStart(<<AppList(hostApp), GatewayStatus(hostApp), HostStatus("starting")>>)
    /\ UNCHANGED <<socketOpen, ident, flags, stream, rtc, hostApp>>

HostIdleStopped ==
    /\ sock.pc = "await" /\ ~Switching /\ hostApp = NoApp
    /\ Finish(<<AppList(hostApp), GatewayStatus(hostApp), HostStatus("stopped")>>)
    /\ UNCHANGED <<socketOpen, ident, flags, stream, rtc, hostApp>>

\* It gives up, or a poll throws.
HostAwaitTimesOut ==
    /\ sock.pc = "await"
    /\ Goto("failed") /\ Silent
    /\ UNCHANGED sessionVars

\* Mutant: the failure path forgets finishHostOperation.
HostFailedKeepsFlag ==
    /\ sock.pc = "failed"
    /\ Done
    /\ Send(<<AppList(hostApp), GatewayStatus(hostApp), HostStatus("failed")>>)
    /\ UNCHANGED sessionVars

HostFailed ==
    /\ sock.pc = "failed"
    /\ Finish(<<AppList(hostApp), GatewayStatus(hostApp), HostStatus("failed")>>)
    /\ UNCHANGED <<socketOpen, ident, flags, stream, rtc, hostApp>>
-----------------------------------------------------------------------------
(***************************************************************************)
(* Streaming thread: the lambda of createPeerConnection, then              *)
(* streamMoonlightMedia                                                    *)
(***************************************************************************)
ThreadUnchanged == <<socketOpen, sock, ident, peerConnected, videoTrackOpen, audioTrackOpen,
                     hostOperationActive, rtc>>

ThreadEnter ==
    /\ thread.pc = "enter"
    /\ ThreadGoto(IF sessionId = thread.sid /\ thread.sid # 0 THEN "wait" ELSE "exited")
    /\ Silent
    /\ UNCHANGED <<ThreadUnchanged, stopRequested, streamingActive, moonlight, inputActive,
                   hostApp>>

\* Mutant: waitForMediaTracks waits for the tracks only.
ThreadTracksIgnoresStop ==
    /\ thread.pc = "wait" /\ TracksReady
    /\ ThreadGoto(IF stopRequested THEN "exited" ELSE "start")
    /\ moonlight' = (IF stopRequested THEN moonlight ELSE "idle")
    /\ Silent
    /\ UNCHANGED <<ThreadUnchanged, stopRequested, streamingActive, inputActive, hostApp>>

\* waitForMediaTracks: a stop request wins over tracks that are ready.
ThreadTracks ==
    /\ thread.pc = "wait"
    /\ stopRequested \/ TracksReady
    /\ IF stopRequested
       THEN /\ ThreadGoto("exited") /\ Silent
            /\ UNCHANGED moonlight
       ELSE /\ ThreadGoto("start")
            /\ moonlight' = "idle"
            /\ Send(<<SessionStatus("connecting-sunshine"),
                      SessionStatus("starting-moonlight")>>)
    /\ UNCHANGED <<ThreadUnchanged, stopRequested, streamingActive, inputActive, hostApp>>

\* MoonlightSession::start launches or resumes the application and connects, or
\* throws; it does not look at stopRequested.  It never replaces another application.
ThreadStart ==
    /\ thread.pc = "start"
    /\ \/ /\ hostApp \in {NoApp, app}
          /\ hostApp' = app
          /\ moonlight' = "connected"
          /\ ThreadGoto("announce")
          /\ Silent
          /\ UNCHANGED stopRequested
       \/ /\ hostApp' \in {hostApp, IF hostApp = NoApp THEN app ELSE hostApp}
          /\ moonlight' = "stopped"
          /\ ThreadGoto("deactivate")
          /\ Send(<<SessionStatus("error")>>)
          /\ stopRequested' = TRUE
    /\ UNCHANGED <<ThreadUnchanged, streamingActive, inputActive>>

ThreadAnnounce ==
    /\ thread.pc = "announce"
    /\ inputActive' = TRUE
    /\ streamingActive' = TRUE
    /\ Send(<<SessionStatus("streaming")>>)
    /\ ThreadGoto("loop")
    /\ UNCHANGED <<ThreadUnchanged, stopRequested, moonlight, hostApp>>

\* Mutant: the connection is taken down with the controllers still active.
ThreadLoopSkipsInput ==
    /\ thread.pc = "loop" /\ stopRequested
    /\ ThreadGoto("stop") /\ Silent
    /\ UNCHANGED <<ThreadUnchanged, stopRequested, streamingActive, moonlight, inputActive,
                   hostApp>>

ThreadLoopEnds ==
    /\ thread.pc = "loop"
    /\ stopRequested
    /\ ThreadGoto("deactivate")
    /\ Silent
    /\ UNCHANGED <<ThreadUnchanged, stopRequested, streamingActive, moonlight, inputActive,
                   hostApp>>

\* setMoonlightSessionActive(false) neutralizes the controllers while Moonlight
\* can still carry their last state.
ThreadDeactivate ==
    /\ thread.pc = "deactivate"
    /\ inputActive' = FALSE
    /\ ThreadGoto("stop")
    /\ Silent
    /\ UNCHANGED <<ThreadUnchanged, stopRequested, streamingActive, moonlight, hostApp>>

ThreadStopMoonlight ==
    /\ thread.pc = "stop"
    /\ moonlight' = "stopped"
    /\ ThreadGoto("release")
    /\ Silent
    /\ UNCHANGED <<ThreadUnchanged, stopRequested, streamingActive, inputActive, hostApp>>

ThreadRelease ==
    /\ thread.pc = "release"
    /\ streamingActive' = FALSE
    /\ moonlight' = "none"
    /\ ThreadGoto("exited")
    /\ Send(IF peerConnected THEN <<SessionStatus("idle")>> ELSE <<>>)
    /\ UNCHANGED <<ThreadUnchanged, stopRequested, inputActive, hostApp>>
-----------------------------------------------------------------------------
(***************************************************************************)
(* WebRTC threads.  libdatachannel (external) raises the callbacks of a    *)
(* peer connection one at a time, each kind at most once here, and may     *)
(* deliver them late, after the session was stopped.                       *)
(***************************************************************************)
Raisable(k) ==
    /\ k \notin fired
    /\ CASE k = "connected"                  -> hasRemoteDescription
         [] k \in {"videoOpen", "audioOpen"} -> "connected" \in fired
         [] k = "offer"                      -> "offerInvalid" \notin fired
         [] k = "offerInvalid"               -> "offer" \notin fired
         [] OTHER                            -> TRUE

\* The first half of a callback of peer connection s: isCurrentSession.  A late
\* callback of another session ends here.
CallbackCheck(s, k) ==
    /\ s < nextSessionId /\ callback[s] = "none"
    /\ IF s = sessionId
       THEN /\ sock.pc # "create" /\ Raisable(k)
            /\ fired' = fired \cup {k}
            /\ callback' = [callback EXCEPT ![s] = k]
       ELSE UNCHANGED <<fired, callback>>
    /\ Silent
    /\ UNCHANGED <<socketOpen, sock, ident, flags, stream, hostOperationActive,
                   hasRemoteDescription, hostApp>>

\* The second half: streamMutex is taken again and the effect applied.
CallbackEffect(s) ==
    /\ callback[s] # "none"
    /\ callback' = [callback EXCEPT ![s] = "none"]
    /\ peerConnected' = CASE callback[s] = "connected" -> TRUE
                          [] callback[s] = "lost"      -> FALSE
                          [] OTHER                     -> peerConnected
    /\ videoTrackOpen' = (videoTrackOpen \/ callback[s] = "videoOpen")
    /\ audioTrackOpen' = (audioTrackOpen \/ callback[s] = "audioOpen")
    /\ stopRequested' = (stopRequested \/ callback[s] \in {"lost", "trackClosed", "offerInvalid"})
    /\ CASE callback[s] = "offer"        -> Send(<<Offer(s)>>)
         [] callback[s] = "offerInvalid" -> Send(<<SessionStatus("error")>>)
         [] OTHER                        -> Silent
    /\ UNCHANGED <<socketOpen, sock, ident, stream, hostOperationActive, hasRemoteDescription, fired,
                   hostApp>>
-----------------------------------------------------------------------------
(***************************************************************************)
(* Sunshine (external): the stream ends from the host's side, perhaps      *)
(* while it still starts, which runs the callback that streamMoonlightMedia*)
(* passes to MoonlightSession; the application quits.                      *)
(***************************************************************************)
MoonlightTerminates ==
    /\ moonlight \in {"idle", "connected"} /\ ~stopRequested
    /\ stopRequested' = TRUE
    /\ Silent
    /\ UNCHANGED <<socketOpen, sock, ident, peerConnected, videoTrackOpen, audioTrackOpen,
                   stream, hostOperationActive, rtc, hostApp>>

HostAppQuits ==
    /\ hostApp # NoApp
    /\ hostApp' = NoApp
    /\ Silent
    /\ UNCHANGED <<socketOpen, sock, ident, flags, stream, hostOperationActive, rtc>>

\* The Session object is gone; what WebRTC still raises finds no session.
Closed ==
    /\ sock.pc = "closed"
    /\ UNCHANGED vars
-----------------------------------------------------------------------------
SocketThread ==
    \/ CheckStart \/ LoadApplications \/ AssignSession \/ CreatePeerConnection
    \/ StopRead \/ StopRequest \/ StopJoin \/ StopClear
    \/ HostQueryFails \/ HostQueryNoCancel \/ HostQueryNothingToStop \/ HostQueryCancel
    \/ HostStart \/ HostCancel \/ HostIdleStarts \/ HostIdleStopped \/ HostAwaitTimesOut
    \/ HostFailed

StreamingThread ==
    \/ ThreadEnter \/ ThreadTracks \/ ThreadStart \/ ThreadAnnounce
    \/ ThreadLoopEnds \/ ThreadDeactivate \/ ThreadStopMoonlight \/ ThreadRelease

WebRtc ==
    \/ \E s \in Sids, k \in Kinds : CallbackCheck(s, k)
    \/ \E s \in Sids : CallbackEffect(s)

Host == MoonlightTerminates \/ HostAppQuits

\* Everything but the messages of the client.
Internal == SocketThread \/ StreamingThread \/ WebRtc \/ Host \/ SocketDrops \/ HandleClosed

Client ==
    \/ \E a \in Apps, c \in Codecs : HandleStart(a, c)
    \/ HandleStop \/ HandleGetApps
    \/ HandleHostOperation("stop-host-session", NoApp, "av1")
    \/ \E a \in Apps, c \in Codecs : HandleHostOperation("switch-session", a, c)
    \/ \E s \in Sids, outcome \in AnswerOutcomes : HandleAnswer(s, outcome)

Next == Internal \/ Client \/ Closed

Spec == Init /\ [][Next]_vars

\* The operating system runs every thread that can run, and the blocking calls
\* (HTTP with its timeouts, MoonlightSession::start) return.  Nothing is assumed
\* of the client, of WebRTC raising callbacks, or of Sunshine.
Fairness ==
    /\ WF_vars(SocketThread)
    /\ WF_vars(StreamingThread)
    /\ WF_vars(HandleClosed)
    /\ \A s \in Sids : WF_vars(CallbackEffect(s))

FairSpec == Spec /\ Fairness
-----------------------------------------------------------------------------
ThreadPcs == {"none", "enter", "wait", "start", "announce", "loop", "deactivate", "stop",
              "release", "exited"}
HostPcs   == {"query", "resume", "launch", "cancel", "await", "failed"}
StopPcs   == {"stopRead", "stopRequest", "stopJoin", "stopClear"}
SockPcs   == {"idle", "check", "load", "assign", "create", "closed"} \cup StopPcs \cup HostPcs
Requests  == {"none", "start-session", "stop-session", "switch-session", "stop-host-session",
              "close"}

TypeOK ==
    /\ socketOpen \in BOOLEAN
    /\ sock \in [pc : SockPcs, type : Requests, app : Apps \cup {NoApp},
                 codec : Codecs, plan : {"none", "resume", "launch", "cancel"}]
    /\ nextSessionId \in 1..MaxSessions + 1
    /\ sessionId \in 0..MaxSessions
    /\ codec \in Codecs
    /\ app \in Apps \cup {NoApp}
    /\ peer \in 0..MaxSessions
    /\ peerConnected \in BOOLEAN /\ videoTrackOpen \in BOOLEAN /\ audioTrackOpen \in BOOLEAN
    /\ stopRequested \in BOOLEAN /\ streamingActive \in BOOLEAN
    /\ hostOperationActive \in BOOLEAN
    /\ moonlight \in {"none", "idle", "connected", "stopped"}
    /\ inputActive \in BOOLEAN
    /\ thread \in [pc : ThreadPcs, sid : 0..MaxSessions]
    /\ hasRemoteDescription \in BOOLEAN
    /\ fired \in SUBSET Kinds
    /\ callback \in [Sids -> Kinds \cup {"none"}]
    /\ hostApp \in Apps \cup {NoApp}

\* The streaming thread works on the Session's own fields, not on copies: while
\* it exists its session must stay in place, and a new one may not be created
\* over it (assigning a joinable std::thread terminates the process).
ThreadOwnsSession ==
    /\ thread.pc # "none" => thread.sid = sessionId /\ peer = sessionId /\ sessionId # 0
    /\ sock.pc \in {"assign", "create"} => thread.pc = "none" /\ moonlight = "none"

\* Controllers reach the host only over a connected Moonlight session: input is
\* switched off before the connection is taken down.
InputNeedsMoonlight == inputActive => moonlight = "connected"

\* When the TV is told "idle" without a session, everything the last session
\* owned is released, so the next start-session is admissible.
IdleMeansReleased ==
    (\E i \in DOMAIN sent : sent[i] = Status("idle", 0))
        => sessionId = 0 /\ peer = 0 /\ thread.pc = "none" /\ ~streamingActive

\* A host operation excludes the other one exactly while it runs: the flag is
\* set in every step of it and cleared on each of its ways out.
HostOperationScoped ==
    hostOperationActive
        <=> \/ sock.pc \in HostPcs
            \/ sock.pc \in StopPcs /\ sock.type \in HostTypes

\* A switch that has to cancel the old application does so only after the local
\* stream is gone, and starts the target only once the old one has quit.
SwitchOrdered ==
    /\ sock.pc = "cancel" => peer = 0 /\ thread.pc = "none" /\ moonlight = "none"
    /\ sock.plan = "cancel" /\ sock.pc \in {"check", "load", "assign", "create"}
            => hostApp = NoApp

\* gateway-protocol.md: the Gateway "verifies Sunshine is idle, and only then
\* starts"; also when no application ran at the time of the query.
SwitchStartsFromIdle ==
    sock.plan \in {"launch", "cancel"} /\ sock.pc \in {"check", "load", "assign", "create"}
        => hostApp = NoApp

\* Every handler finishes, although it joins a thread that may be waiting for
\* tracks, connecting or streaming.
HandlerCompletes == (sock.pc # "idle") ~> (sock.pc \in {"idle", "closed"})

\* A stop request, whoever makes it, ends the streaming thread.
StopHonoured == (stopRequested /\ ThreadRunning) ~> ~ThreadRunning

\* What a session is to a client: a lease with a fresh id, and a stream inside it.
Lease == INSTANCE SessionLease WITH
            current <- sessionId,
            last <- nextSessionId - 1,
            streaming <- moonlight = "connected",
            running <- hostApp

\* The threads and handlers together implement that lease.
LeaseSpec == Lease!Spec
=============================================================================
