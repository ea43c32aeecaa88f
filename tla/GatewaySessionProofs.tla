------------------------ MODULE GatewaySessionProofs ------------------------
(***************************************************************************)
(* Theorems about GatewaySession for every set of applications and codecs  *)
(* and every number of sessions.                                           *)
(*                                                                         *)
(* None of the properties is inductive: that the streaming thread owns its *)
(* session depends on where the socket thread stands in startSession and   *)
(* stopActiveSession.  Where and Phases say that, for the socket thread    *)
(* and for the streaming thread.                                           *)
(***************************************************************************)
EXTENDS GatewaySession, TLAPS

\* What the position of the socket thread says about the session.
Where ==
    /\ sock.pc \in {"load", "assign", "cancel", "await", "resume", "launch"} => sessionId = 0
    /\ sock.pc = "create" => sessionId # 0 /\ peer = 0 /\ thread.pc = "none"
    /\ sock.pc \in {"stopRequest", "stopJoin", "stopClear"} => sessionId # 0
    /\ sock.pc = "stopClear" => thread.pc = "none"
    /\ sock.pc \in StopPcs => sock.type # "none"
    /\ sock.pc \in StopPcs /\ sock.type \in HostTypes => sock.plan # "none"
    /\ sock.pc \in HostPcs => sock.type \in HostTypes
    /\ sock.pc \in {"check", "load", "assign", "create"} => sock.type = "start-session"
    /\ sock.pc = "check" /\ sock.plan # "none" => sessionId = 0
    /\ sock.pc \in {"idle", "query"} => sock.plan = "none"
    /\ sock.pc \in {"resume", "launch", "cancel"} => sock.plan = sock.pc
    /\ sock.type = "stop-host-session" => sock.plan \in {"none", "cancel"}
    /\ sock.pc \in {"check", "load", "assign"} => nextSessionId <= MaxSessions
    /\ sock.type = "switch-session" => nextSessionId <= MaxSessions

\* The session and its thread go together, and so do the thread and Moonlight.
Phases ==
    /\ sessionId < nextSessionId
    /\ peer # 0 => peer = sessionId
    /\ thread.pc # "none" => thread.sid = sessionId /\ peer = sessionId /\ sessionId # 0
    /\ thread.pc \in {"none", "enter", "wait", "exited"} => moonlight = "none"
    /\ thread.pc = "start" => moonlight = "idle"
    /\ thread.pc \in {"announce", "loop"} => moonlight = "connected"
    /\ thread.pc = "release" => moonlight = "stopped"
    /\ streamingActive => thread.pc \in {"loop", "deactivate", "stop", "release"}
    /\ inputActive => thread.pc \in {"loop", "deactivate"} /\ moonlight = "connected"

\* TypeOK in two parts: the flags, and everything else.
FlagsOK ==
    /\ socketOpen \in BOOLEAN
    /\ peerConnected \in BOOLEAN /\ videoTrackOpen \in BOOLEAN /\ audioTrackOpen \in BOOLEAN
    /\ stopRequested \in BOOLEAN /\ streamingActive \in BOOLEAN
    /\ hostOperationActive \in BOOLEAN
    /\ inputActive \in BOOLEAN
    /\ hasRemoteDescription \in BOOLEAN

DataOK ==
    /\ sock \in [pc : SockPcs, type : Requests, app : Apps \cup {NoApp},
                 codec : Codecs, plan : {"none", "resume", "launch", "cancel"}]
    /\ nextSessionId \in 1..MaxSessions + 1
    /\ sessionId \in 0..MaxSessions
    /\ codec \in Codecs
    /\ app \in Apps \cup {NoApp}
    /\ peer \in 0..MaxSessions
    /\ moonlight \in {"none", "idle", "connected", "stopped"}
    /\ thread \in [pc : ThreadPcs, sid : 0..MaxSessions]
    /\ fired \in SUBSET Kinds
    /\ callback \in [Sids -> Kinds \cup {"none"}]
    /\ hostApp \in Apps \cup {NoApp}

IInv == FlagsOK /\ DataOK /\ Where /\ Phases /\ HostOperationScoped /\ SwitchOrdered

\* The type invariant is the flags' part and the other variables' part.
LEMMA TypeParts == TypeOK <=> FlagsOK /\ DataOK
BY Zenon DEF TypeOK, FlagsOK, DataOK
-----------------------------------------------------------------------------
\* A process that has just started satisfies the inductive invariant.
LEMMA InitInvariant == Init => IInv
<1> SUFFICES ASSUME Init PROVE IInv
  OBVIOUS
<1>1. FlagsOK
  BY Zenon DEF Init, FlagsOK
<1>2. DataOK
  BY ConstantsAssumption
     DEF Init, DataOK, Sids, NoRequest, NoThread, SockPcs, HostPcs, StopPcs, Requests, ThreadPcs
<1>3. Where /\ Phases /\ HostOperationScoped /\ SwitchOrdered
  BY DEF Init, Where, Phases, HostOperationScoped, SwitchOrdered, NoRequest, NoThread, HostPcs,
         StopPcs, HostTypes
<1> QED
  BY <1>1, <1>2, <1>3 DEF IInv

\* The handlers keep it.
LEMMA SocketThreadInvariant == IInv /\ SocketThread => IInv'
<1> SUFFICES ASSUME IInv, SocketThread PROVE IInv'
  OBVIOUS
<1> USE ConstantsAssumption
       DEF IInv, DataOK, sessionVars, ident, flags, stream, rtc, vars, ThreadUnchanged,
           HostPcs, StopPcs, HostTypes, SockPcs, Requests, ThreadPcs, Sids, NoRequest
<1>1. CASE CheckStart
  <2>1. FlagsOK'
    BY <1>1, Zenon DEF CheckStart, FlagsOK, Goto, Done, StartAdmissible
  <2>2. DataOK'
    BY <1>1 DEF CheckStart, Where, Goto, Done, StartAdmissible
  <2>3. Where' /\ Phases'
    BY <1>1 DEF CheckStart, Where, Phases, Goto, Done, StartAdmissible
  <2>4. HostOperationScoped' /\ SwitchOrdered'
    BY <1>1 DEF CheckStart, Where, Phases, HostOperationScoped, SwitchOrdered, Goto, Done, StartAdmissible
  <2> QED
    BY <2>1, <2>2, <2>3, <2>4
<1>2. CASE LoadApplications
  <2>1. FlagsOK'
    BY <1>2, Zenon DEF LoadApplications, FlagsOK, Goto, Done
  <2>2. DataOK'
    BY <1>2 DEF LoadApplications, Where, Goto, Done
  <2>3. Where' /\ Phases'
    BY <1>2 DEF LoadApplications, Where, Phases, Goto, Done
  <2>4. HostOperationScoped' /\ SwitchOrdered'
    BY <1>2 DEF LoadApplications, Where, Phases, HostOperationScoped, SwitchOrdered, Goto, Done
  <2> QED
    BY <2>1, <2>2, <2>3, <2>4
<1>3. CASE AssignSession
  <2>1. FlagsOK'
    BY <1>3, Zenon DEF AssignSession, FlagsOK, Goto
  <2>2. DataOK'
    BY <1>3 DEF AssignSession, Where, Goto
  <2>3. Where' /\ Phases'
    BY <1>3 DEF AssignSession, Where, Phases, Goto
  <2>4. HostOperationScoped' /\ SwitchOrdered'
    BY <1>3 DEF AssignSession, Where, Phases, HostOperationScoped, SwitchOrdered, Goto
  <2> QED
    BY <2>1, <2>2, <2>3, <2>4
<1>4. CASE CreatePeerConnection
  <2>1. FlagsOK'
    BY <1>4, Zenon DEF CreatePeerConnection, FlagsOK, Goto, Done
  <2>2. DataOK'
    BY <1>4 DEF CreatePeerConnection, Where, Goto, Done
  <2>3. Where' /\ Phases'
    BY <1>4 DEF CreatePeerConnection, Where, Phases, Goto, Done
  <2>4. HostOperationScoped' /\ SwitchOrdered'
    BY <1>4 DEF CreatePeerConnection, Where, Phases, HostOperationScoped, SwitchOrdered, Goto, Done
  <2> QED
    BY <2>1, <2>2, <2>3, <2>4
<1>5. CASE StopRead
  <2>1. FlagsOK'
    BY <1>5, Zenon DEF StopRead, FlagsOK, Goto, AfterStop, Done, NotifyClient
  <2>2. DataOK'
    BY <1>5 DEF StopRead, Where, Goto, AfterStop, Done, NotifyClient
  <2>3. Where' /\ Phases'
    BY <1>5 DEF StopRead, Where, Phases, Goto, AfterStop, Done, NotifyClient
  <2>4. HostOperationScoped' /\ SwitchOrdered'
    BY <1>5 DEF StopRead, Where, Phases, HostOperationScoped, SwitchOrdered, Goto, AfterStop, Done, NotifyClient
  <2> QED
    BY <2>1, <2>2, <2>3, <2>4
<1>6. CASE StopRequest
  <2>1. FlagsOK'
    BY <1>6, Zenon DEF StopRequest, FlagsOK, Goto
  <2>2. DataOK'
    BY <1>6 DEF StopRequest, Where, Goto
  <2>3. Where' /\ Phases'
    BY <1>6 DEF StopRequest, Where, Phases, Goto
  <2>4. HostOperationScoped' /\ SwitchOrdered'
    BY <1>6 DEF StopRequest, Where, Phases, HostOperationScoped, SwitchOrdered, Goto
  <2> QED
    BY <2>1, <2>2, <2>3, <2>4
<1>7. CASE StopJoin
  <2>1. FlagsOK'
    BY <1>7, Zenon DEF StopJoin, FlagsOK, Goto, NoThread, ThreadRunning
  <2>2. DataOK'
    BY <1>7 DEF StopJoin, Where, Goto, NoThread, ThreadRunning
  <2>3. Where' /\ Phases'
    BY <1>7 DEF StopJoin, Where, Phases, Goto, NoThread, ThreadRunning
  <2>4. HostOperationScoped' /\ SwitchOrdered'
    BY <1>7 DEF StopJoin, Where, Phases, HostOperationScoped, SwitchOrdered, Goto, NoThread, ThreadRunning
  <2> QED
    BY <2>1, <2>2, <2>3, <2>4
<1>8. CASE StopClear
  <2>1. FlagsOK'
    BY <1>8, Zenon DEF StopClear, FlagsOK, AfterStop, Goto, Done, NotifyClient
  <2>2. DataOK'
    BY <1>8 DEF StopClear, Where, AfterStop, Goto, Done, NotifyClient
  <2>3. Where' /\ Phases'
    BY <1>8 DEF StopClear, Where, Phases, AfterStop, Goto, Done, NotifyClient
  <2>4. HostOperationScoped' /\ SwitchOrdered'
    BY <1>8 DEF StopClear, Where, Phases, HostOperationScoped, SwitchOrdered, AfterStop, Goto, Done, NotifyClient
  <2> QED
    BY <2>1, <2>2, <2>3, <2>4
<1>9. CASE HostQueryFails
  <2>1. FlagsOK'
    BY <1>9, Zenon DEF HostQueryFails, FlagsOK, Goto
  <2>2. DataOK'
    BY <1>9 DEF HostQueryFails, Where, Goto
  <2>3. Where' /\ Phases'
    BY <1>9 DEF HostQueryFails, Where, Phases, Goto
  <2>4. HostOperationScoped' /\ SwitchOrdered'
    BY <1>9 DEF HostQueryFails, Where, Phases, HostOperationScoped, SwitchOrdered, Goto
  <2> QED
    BY <2>1, <2>2, <2>3, <2>4
<1>10. CASE HostQueryNoCancel
  <2>1. FlagsOK'
    BY <1>10, Zenon DEF HostQueryNoCancel, FlagsOK, Switching
  <2>2. DataOK'
    BY <1>10 DEF HostQueryNoCancel, Where, Switching
  <2>3. Where' /\ Phases'
    BY <1>10 DEF HostQueryNoCancel, Where, Phases, Switching
  <2>4. HostOperationScoped' /\ SwitchOrdered'
    BY <1>10 DEF HostQueryNoCancel, Where, Phases, HostOperationScoped, SwitchOrdered, Switching
  <2> QED
    BY <2>1, <2>2, <2>3, <2>4
<1>11. CASE HostQueryNothingToStop
  <2>1. FlagsOK'
    BY <1>11, Zenon DEF HostQueryNothingToStop, FlagsOK, Finish, Done, Switching
  <2>2. DataOK'
    BY <1>11 DEF HostQueryNothingToStop, Where, Finish, Done, Switching
  <2>3. Where' /\ Phases'
    BY <1>11 DEF HostQueryNothingToStop, Where, Phases, Finish, Done, Switching
  <2>4. HostOperationScoped' /\ SwitchOrdered'
    BY <1>11 DEF HostQueryNothingToStop, Where, Phases, HostOperationScoped, SwitchOrdered, Finish, Done, Switching
  <2> QED
    BY <2>1, <2>2, <2>3, <2>4
<1>12. CASE HostQueryCancel
  <2>1. FlagsOK'
    BY <1>12, Zenon DEF HostQueryCancel, FlagsOK, Switching
  <2>2. DataOK'
    BY <1>12 DEF HostQueryCancel, Where, Switching
  <2>3. Where' /\ Phases'
    BY <1>12 DEF HostQueryCancel, Where, Phases, Switching
  <2>4. HostOperationScoped' /\ SwitchOrdered'
    BY <1>12 DEF HostQueryCancel, Where, Phases, HostOperationScoped, SwitchOrdered, Switching
  <2> QED
    BY <2>1, <2>2, <2>3, <2>4
<1>13. CASE HostStart
  <2>1. FlagsOK'
    BY <1>13, Zenon DEF HostStart, FlagsOK, FinishAndStart
  <2>2. DataOK'
    BY <1>13 DEF HostStart, Where, FinishAndStart
  <2>3. Where' /\ Phases'
    BY <1>13 DEF HostStart, Where, Phases, FinishAndStart
  <2>4. HostOperationScoped' /\ SwitchOrdered'
    BY <1>13 DEF HostStart, Where, Phases, HostOperationScoped, SwitchOrdered, FinishAndStart
  <2> QED
    BY <2>1, <2>2, <2>3, <2>4
<1>14. CASE HostCancel
  <2>1. FlagsOK'
    BY <1>14, Zenon DEF HostCancel, FlagsOK, Goto
  <2>2. DataOK'
    BY <1>14 DEF HostCancel, Where, Goto
  <2>3. Where' /\ Phases'
    BY <1>14 DEF HostCancel, Where, Phases, Goto
  <2>4. HostOperationScoped' /\ SwitchOrdered'
    BY <1>14 DEF HostCancel, Where, Phases, HostOperationScoped, SwitchOrdered, Goto
  <2> QED
    BY <2>1, <2>2, <2>3, <2>4
<1>15. CASE HostIdleStarts
  <2>1. FlagsOK'
    BY <1>15, Zenon DEF HostIdleStarts, FlagsOK, FinishAndStart, Switching
  <2>2. DataOK'
    BY <1>15 DEF HostIdleStarts, Where, FinishAndStart, Switching
  <2>3. Where' /\ Phases'
    BY <1>15 DEF HostIdleStarts, Where, Phases, FinishAndStart, Switching
  <2>4. HostOperationScoped' /\ SwitchOrdered'
    BY <1>15 DEF HostIdleStarts, Where, Phases, HostOperationScoped, SwitchOrdered, FinishAndStart, Switching
  <2> QED
    BY <2>1, <2>2, <2>3, <2>4
<1>16. CASE HostIdleStopped
  <2>1. FlagsOK'
    BY <1>16, Zenon DEF HostIdleStopped, FlagsOK, Finish, Done, Switching
  <2>2. DataOK'
    BY <1>16 DEF HostIdleStopped, Where, Finish, Done, Switching
  <2>3. Where' /\ Phases'
    BY <1>16 DEF HostIdleStopped, Where, Phases, Finish, Done, Switching
  <2>4. HostOperationScoped' /\ SwitchOrdered'
    BY <1>16 DEF HostIdleStopped, Where, Phases, HostOperationScoped, SwitchOrdered, Finish, Done, Switching
  <2> QED
    BY <2>1, <2>2, <2>3, <2>4
<1>17. CASE HostAwaitTimesOut
  <2>1. FlagsOK'
    BY <1>17, Zenon DEF HostAwaitTimesOut, FlagsOK, Goto
  <2>2. DataOK'
    BY <1>17 DEF HostAwaitTimesOut, Where, Goto
  <2>3. Where' /\ Phases'
    BY <1>17 DEF HostAwaitTimesOut, Where, Phases, Goto
  <2>4. HostOperationScoped' /\ SwitchOrdered'
    BY <1>17 DEF HostAwaitTimesOut, Where, Phases, HostOperationScoped, SwitchOrdered, Goto
  <2> QED
    BY <2>1, <2>2, <2>3, <2>4
<1>18. CASE HostFailed
  <2>1. FlagsOK'
    BY <1>18, Zenon DEF HostFailed, FlagsOK, Finish, Done
  <2>2. DataOK'
    BY <1>18 DEF HostFailed, Where, Finish, Done
  <2>3. Where' /\ Phases'
    BY <1>18 DEF HostFailed, Where, Phases, Finish, Done
  <2>4. HostOperationScoped' /\ SwitchOrdered'
    BY <1>18 DEF HostFailed, Where, Phases, HostOperationScoped, SwitchOrdered, Finish, Done
  <2> QED
    BY <2>1, <2>2, <2>3, <2>4
<1> QED
  BY <1>1, <1>2, <1>3, <1>4, <1>5, <1>6, <1>7, <1>8, <1>9, <1>10, <1>11, <1>12, <1>13, <1>14, <1>15, <1>16, <1>17, <1>18 DEF SocketThread

\* So does the streaming thread.
LEMMA StreamingThreadInvariant == IInv /\ StreamingThread => IInv'
<1> SUFFICES ASSUME IInv, StreamingThread PROVE IInv'
  OBVIOUS
<1> USE ConstantsAssumption
       DEF IInv, DataOK, sessionVars, ident, flags, stream, rtc, vars, ThreadUnchanged,
           HostPcs, StopPcs, HostTypes, SockPcs, Requests, ThreadPcs, Sids, NoRequest
<1>1. CASE ThreadEnter
  <2>1. FlagsOK'
    BY <1>1, Zenon DEF ThreadEnter, FlagsOK, ThreadGoto
  <2>2. DataOK'
    BY <1>1 DEF ThreadEnter, Where, ThreadGoto
  <2>3. Where' /\ Phases'
    BY <1>1 DEF ThreadEnter, Where, Phases, ThreadGoto
  <2>4. HostOperationScoped' /\ SwitchOrdered'
    BY <1>1 DEF ThreadEnter, Where, Phases, HostOperationScoped, SwitchOrdered, ThreadGoto
  <2> QED
    BY <2>1, <2>2, <2>3, <2>4
<1>2. CASE ThreadTracks
  <2>1. FlagsOK'
    BY <1>2, Zenon DEF ThreadTracks, FlagsOK, ThreadGoto, TracksReady
  <2>2. DataOK'
    BY <1>2 DEF ThreadTracks, Where, ThreadGoto, TracksReady
  <2>3. Where' /\ Phases'
    BY <1>2 DEF ThreadTracks, Where, Phases, ThreadGoto, TracksReady
  <2>4. HostOperationScoped' /\ SwitchOrdered'
    BY <1>2 DEF ThreadTracks, Where, Phases, HostOperationScoped, SwitchOrdered, ThreadGoto, TracksReady
  <2> QED
    BY <2>1, <2>2, <2>3, <2>4
<1>3. CASE ThreadStart
  <2>1. FlagsOK'
    BY <1>3, Zenon DEF ThreadStart, FlagsOK, ThreadGoto
  <2>2. DataOK'
    BY <1>3 DEF ThreadStart, Where, ThreadGoto
  <2>3. Where' /\ Phases'
    BY <1>3 DEF ThreadStart, Where, Phases, ThreadGoto
  <2>4. HostOperationScoped' /\ SwitchOrdered'
    BY <1>3 DEF ThreadStart, Where, Phases, HostOperationScoped, SwitchOrdered, ThreadGoto
  <2> QED
    BY <2>1, <2>2, <2>3, <2>4
<1>4. CASE ThreadAnnounce
  <2>1. FlagsOK'
    BY <1>4, Zenon DEF ThreadAnnounce, FlagsOK, ThreadGoto
  <2>2. DataOK'
    BY <1>4 DEF ThreadAnnounce, Where, ThreadGoto
  <2>3. Where' /\ Phases'
    BY <1>4 DEF ThreadAnnounce, Where, Phases, ThreadGoto
  <2>4. HostOperationScoped' /\ SwitchOrdered'
    BY <1>4 DEF ThreadAnnounce, Where, Phases, HostOperationScoped, SwitchOrdered, ThreadGoto
  <2> QED
    BY <2>1, <2>2, <2>3, <2>4
<1>5. CASE ThreadLoopEnds
  <2>1. FlagsOK'
    BY <1>5, Zenon DEF ThreadLoopEnds, FlagsOK, ThreadGoto
  <2>2. DataOK'
    BY <1>5 DEF ThreadLoopEnds, Where, ThreadGoto
  <2>3. Where' /\ Phases'
    BY <1>5 DEF ThreadLoopEnds, Where, Phases, ThreadGoto
  <2>4. HostOperationScoped' /\ SwitchOrdered'
    BY <1>5 DEF ThreadLoopEnds, Where, Phases, HostOperationScoped, SwitchOrdered, ThreadGoto
  <2> QED
    BY <2>1, <2>2, <2>3, <2>4
<1>6. CASE ThreadDeactivate
  <2>1. FlagsOK'
    BY <1>6, Zenon DEF ThreadDeactivate, FlagsOK, ThreadGoto
  <2>2. DataOK'
    BY <1>6 DEF ThreadDeactivate, Where, ThreadGoto
  <2>3. Where' /\ Phases'
    BY <1>6 DEF ThreadDeactivate, Where, Phases, ThreadGoto
  <2>4. HostOperationScoped' /\ SwitchOrdered'
    BY <1>6 DEF ThreadDeactivate, Where, Phases, HostOperationScoped, SwitchOrdered, ThreadGoto
  <2> QED
    BY <2>1, <2>2, <2>3, <2>4
<1>7. CASE ThreadStopMoonlight
  <2>1. FlagsOK'
    BY <1>7, Zenon DEF ThreadStopMoonlight, FlagsOK, ThreadGoto
  <2>2. DataOK'
    BY <1>7 DEF ThreadStopMoonlight, Where, ThreadGoto
  <2>3. Where' /\ Phases'
    BY <1>7 DEF ThreadStopMoonlight, Where, Phases, ThreadGoto
  <2>4. HostOperationScoped' /\ SwitchOrdered'
    BY <1>7 DEF ThreadStopMoonlight, Where, Phases, HostOperationScoped, SwitchOrdered, ThreadGoto
  <2> QED
    BY <2>1, <2>2, <2>3, <2>4
<1>8. CASE ThreadRelease
  <2>1. FlagsOK'
    BY <1>8, Zenon DEF ThreadRelease, FlagsOK, ThreadGoto
  <2>2. DataOK'
    BY <1>8 DEF ThreadRelease, Where, ThreadGoto
  <2>3. Where' /\ Phases'
    BY <1>8 DEF ThreadRelease, Where, Phases, ThreadGoto
  <2>4. HostOperationScoped' /\ SwitchOrdered'
    BY <1>8 DEF ThreadRelease, Where, Phases, HostOperationScoped, SwitchOrdered, ThreadGoto
  <2> QED
    BY <2>1, <2>2, <2>3, <2>4
<1> QED
  BY <1>1, <1>2, <1>3, <1>4, <1>5, <1>6, <1>7, <1>8 DEF StreamingThread

\* What Sunshine does by itself.
LEMMA HostInvariant == IInv /\ Host => IInv'
<1> SUFFICES ASSUME IInv, Host PROVE IInv'
  OBVIOUS
<1> USE ConstantsAssumption
       DEF IInv, DataOK, sessionVars, ident, flags, stream, rtc, vars, ThreadUnchanged,
           HostPcs, StopPcs, HostTypes, SockPcs, Requests, ThreadPcs, Sids, NoRequest
<1>1. CASE MoonlightTerminates
  <2>1. FlagsOK'
    BY <1>1, Zenon DEF MoonlightTerminates, FlagsOK
  <2>2. DataOK'
    BY <1>1 DEF MoonlightTerminates, Where
  <2>3. Where' /\ Phases'
    BY <1>1 DEF MoonlightTerminates, Where, Phases
  <2>4. HostOperationScoped' /\ SwitchOrdered'
    BY <1>1 DEF MoonlightTerminates, Where, Phases, HostOperationScoped, SwitchOrdered
  <2> QED
    BY <2>1, <2>2, <2>3, <2>4
<1>2. CASE HostAppQuits
  <2>1. FlagsOK'
    BY <1>2, Zenon DEF HostAppQuits, FlagsOK
  <2>2. DataOK'
    BY <1>2 DEF HostAppQuits, Where
  <2>3. Where' /\ Phases'
    BY <1>2 DEF HostAppQuits, Where, Phases
  <2>4. HostOperationScoped' /\ SwitchOrdered'
    BY <1>2 DEF HostAppQuits, Where, Phases, HostOperationScoped, SwitchOrdered
  <2> QED
    BY <2>1, <2>2, <2>3, <2>4
<1> QED
  BY <1>1, <1>2 DEF Host

\* The two halves of a callback.
LEMMA CallbackCheckInvariant ==
    ASSUME IInv, NEW s \in Sids, NEW k \in Kinds, CallbackCheck(s, k)
    PROVE  IInv'
<1> USE ConstantsAssumption
       DEF IInv, DataOK, sessionVars, ident, flags, stream, rtc, vars, ThreadUnchanged,
           HostPcs, StopPcs, HostTypes, SockPcs, Requests, ThreadPcs, Sids, NoRequest
<1>1. FlagsOK'
  BY Zenon DEF CallbackCheck, FlagsOK, Raisable
<1>2. DataOK'
  BY DEF CallbackCheck, Where, Raisable
<1>3. Where' /\ Phases'
  BY DEF CallbackCheck, Where, Phases, Raisable
<1>4. HostOperationScoped' /\ SwitchOrdered'
  BY DEF CallbackCheck, Where, Phases, HostOperationScoped, SwitchOrdered, Raisable
<1> QED
  BY <1>1, <1>2, <1>3, <1>4

\* A callback of the media stack, for the current session or a stale one, keeps it.
LEMMA CallbackEffectInvariant ==
    ASSUME IInv, NEW s \in Sids, CallbackEffect(s)
    PROVE  IInv'
<1> USE ConstantsAssumption
       DEF IInv, DataOK, sessionVars, ident, flags, stream, rtc, vars, ThreadUnchanged,
           HostPcs, StopPcs, HostTypes, SockPcs, Requests, ThreadPcs, Sids, NoRequest
<1>1. FlagsOK'
  BY Zenon DEF CallbackEffect, FlagsOK
<1>2. DataOK'
  BY DEF CallbackEffect, Where
<1>3. Where' /\ Phases'
  BY DEF CallbackEffect, Where, Phases
<1>4. HostOperationScoped' /\ SwitchOrdered'
  BY DEF CallbackEffect, Where, Phases, HostOperationScoped, SwitchOrdered
<1> QED
  BY <1>1, <1>2, <1>3, <1>4

\* The messages of the client.
LEMMA HandleStartInvariant ==
    ASSUME IInv, NEW a \in Apps, NEW c \in Codecs, HandleStart(a, c)
    PROVE  IInv'
<1> USE ConstantsAssumption
       DEF IInv, DataOK, sessionVars, ident, flags, stream, rtc, vars, ThreadUnchanged,
           HostPcs, StopPcs, HostTypes, SockPcs, Requests, ThreadPcs, Sids, NoRequest
<1>1. FlagsOK'
  BY Zenon DEF HandleStart, FlagsOK, Receive
<1>2. DataOK'
  BY DEF HandleStart, Where, Receive
<1>3. Where' /\ Phases'
  BY DEF HandleStart, Where, Phases, Receive
<1>4. HostOperationScoped' /\ SwitchOrdered'
  BY DEF HandleStart, Where, Phases, HostOperationScoped, SwitchOrdered, Receive
<1> QED
  BY <1>1, <1>2, <1>3, <1>4

\* A stop request, with a session or without one, keeps it.
LEMMA HandleStopInvariant ==
    ASSUME IInv, HandleStop
    PROVE  IInv'
<1> USE ConstantsAssumption
       DEF IInv, DataOK, sessionVars, ident, flags, stream, rtc, vars, ThreadUnchanged,
           HostPcs, StopPcs, HostTypes, SockPcs, Requests, ThreadPcs, Sids, NoRequest
<1>1. FlagsOK'
  BY Zenon DEF HandleStop, FlagsOK, Receive
<1>2. DataOK'
  BY DEF HandleStop, Where, Receive
<1>3. Where' /\ Phases'
  BY DEF HandleStop, Where, Phases, Receive
<1>4. HostOperationScoped' /\ SwitchOrdered'
  BY DEF HandleStop, Where, Phases, HostOperationScoped, SwitchOrdered, Receive
<1> QED
  BY <1>1, <1>2, <1>3, <1>4

\* The query for the applications keeps it.
LEMMA HandleGetAppsInvariant ==
    ASSUME IInv, HandleGetApps
    PROVE  IInv'
<1> USE ConstantsAssumption
       DEF IInv, DataOK, sessionVars, ident, flags, stream, rtc, vars, ThreadUnchanged,
           HostPcs, StopPcs, HostTypes, SockPcs, Requests, ThreadPcs, Sids, NoRequest
<1>1. FlagsOK'
  BY Zenon DEF HandleGetApps, FlagsOK
<1>2. DataOK'
  BY DEF HandleGetApps, Where
<1>3. Where' /\ Phases'
  BY DEF HandleGetApps, Where, Phases
<1>4. HostOperationScoped' /\ SwitchOrdered'
  BY DEF HandleGetApps, Where, Phases, HostOperationScoped, SwitchOrdered
<1> QED
  BY <1>1, <1>2, <1>3, <1>4

\* A request that needs the host, refused or taken up, keeps it.
LEMMA HandleHostOperationInvariant ==
    ASSUME IInv, NEW type \in HostTypes, NEW a \in Apps \cup {NoApp}, NEW c \in Codecs,
           HandleHostOperation(type, a, c)
    PROVE  IInv'
<1> USE ConstantsAssumption
       DEF IInv, DataOK, sessionVars, ident, flags, stream, rtc, vars, ThreadUnchanged,
           HostPcs, StopPcs, HostTypes, SockPcs, Requests, ThreadPcs, Sids, NoRequest
<1>1. CASE hostOperationActive
  <2>1. FlagsOK'
    BY <1>1, Zenon DEF HandleHostOperation, FlagsOK, Receive
  <2>2. DataOK'
    BY <1>1 DEF HandleHostOperation, Where, Receive
  <2>3. Where' /\ Phases'
    BY <1>1 DEF HandleHostOperation, Where, Phases, Receive
  <2>4. HostOperationScoped' /\ SwitchOrdered'
    BY <1>1 DEF HandleHostOperation, Where, Phases, HostOperationScoped, SwitchOrdered, Receive
  <2> QED
    BY <2>1, <2>2, <2>3, <2>4
<1>2. CASE ~hostOperationActive
  <2>1. FlagsOK'
    BY <1>2, Zenon DEF HandleHostOperation, FlagsOK, Receive
  <2>2. DataOK'
    BY <1>2 DEF HandleHostOperation, Where, Receive
  <2>3. Where' /\ Phases'
    BY <1>2 DEF HandleHostOperation, Where, Phases, Receive
  <2>4. HostOperationScoped' /\ SwitchOrdered'
    BY <1>2 DEF HandleHostOperation, Where, Phases, HostOperationScoped, SwitchOrdered, Receive
  <2> QED
    BY <2>1, <2>2, <2>3, <2>4
<1> QED
  BY <1>1, <1>2

\* An SDP answer, for this session or another one, accepted or not, keeps it.
LEMMA HandleAnswerInvariant ==
    ASSUME IInv, NEW s \in Sids, NEW outcome \in AnswerOutcomes, HandleAnswer(s, outcome)
    PROVE  IInv'
<1> USE ConstantsAssumption
       DEF IInv, DataOK, sessionVars, ident, flags, stream, rtc, vars, ThreadUnchanged,
           HostPcs, StopPcs, HostTypes, SockPcs, Requests, ThreadPcs, Sids, NoRequest
<1>1. FlagsOK'
  BY Zenon DEF HandleAnswer, FlagsOK
<1>2. DataOK'
  BY DEF HandleAnswer, Where
<1>3. Where' /\ Phases'
  BY DEF HandleAnswer, Where, Phases
<1>4. HostOperationScoped' /\ SwitchOrdered'
  BY DEF HandleAnswer, Where, Phases, HostOperationScoped, SwitchOrdered
<1> QED
  BY <1>1, <1>2, <1>3, <1>4

\* The connection is lost.
LEMMA SocketDropsInvariant ==
    ASSUME IInv, SocketDrops
    PROVE  IInv'
<1> USE ConstantsAssumption
       DEF IInv, DataOK, sessionVars, ident, flags, stream, rtc, vars, ThreadUnchanged,
           HostPcs, StopPcs, HostTypes, SockPcs, Requests, ThreadPcs, Sids, NoRequest
<1>1. FlagsOK'
  BY Zenon DEF SocketDrops, FlagsOK
<1>2. DataOK'
  BY DEF SocketDrops, Where
<1>3. Where' /\ Phases'
  BY DEF SocketDrops, Where, Phases
<1>4. HostOperationScoped' /\ SwitchOrdered'
  BY DEF SocketDrops, Where, Phases, HostOperationScoped, SwitchOrdered
<1> QED
  BY <1>1, <1>2, <1>3, <1>4

\* The WebSocket's closing keeps it.
LEMMA HandleClosedInvariant ==
    ASSUME IInv, HandleClosed
    PROVE  IInv'
<1> USE ConstantsAssumption
       DEF IInv, DataOK, sessionVars, ident, flags, stream, rtc, vars, ThreadUnchanged,
           HostPcs, StopPcs, HostTypes, SockPcs, Requests, ThreadPcs, Sids, NoRequest
<1>1. FlagsOK'
  BY Zenon DEF HandleClosed, FlagsOK
<1>2. DataOK'
  BY DEF HandleClosed, Where
<1>3. Where' /\ Phases'
  BY DEF HandleClosed, Where, Phases
<1>4. HostOperationScoped' /\ SwitchOrdered'
  BY DEF HandleClosed, Where, Phases, HostOperationScoped, SwitchOrdered
<1> QED
  BY <1>1, <1>2, <1>3, <1>4

\* A step that changes nothing keeps it.
LEMMA StutterInvariant == IInv /\ UNCHANGED vars => IInv'
<1> SUFFICES ASSUME IInv, UNCHANGED vars PROVE IInv'
  OBVIOUS
<1> USE DEF IInv, vars, ident, flags, stream, rtc
<1>1. FlagsOK'
  BY Zenon DEF FlagsOK
<1>2. DataOK'
  BY DEF DataOK
<1>3. Where' /\ Phases'
  BY DEF Where, Phases
<1>4. HostOperationScoped' /\ SwitchOrdered'
  BY DEF HostOperationScoped, SwitchOrdered
<1> QED
  BY <1>1, <1>2, <1>3, <1>4

\* Every step of the socket thread, the streaming thread and the callbacks keeps it.
LEMMA NextInvariant == IInv /\ [Next]_vars => IInv'
<1> SUFFICES ASSUME IInv, [Next]_vars PROVE IInv'
  OBVIOUS
<1>1. CASE SocketThread
  BY <1>1, SocketThreadInvariant
<1>2. CASE StreamingThread
  BY <1>2, StreamingThreadInvariant
<1>3. CASE WebRtc
  BY <1>3, CallbackCheckInvariant, CallbackEffectInvariant DEF WebRtc
<1>4. CASE Host
  BY <1>4, HostInvariant
<1>5. CASE SocketDrops \/ HandleClosed
  BY <1>5, SocketDropsInvariant, HandleClosedInvariant
<1>6. CASE Client
  BY <1>6, ConstantsAssumption, HandleStartInvariant, HandleStopInvariant,
     HandleGetAppsInvariant, HandleHostOperationInvariant, HandleAnswerInvariant DEF Client, HostTypes
<1>7. CASE Closed \/ UNCHANGED vars
  BY <1>7, StutterInvariant DEF Closed
<1> QED
  BY <1>1, <1>2, <1>3, <1>4, <1>5, <1>6, <1>7 DEF Next, Internal

\* It therefore holds in every reachable state.
LEMMA Invariant == Spec => []IInv
<1>1. Init => IInv
  BY InitInvariant
<1>2. IInv /\ [Next]_vars => IInv'
  BY NextInvariant
<1> QED
  BY <1>1, <1>2, PTL DEF Spec
-----------------------------------------------------------------------------
\* Every variable keeps its type.  In particular the ids given out never pass
\* MaxSessions, although the guard is checked when the message arrives and the
\* id is taken after two more steps.
THEOREM TypeCorrect == Spec => []TypeOK
<1>1. IInv => TypeOK
  BY TypeParts DEF IInv
<1> QED
  BY <1>1, Invariant, PTL

\* The streaming thread reads the Session's fields without holding streamMutex
\* all along: its session stays in place as long as it exists, and none is
\* created over it.
THEOREM SessionOutlivesThread == Spec => []ThreadOwnsSession
<1>1. IInv => ThreadOwnsSession
  BY DEF IInv, DataOK, Where, Phases, ThreadOwnsSession
<1> QED
  BY <1>1, Invariant, PTL

\* Whatever ends the stream, controllers are neutralized before Moonlight is
\* stopped: setMoonlightSessionActive(false) precedes MoonlightSession::stop.
THEOREM InputStopsFirst == Spec => []InputNeedsMoonlight
<1>1. IInv => InputNeedsMoonlight
  BY DEF IInv, Phases, InputNeedsMoonlight
<1> QED
  BY <1>1, Invariant, PTL

\* beginHostOperation is undone on every way out of stopOrSwitchHostSession.
THEOREM HostOperationEnds == Spec => []HostOperationScoped
<1>1. IInv => HostOperationScoped
  BY DEF IInv
<1> QED
  BY <1>1, Invariant, PTL

\* stopOrSwitchHostSession cancels the old application only after the local
\* stream is gone, and starts the target only after Sunshine was idle.
THEOREM SwitchInOrder == Spec => []SwitchOrdered
<1>1. IInv => SwitchOrdered
  BY DEF IInv
<1> QED
  BY <1>1, Invariant, PTL
-----------------------------------------------------------------------------
\* The client is told that no session is left.
TellsIdle == \E i \in DOMAIN sent : sent[i] = Status("idle", 0)

\* What is said of a session names it, and of all other messages only session-status is
\* about one.
LEMMA OtherMessages ==
    /\ \A a : GatewayStatus(a) # Status("idle", 0) /\ AppList(a) # Status("idle", 0)
    /\ \A state : HostStatus(state) # Status("idle", 0)
    /\ \A code : Error(code) # Status("idle", 0)
    /\ \A s : Offer(s) # Status("idle", 0)
    /\ \A state, s : state # "idle" \/ s # 0 => Status(state, s) # Status("idle", 0)
<1> QED
  BY DEF GatewayStatus, AppList, HostStatus, Error, Offer, Status, Message

\* A message says so only when stopActiveSession has nothing left to release.
LEMMA SocketThreadTellsIdle ==
    ASSUME IInv, SocketThread, TellsIdle'
    PROVE  IdleMeansReleased'
<1> USE DEF TellsIdle, Send, Silent, sessionVars, ident, stream
<1>1. CASE StopRead
  <2>1. sessionId = 0 /\ UNCHANGED <<sessionId, peer, thread, streamingActive>>
    BY <1>1, OtherMessages DEF StopRead, SessionStatus
  <2> QED
    BY <2>1 DEF IInv, DataOK, Phases, IdleMeansReleased
<1>2. CASE StopClear
  BY <1>2 DEF StopClear, IInv, Where, IdleMeansReleased
<1>3. SocketThread => StopRead \/ StopClear
  BY OtherMessages
     DEF SocketThread, CheckStart, LoadApplications, AssignSession, CreatePeerConnection,
         StopRequest, StopJoin, HostQueryFails, HostQueryNoCancel, HostQueryNothingToStop,
         HostQueryCancel, HostStart, HostCancel, HostIdleStarts, HostIdleStopped,
         HostAwaitTimesOut, HostFailed, Finish, FinishAndStart, IInv, Where, DataOK, SessionStatus
<1> QED
  BY <1>1, <1>2, <1>3

\* The streaming thread and the callbacks never do: they speak of the session that is there.
LEMMA OthersTellNoIdle ==
    ASSUME IInv, StreamingThread \/ WebRtc \/ Host \/ SocketDrops \/ HandleClosed \/ Client
    PROVE  ~TellsIdle'
<1> USE OtherMessages DEF TellsIdle, Send, Silent
<1>1. CASE StreamingThread
  BY <1>1 DEF StreamingThread, ThreadEnter, ThreadTracks, ThreadStart, ThreadAnnounce,
     ThreadLoopEnds, ThreadDeactivate, ThreadStopMoonlight, ThreadRelease, SessionStatus, IInv,
     Phases, DataOK
<1>2. CASE WebRtc
  <2>1. ASSUME NEW s \in Sids, NEW k \in Kinds, CallbackCheck(s, k) PROVE ~TellsIdle'
    BY <2>1 DEF CallbackCheck
  <2>2. ASSUME NEW s \in Sids, CallbackEffect(s) PROVE ~TellsIdle'
    <3>1. sent' \in {<<>>, <<Offer(s)>>, <<SessionStatus("error")>>}
      BY <2>2 DEF CallbackEffect
    <3> QED
      BY <3>1 DEF SessionStatus
  <2> QED
    BY <1>2, <2>1, <2>2 DEF WebRtc
<1>3. CASE Host \/ SocketDrops \/ HandleClosed
  BY <1>3 DEF Host, MoonlightTerminates, HostAppQuits, SocketDrops, HandleClosed
<1>4. CASE Client
  <2>1. ASSUME NEW s \in Sids, NEW outcome \in AnswerOutcomes, HandleAnswer(s, outcome)
        PROVE  ~TellsIdle'
    <3>1. sent' \in {<<>>, <<SessionStatus(IF codec = "av1" THEN "codec-unsupported"
                                                           ELSE "error")>>,
                      <<Error("internal-error")>>}
      BY <2>1 DEF HandleAnswer
    <3> QED
      BY <3>1 DEF SessionStatus
  <2> QED
    BY <1>4, <2>1 DEF Client, HandleStart, HandleStop, HandleGetApps, HandleHostOperation, Receive
<1> QED
  BY <1>1, <1>2, <1>3, <1>4

\* When the TV is told "idle" without a session, everything the last session owned is
\* released, whichever thread reports it and whoever asked for the stop.
THEOREM IdleIsReleased == Spec => []IdleMeansReleased
<1>1. Init => IdleMeansReleased
  BY DEF Init, IdleMeansReleased
<1>2. IInv /\ IdleMeansReleased /\ [Next]_vars => IdleMeansReleased'
  <2> SUFFICES ASSUME IInv, IdleMeansReleased, [Next]_vars
               PROVE  IdleMeansReleased'
    OBVIOUS
  <2>1. CASE SocketThread
    BY <2>1, SocketThreadTellsIdle DEF IdleMeansReleased, TellsIdle
  <2>2. CASE StreamingThread \/ WebRtc \/ Host \/ SocketDrops \/ HandleClosed \/ Client
    BY <2>2, OthersTellNoIdle DEF IdleMeansReleased, TellsIdle
  <2>3. CASE Closed \/ UNCHANGED vars
    BY <2>3 DEF Closed, IdleMeansReleased, vars, ident, stream
  <2> QED
    BY <2>1, <2>2, <2>3 DEF Next, Internal
<1> QED
  BY <1>1, <1>2, Invariant, PTL DEF Spec
-----------------------------------------------------------------------------
\* A request that starts a session names its application, also when it was a switch.
Targeted == sock.type \in {"start-session", "switch-session"} => sock.app \in Apps

\* It does so in whatever step it is: only a switch goes on to a start.
LEMMA TargetKept ==
    ASSUME IInv, Targeted, [Next]_vars
    PROVE  Targeted'
<1> USE DEF Targeted, sessionVars, Goto, Done, NoRequest
<1>1. CASE UNCHANGED sock
  BY <1>1
<1>2. CASE SocketThread
  <2>1. CASE HostStart
    <3>1. sock.type = "switch-session"
      BY <2>1 DEF HostStart, IInv, Where, HostPcs, HostTypes
    <3> QED
      BY <2>1, <3>1 DEF HostStart, FinishAndStart, IInv, DataOK
  <2>2. CASE HostIdleStarts
    BY <2>2 DEF HostIdleStarts, FinishAndStart, Switching, IInv, DataOK
  <2>3. CASE HostQueryNoCancel \/ HostQueryCancel
    <3>1. PICK plan : sock' = [sock EXCEPT !.pc = "stopRead", !.plan = plan]
      BY <2>3, Zenon DEF HostQueryNoCancel, HostQueryCancel
    <3>2. sock'.type = sock.type /\ sock'.app = sock.app
      BY <3>1 DEF IInv, DataOK
    <3> QED
      BY <3>2
  <2>4. CASE \/ CheckStart \/ LoadApplications \/ AssignSession \/ CreatePeerConnection
             \/ StopRead \/ StopRequest \/ StopJoin \/ StopClear
    BY <2>4 DEF CheckStart, LoadApplications, AssignSession, CreatePeerConnection, StopRead,
       StopRequest, StopJoin, StopClear, AfterStop, IInv, DataOK
  <2>5. CASE \/ HostQueryFails \/ HostQueryNothingToStop \/ HostCancel \/ HostIdleStopped
             \/ HostAwaitTimesOut \/ HostFailed
    BY <2>5 DEF HostQueryFails, HostQueryNothingToStop, HostCancel, HostIdleStopped,
       HostAwaitTimesOut, HostFailed, Finish, IInv, DataOK
  <2> QED
    BY <1>2, <2>1, <2>2, <2>3, <2>4, <2>5 DEF SocketThread
<1>3. CASE HandleClosed
  BY <1>3 DEF HandleClosed
<1>4. CASE Client
  <2>1. ASSUME NEW s \in Sids, NEW outcome \in AnswerOutcomes, HandleAnswer(s, outcome)
        PROVE  UNCHANGED sock
    BY <2>1 DEF HandleAnswer
  <2> QED
    BY <1>4, <2>1 DEF Client, HandleStart, HandleStop, HandleGetApps, HandleHostOperation, Receive
<1>5. StreamingThread \/ WebRtc \/ Host \/ SocketDrops \/ Closed => UNCHANGED sock
  BY DEF StreamingThread, ThreadEnter, ThreadTracks, ThreadStart, ThreadAnnounce, ThreadLoopEnds,
     ThreadDeactivate, ThreadStopMoonlight, ThreadRelease, ThreadUnchanged, WebRtc,
     CallbackCheck, CallbackEffect, Host, MoonlightTerminates, HostAppQuits, SocketDrops,
     Closed, vars
<1> QED
  BY <1>1, <1>2, <1>3, <1>4, <1>5 DEF Next, Internal, vars

\* Only seven kinds of step are steps of the lease: the session is taken, Moonlight
\* connects or fails to, it is stopped, the session is cleared, the host's application
\* quits, or nothing the client sees.
LEMMA LeaseInitially == Init => Lease!Init
BY DEF Init, Lease!Init

\* A step that touches none of this is a stutter.
LEMMA LeaseUnchanged ==
    ASSUME UNCHANGED <<sessionId, nextSessionId, app, hostApp>>,
           moonlight' = "connected" <=> moonlight = "connected"
    PROVE  UNCHANGED Lease!vars
BY DEF Lease!vars

\* And one in which only the host's application may have quit.
LEMMA LeaseQuit ==
    ASSUME UNCHANGED <<sessionId, nextSessionId, app, moonlight>>, hostApp' \in {hostApp, NoApp}
    PROVE  [Lease!Next]_(Lease!vars)
BY DEF Lease!Quit, Lease!Next, Lease!vars

\* Every step of the Gateway is a step of the lease or a stutter.
LEMMA LeaseStep == IInv /\ Targeted /\ [Next]_vars => [Lease!Next]_(Lease!vars)
<1> SUFFICES ASSUME IInv, Targeted, [Next]_vars PROVE [Lease!Next]_(Lease!vars)
  OBVIOUS
<1> USE ConstantsAssumption DEF IInv, DataOK, sessionVars, ident, stream, ThreadUnchanged
<1>1. CASE AssignSession
  <2>1. sessionId = 0 /\ moonlight # "connected" /\ UNCHANGED <<moonlight, hostApp>>
    BY <1>1 DEF AssignSession, Where, Phases
  <2>2. sessionId' = nextSessionId /\ nextSessionId' = nextSessionId + 1
    BY <1>1 DEF AssignSession
  <2>3. app' \in Apps
    BY <1>1 DEF AssignSession, Where, Targeted
  <2> QED
    BY <2>1, <2>2, <2>3 DEF Lease!Grant, Lease!Next
<1>2. CASE StopClear
  <2>1. sessionId # 0 /\ sessionId' = 0 /\ app' = NoApp /\ UNCHANGED <<nextSessionId, hostApp>>
    BY <1>2 DEF StopClear, Where
  <2>2. moonlight = "none" /\ moonlight' = "none"
    BY <1>2 DEF StopClear, Where, Phases
  <2> QED
    BY <2>1, <2>2 DEF Lease!Release, Lease!Next
<1>3. CASE ThreadStart
  <2>1. /\ sessionId # 0 /\ moonlight = "idle"
        /\ UNCHANGED <<sessionId, nextSessionId, app>>
    BY <1>3 DEF ThreadStart, Phases
  <2>2. CASE moonlight' = "connected"
    <3>1. hostApp \in {NoApp, app} /\ hostApp' = app
      BY <1>3, <2>2 DEF ThreadStart
    <3> QED
      BY <2>1, <2>2, <3>1 DEF Lease!Begin, Lease!Next
  <2>3. CASE moonlight' # "connected"
    <3>1. hostApp' = hostApp \/ (hostApp = NoApp /\ hostApp' = app)
      BY <1>3, <2>3 DEF ThreadStart
    <3>2. CASE hostApp' = hostApp
      BY <2>1, <2>3, <3>2, LeaseUnchanged
    <3>3. CASE hostApp = NoApp /\ hostApp' = app
      BY <2>1, <2>3, <3>3 DEF Lease!LaunchOnly, Lease!Next
    <3> QED
      BY <3>1, <3>2, <3>3
  <2> QED
    BY <2>2, <2>3
<1>4. CASE ThreadStopMoonlight
  <2>1. UNCHANGED <<sessionId, nextSessionId, app, hostApp>> /\ moonlight' = "stopped"
    BY <1>4 DEF ThreadStopMoonlight
  <2>2. CASE moonlight = "connected"
    BY <2>1, <2>2 DEF Lease!End, Lease!Next
  <2>3. CASE moonlight # "connected"
    BY <2>1, <2>3, LeaseUnchanged
  <2> QED
    BY <2>2, <2>3
<1>5. CASE ThreadTracks \/ ThreadRelease
  <2>1. UNCHANGED <<sessionId, nextSessionId, app, hostApp>>
    BY <1>5 DEF ThreadTracks, ThreadRelease
  <2>2. moonlight # "connected" /\ moonlight' # "connected"
    BY <1>5 DEF ThreadTracks, ThreadRelease, Phases
  <2> QED
    BY <2>1, <2>2, LeaseUnchanged
<1> DEFINE Others == UNCHANGED <<sessionId, nextSessionId, app, moonlight>>
                     /\ hostApp' \in {hostApp, NoApp}
<1>6. CASE Others
  BY <1>6, LeaseQuit
<1>7. \/ AssignSession \/ StopClear \/ ThreadStart \/ ThreadStopMoonlight
      \/ ThreadTracks \/ ThreadRelease \/ Others
  <2> USE DEF vars
  <2>1. CASE SocketThread
    BY <2>1 DEF SocketThread, CheckStart, LoadApplications, CreatePeerConnection, StopRead,
       StopRequest, StopJoin, HostQueryFails, HostQueryNoCancel, HostQueryNothingToStop,
       HostQueryCancel, HostStart, HostCancel, HostIdleStarts, HostIdleStopped,
       HostAwaitTimesOut, HostFailed
  <2>2. CASE StreamingThread
    BY <2>2 DEF StreamingThread, ThreadEnter, ThreadAnnounce, ThreadLoopEnds, ThreadDeactivate
  <2>3. CASE WebRtc \/ Host \/ SocketDrops \/ HandleClosed
    BY <2>3 DEF WebRtc, CallbackCheck, CallbackEffect, Host, MoonlightTerminates, HostAppQuits,
       SocketDrops, HandleClosed
  <2>4. CASE Client
    BY <2>4 DEF Client, HandleStart, HandleStop, HandleGetApps, HandleHostOperation, HandleAnswer
  <2>5. CASE Closed \/ UNCHANGED vars
    BY <2>5 DEF Closed
  <2> QED
    BY <2>1, <2>2, <2>3, <2>4, <2>5 DEF Next, Internal
<1> QED
  BY <1>1, <1>2, <1>3, <1>4, <1>5, <1>6, <1>7

\* The handlers, the streaming thread and the callbacks together give a client
\* exactly a SessionLease: one session at a time, ids that grow by one, a
\* Moonlight stream only inside its session, and no application replaced by it.
THEOREM ImplementsLease == Spec => LeaseSpec
<1>1. Init => Lease!Init
  BY LeaseInitially
<1>2. Init => Targeted
  BY DEF Init, NoRequest, Targeted
<1>3. IInv /\ Targeted /\ [Next]_vars => Targeted'
  BY TargetKept
<1>4. IInv /\ Targeted /\ [Next]_vars => [Lease!Next]_(Lease!vars)
  BY LeaseStep
<1> QED
  BY <1>1, <1>2, <1>3, <1>4, Invariant, PTL DEF Spec, LeaseSpec, Lease!Spec
=============================================================================
