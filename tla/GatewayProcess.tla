--------------------------- MODULE GatewayProcess ---------------------------
(***************************************************************************)
(* The Gateway as a Windows service: serviceMain and the control handler,  *)
(* the runtime that starts and stops the status pipe and the management    *)
(* client, the management commands, and the process that may die at any    *)
(* step and be started again.                                              *)
(***************************************************************************)
EXTENDS ManagementIpc, Pairing

CONSTANTS
    MaxStarts      \* bound: starts of the service

ASSUME StartsAssumption == MaxStarts \in Nat

VARIABLES
    scm,           \* what the service reported: stopped, start-pending, running, stop-pending
    mainPc,        \* the service's main thread
    control,       \* the control handler between its two statements: "idle" or "reported"
    shutdown,      \* GatewayShutdownSignal::requested_
    statusThread,  \* ServiceIpcServer's thread: off or listening
    statusStop,    \* ServiceIpcServer::stopRequested_
    configured,    \* sunshine-host.txt and moonlightOptions_.host
    step,          \* where the handler of a management command is
    starts         \* starts so far

mainVars    == <<scm, mainPc, control, shutdown, starts>>
statusVars  == <<statusThread, statusStop>>
serviceVars == <<mainVars, statusVars, configured, step>>
processVars == <<ipcVars, hostsVars, pairingVars, serviceVars>>

Init ==
    /\ IpcInit /\ HostsInit /\ PairingInit
    /\ scm = "stopped" /\ mainPc = "off" /\ control = "idle" /\ shutdown = FALSE
    /\ statusThread = "off" /\ statusStop = FALSE
    /\ configured \in Hosts /\ step = "none" /\ starts = 0
-----------------------------------------------------------------------------
(***************************************************************************)
(* The management commands, on the client thread                           *)
(***************************************************************************)
Handling(command) == client = "handling" /\ handled = command

\* One answer ends the handler.
Answer ==
    /\ Reply /\ step' = "none"
    /\ UNCHANGED <<trayVars, clientStop, request, mainVars, statusVars>>

SetHost ==
    /\ Handling("set-host")
    /\ \/ configured' \in Hosts /\ Answer
       \/ UNCHANGED configured /\ Answer
    /\ UNCHANGED <<hostsVars, pairingVars>>

\* "test" asks Sunshine and "pair-status" looks at the last result: both only read.
Inquire ==
    /\ \E query \in {"test", "pair-status"} : Handling(query)
    /\ Answer
    /\ UNCHANGED <<configured, hostsVars, pairingVars>>

\* startPairing: a pairing under way refuses; the thread of the last one is joined.
BeginPairing ==
    /\ Handling("pair") /\ step = "none"
    /\ IF pairingInProgress
       THEN Answer /\ UNCHANGED threadObject
       ELSE JoinFinished /\ step' = "detect"
            /\ UNCHANGED <<ipcVars, mainVars, statusVars>>
    /\ UNCHANGED <<configured, hostsVars, pairingPc, pairingHost, pinEntered,
                   pairingInProgress, pairingResult, sunshine, aborted, earned>>

\* Sunshine is not found, is paired already (or says so without local trust), or the
\* thread starts.
StartPairing ==
    /\ Handling("pair") /\ step = "detect"
    /\ Answer
    /\ \/ UNCHANGED pairingVars
       \/ FALSE \in DetectedPaired(configured) /\ (StartThread(configured) \/ StartFails)
    /\ UNCHANGED <<configured, hostsVars>>

\* unpairConfiguredHost looks for an active session and asks Sunshine next; either may
\* end it.
BeginUnpairing ==
    /\ Handling("unpair") /\ step \in {"none", "detect"}
    /\ \/ Answer
       \/ step = "none" /\ step' = "detect" /\ UNCHANGED <<ipcVars, mainVars, statusVars>>
       \/ step = "detect" /\ configured \in ReadHosts /\ sunshine[configured] = "paired"
          /\ step' = "erase" /\ UNCHANGED <<ipcVars, mainVars, statusVars>>
    /\ UNCHANGED <<configured, hostsVars, pairingVars>>

\* removePairedHost reads the file again, if it can: the pairing thread may have rewritten
\* it.
Erase ==
    /\ Handling("unpair") /\ step = "erase"
    /\ \/ configured \in ReadHosts /\ Remove("management", configured) /\ step' = "write"
          /\ UNCHANGED <<ipcVars, mainVars, statusVars>>
       \/ Answer /\ UNCHANGED hostsVars
    /\ UNCHANGED <<configured, pairingVars>>

FinishErase ==
    /\ Handling("unpair") /\ step = "write"
    /\ \/ WriteStep("management") /\ UNCHANGED <<step, ipcVars, mainVars, statusVars>>
       \/ Rename("management") /\ Answer
       \/ RewriteFails("management") /\ Answer
    /\ UNCHANGED <<configured, pairingVars>>

Command ==
    \/ SetHost \/ Inquire \/ BeginPairing \/ StartPairing
    \/ BeginUnpairing \/ Erase \/ FinishErase
-----------------------------------------------------------------------------
(***************************************************************************)
(* The status pipe                                                         *)
(***************************************************************************)
\* The thread answers one connection after another, which changes no state, and looks at
\* the flag in between; every wait of its ends within 200 ms once the flag is set.
ServeStatus ==
    /\ statusThread = "listening" /\ statusStop /\ statusThread' = "off"
    /\ UNCHANGED <<statusStop, mainVars, configured, step, ipcVars, hostsVars, pairingVars>>
-----------------------------------------------------------------------------
(***************************************************************************)
(* The service's main thread and the control handler                       *)
(***************************************************************************)
Goto(pc) == mainPc' = pc

StartService ==
    /\ scm = "stopped" /\ mainPc = "off"
    /\ starts < MaxStarts /\ starts' = starts + 1
    /\ scm' = "start-pending" /\ Goto("load")
    /\ shutdown' = FALSE /\ statusStop' = FALSE
    /\ UNCHANGED <<control, statusThread, configured, step, ipcVars, hostsVars, pairingVars>>

\* The constructor of SignalingServer throws on an identity that is incomplete.
Load ==
    /\ mainPc = "load"
    /\ Goto("start") \/ Goto("report")
    /\ UNCHANGED <<scm, control, shutdown, starts, statusVars, configured, step, ipcVars,
                   hostsVars, pairingVars>>

StartThreads ==
    /\ mainPc = "start" /\ Goto("ready")
    /\ statusThread' = "listening" /\ StartClient
    /\ UNCHANGED <<scm, control, shutdown, starts, statusStop, configured, step, trayVars,
                   handled, pipeVars, hostsVars, pairingVars>>

Ready ==
    /\ mainPc = "ready" /\ Goto("wait") /\ scm' = "running"
    /\ UNCHANGED <<control, shutdown, starts, statusVars, configured, step, ipcVars,
                   hostsVars, pairingVars>>

\* Controls are accepted while running: the handler reports, and then signals.
ControlReports ==
    /\ scm = "running" /\ control = "idle"
    /\ scm' = "stop-pending" /\ control' = "reported"
    /\ UNCHANGED <<mainPc, shutdown, starts, statusVars, configured, step, ipcVars,
                   hostsVars, pairingVars>>

ControlSignals ==
    /\ control = "reported" /\ control' = "idle" /\ shutdown' = TRUE
    /\ UNCHANGED <<scm, mainPc, starts, statusVars, configured, step, ipcVars,
                   hostsVars, pairingVars>>

StopStatus ==
    /\ mainPc = "wait" /\ shutdown
    /\ Goto("join-status") /\ statusStop' = TRUE
    /\ UNCHANGED <<scm, control, shutdown, starts, statusThread, configured, step, ipcVars,
                   hostsVars, pairingVars>>

StopManagement ==
    /\ mainPc = "join-status" /\ statusThread = "off"
    /\ Goto("join-management") /\ StopClient
    /\ UNCHANGED <<scm, control, shutdown, starts, statusVars, configured, step, trayVars,
                   handled, request, response, hostsVars, pairingVars>>

JoinManagement ==
    /\ mainPc = "join-management" /\ client = "off" /\ Goto("destroy")
    /\ UNCHANGED <<scm, control, shutdown, starts, statusVars, configured, step, ipcVars,
                   hostsVars, pairingVars>>

\* ~SignalingServer waits for a pairing under way.
Destroy ==
    /\ mainPc = "destroy" /\ pairingPc = "off"
    /\ Goto("report") /\ threadObject' = "none"
    /\ UNCHANGED <<scm, control, shutdown, starts, statusVars, configured, step, ipcVars,
                   hostsVars, pairingPc, pairingHost, pinEntered, pairingInProgress,
                   pairingResult, sunshine, aborted, earned>>

Report ==
    /\ mainPc = "report" /\ Goto("off") /\ scm' = "stopped"
    /\ pairingResult' = "not-started"
    /\ UNCHANGED <<control, shutdown, starts, statusVars, configured, step, ipcVars,
                   hostsVars, pairingPc, pairingHost, pinEntered, threadObject,
                   pairingInProgress, sunshine, aborted, earned>>

Main ==
    \/ Load \/ StartThreads \/ Ready \/ ControlSignals
    \/ StopStatus \/ StopManagement \/ JoinManagement \/ Destroy \/ Report

\* The process dies; the files and Sunshine stay as they are.
Crash ==
    /\ mainPc # "off" /\ Goto("off") /\ scm' = "stopped"
    /\ control' = "idle" /\ shutdown' = FALSE
    /\ statusThread' = "off" /\ statusStop' = FALSE /\ step' = "none"
    /\ ClientDies /\ HostsCrash /\ PairingCrash
    /\ UNCHANGED <<starts, configured, trayVars, request, response>>
-----------------------------------------------------------------------------
InProcess == UNCHANGED serviceVars
TraySteps == (TrayServer \/ Answered \/ TimesOut) /\ UNCHANGED <<hostsVars, pairingVars>> /\ InProcess
User      == (TrayStops \/ \E c \in Commands : Ask(c)) /\ UNCHANGED <<hostsVars, pairingVars>> /\ InProcess
Connect   == ClientStep /\ UNCHANGED <<hostsVars, pairingVars>> /\ InProcess
Pair      == PairingThread /\ UNCHANGED ipcVars /\ InProcess

\* It may happen at any time, and happens here just before somebody asks Sunshine: nobody
\* can tell the difference.
Sunshine ==
    /\ pairingPc = "verify" \/ step = "detect"
    /\ \E h \in Hosts : SunshineForgets(h)
    /\ UNCHANGED ipcVars /\ InProcess

Next ==
    \/ TraySteps \/ User \/ Connect \/ Command \/ Pair \/ Sunshine
    \/ ServeStatus \/ Main \/ StartService \/ ControlReports \/ Crash

\* Every thread runs on; the user, Sunshine's user, the service manager and crashes are free.
Fairness ==
    /\ WF_processVars(TraySteps) /\ WF_processVars(Connect) /\ WF_processVars(Command)
    /\ WF_processVars(Pair) /\ WF_processVars(ServeStatus) /\ WF_processVars(Main)

Spec == Init /\ [][Next]_processVars /\ Fairness
-----------------------------------------------------------------------------
\* The read began after stop had looked for one to cancel (ManagementIpcClient.cpp:78):
\* it lasts as long as the tray asks nothing and stays.
ReadMissed == clientStop /\ client = "reading"

\* The tray's thread fell asleep with nothing to send, or began to listen, after stop had
\* looked for something to cancel and had woken whoever slept (ManagementIpcServer.cpp:111).
WakeMissed ==
    /\ tray = "stopping"
    /\ \/ server = "connecting"
       \/ server = "waiting" /\ pending = None

\* A service that accepted a stop reports that it stopped, through a pairing and a
\* command under way, and a tray that is quit ends, in the middle of a command or not:
\* neither is on its way out for ever, unless its stop came just before the other thread
\* blocked.
StopCompletes ==
    /\ []<>(scm # "stop-pending" \/ ReadMissed)
    /\ []<>(tray # "stopping" \/ WakeMissed)

\* Every thread of the service, the streams of a session aside (they are GatewaySession's),
\* has an owner that outlives it: pairingThread_ is never overwritten or left running, and
\* when the service manager is told that the service stopped, no thread runs, no command
\* is half done and no file half written.
ThreadsAccounted ==
    /\ PairingThreadOwned
    /\ scm = "stopped" =>
          /\ client = "off" /\ statusThread = "off" /\ pairingPc = "off"
          /\ step = "none" /\ \A t \in Threads : ~Writing(t)
=============================================================================
