---------------------------- MODULE ManagementIpc ----------------------------
(***************************************************************************)
(* The management pipe: the tray owns it and asks, the Gateway connects to *)
(* it and answers (tray/ManagementIpcServer.cpp, ConfigurationWindow.cpp,  *)
(* gateway/ManagementIpcClient.cpp).  One connection carries one command.  *)
(* The thread of the configuration window gives up after twelve seconds;   *)
(* the tray's pipe thread has no timeout and goes on reading.  How the     *)
(* Gateway handles a command is left to the module that extends this one.  *)
(* A result is abstracted to the command that it names.                    *)
(***************************************************************************)
EXTENDS Naturals

CONSTANTS
    None,          \* no command, no result
    Commands,      \* set-host, test, pair, pair-status, unpair
    MaxOperations  \* bound: operations of the user

ASSUME OperationsAssumption == MaxOperations \in Nat

\* What the tray makes up itself: timeout, unavailable, disconnected.
NoAnswer == "no answer"

VARIABLES
    tray,          \* up, stopping (stop has set its flag) or down
    asked,         \* the command that execute waits for, or None
    pending,       \* pending_
    result,        \* result_
    server,        \* tray's pipe thread: connecting, waiting, exchanging, off
    client,        \* Gateway's thread: off, seeking, opened, reading, handling
    pipe,          \* the client's handle: none, live, or broken
    request,       \* command in the pipe, or None
    response,      \* result in the pipe, or None
    handled,       \* command the Gateway handles, or None
    clientStop,    \* ManagementIpcClient::stopRequested_
    operations,    \* operations so far
    stray,         \* history: execute returned the answer to another command
    abandoned      \* history: execute gave up a command that had been sent

trayVars   == <<tray, asked, pending, result, server, operations, stray, abandoned>>
clientVars == <<client, handled, clientStop>>
pipeVars   == <<pipe, request, response>>
ipcVars    == <<trayVars, clientVars, pipeVars>>

IpcInit ==
    /\ tray = "up" /\ asked = None /\ pending = None /\ result = None
    /\ server = "connecting"
    /\ client = "off" /\ pipe = "none" /\ request = None /\ response = None
    /\ handled = None /\ clientStop = FALSE
    /\ operations = 0
    /\ stray = FALSE /\ abandoned = FALSE
-----------------------------------------------------------------------------
(***************************************************************************)
(* The tray                                                                *)
(***************************************************************************)
\* Mutant: the result of the last command is not reset.
AskKeepsResult(command) ==
    /\ tray = "up" /\ asked = None /\ pending = None
    /\ operations < MaxOperations /\ operations' = operations + 1
    /\ asked' = command /\ pending' = command
    /\ UNCHANGED <<tray, result, server, stray, abandoned, clientVars, pipeVars>>

\* startManagementOperation and the first part of execute; a pairing that was started
\* is followed with pair-status.
Ask(command) ==
    /\ tray = "up" /\ asked = None /\ pending = None
    /\ operations < MaxOperations /\ operations' = operations + 1
    /\ asked' = command /\ pending' = command /\ result' = None
    /\ UNCHANGED <<tray, server, stray, abandoned, clientVars, pipeVars>>

Return(given) == asked' = None /\ stray' = (stray \/ given \notin {asked, NoAnswer})

Answered ==
    /\ asked # None /\ result # None
    /\ Return(result)
    /\ UNCHANGED <<tray, pending, result, server, operations, abandoned, clientVars, pipeVars>>

\* Twelve seconds passed.
TimesOut ==
    /\ tray = "up" /\ asked # None /\ result = None
    /\ pending' = None
    /\ Return(NoAnswer)
    /\ abandoned' = (abandoned \/ server = "exchanging")
    /\ UNCHANGED <<tray, result, server, operations, clientVars, pipeVars>>

\* The pipe thread has a connection of the service, waits for a command and sends it.
ServerTakes ==
    /\ tray = "up" /\ server = "waiting" /\ pending # None
    /\ server' = "exchanging"
    /\ request' = IF pipe = "live" THEN pending ELSE None
    /\ UNCHANGED <<tray, asked, pending, result, operations, stray, abandoned,
                   clientVars, pipe, response>>

\* Whatever is pending by now has its answer, and the pipe is disconnected.
ServerFinishes(given) ==
    /\ server' = IF tray = "up" THEN "connecting" ELSE "off"
    /\ result' = given /\ pending' = None

ServerReads ==
    /\ server = "exchanging" /\ response # None
    /\ ServerFinishes(response)
    /\ response' = None /\ request' = None
    /\ pipe' = IF pipe = "live" THEN "broken" ELSE pipe
    /\ UNCHANGED <<tray, asked, operations, stray, abandoned, clientVars>>

\* The client closed its end, or had done so before the command was written.
ServerDisconnected ==
    /\ server = "exchanging" /\ response = None /\ pipe # "live"
    /\ ServerFinishes(NoAnswer)
    /\ request' = None
    /\ UNCHANGED <<tray, asked, operations, stray, abandoned, clientVars, pipe, response>>

\* The user quits the tray.  stop ends a wait of execute, and the I/O or the sleep of the
\* pipe thread; it holds no lock and so may come between the thread's look at the flag
\* and the call that blocks, which then nobody cancels or wakes.
TrayStops ==
    /\ tray = "up" /\ tray' = "stopping"
    /\ IF asked = None THEN UNCHANGED <<asked, stray>>
       ELSE Return(IF result = None THEN NoAnswer ELSE result)
    /\ \/ /\ server' = "off" /\ request' = None /\ response' = None
          /\ pipe' = IF pipe = "live" THEN "broken" ELSE pipe
       \/ UNCHANGED <<server, pipeVars>>
    /\ UNCHANGED <<pending, result, operations, abandoned, clientVars>>

\* A command came before the pipe thread could fall asleep: it sees the flag as well.
ServerStops ==
    /\ tray = "stopping" /\ server = "waiting" /\ pending # None
    /\ server' = "off"
    /\ pipe' = IF pipe = "live" THEN "broken" ELSE pipe
    /\ UNCHANGED <<tray, asked, pending, result, operations, stray, abandoned,
                   clientVars, request, response>>

\* The process is gone, and with it what it held.
TrayEnds ==
    /\ tray = "stopping" /\ server = "off" /\ tray' = "down"
    /\ pending' = None /\ result' = None /\ request' = None /\ response' = None
    /\ UNCHANGED <<asked, server, operations, stray, abandoned, clientVars, pipe>>
-----------------------------------------------------------------------------
(***************************************************************************)
(* The Gateway's client thread                                             *)
(***************************************************************************)
\* WaitNamedPipe and CreateFile find the pipe while the tray listens on it, and the
\* tray's end verifies the service.  It closes the pipe again when it cannot, and when the
\* tray is stopping.
Open ==
    /\ client = "seeking" /\ ~clientStop
    /\ server = "connecting" /\ pipe = "none"
    /\ client' = "opened"
    /\ \/ tray = "up" /\ pipe' = "live" /\ server' = "waiting"
       \/ pipe' = "broken" /\ server' = IF tray = "up" THEN "connecting" ELSE "off"
    /\ UNCHANGED <<tray, asked, pending, result, operations, stray, abandoned,
                   handled, clientStop, request, response>>

\* verifyTrayServer fails: the handle is closed and the thread backs off.
Rejects ==
    /\ client = "opened"
    /\ client' = "seeking" /\ pipe' = "none"
    /\ UNCHANGED <<trayVars, handled, clientStop, request, response>>

\* activePipe_ is set and the read begins; in "opened" there is nothing yet that stop
\* could cancel.
BeginRead ==
    /\ client = "opened" /\ client' = "reading"
    /\ UNCHANGED <<trayVars, handled, clientStop, pipeVars>>

ReadCommand ==
    /\ client = "reading" /\ request # None /\ pipe = "live"
    /\ client' = "handling" /\ handled' = request /\ request' = None
    /\ UNCHANGED <<trayVars, clientStop, pipe, response>>

\* The read fails and the loop closes the handle.
ReadFails ==
    /\ client = "reading" /\ pipe = "broken"
    /\ client' = "seeking" /\ pipe' = "none"
    /\ UNCHANGED <<trayVars, handled, clientStop, request, response>>

\* The result of the handler is written and the handle closed; what was written before
\* the close can still be read.
Reply ==
    /\ client' = "seeking" /\ handled' = None /\ pipe' = "none"
    /\ response' = IF pipe = "live" THEN handled ELSE None

\* The loop sees the flag.
ClientEnds ==
    /\ client = "seeking" /\ clientStop
    /\ client' = "off"
    /\ UNCHANGED <<trayVars, handled, clientStop, pipeVars>>

\* Mutant: stop cancels the pending read and does not tell the thread to end.
StopClientForgets ==
    /\ clientStop' = FALSE
    /\ IF client = "reading"
       THEN client' = "seeking" /\ pipe' = "none"
       ELSE UNCHANGED <<client, pipe>>

\* stop: the flag, and the cancellation of a read that is pending right then.
StopClient ==
    /\ clientStop' = TRUE
    /\ IF client = "reading"
       THEN client' = "seeking" /\ pipe' = "none"
       ELSE UNCHANGED <<client, pipe>>

StartClient == client' = "seeking" /\ clientStop' = FALSE

\* The Gateway's process ends.
ClientDies ==
    /\ client' = "off" /\ pipe' = "none" /\ handled' = None /\ clientStop' = FALSE

TrayServer == ServerTakes \/ ServerReads \/ ServerDisconnected \/ ServerStops \/ TrayEnds
ClientStep == Open \/ Rejects \/ BeginRead \/ ReadCommand \/ ReadFails \/ ClientEnds
-----------------------------------------------------------------------------
\* Every response is of the requested command (docs/gateway-protocol.md:44-45).
AnswersMatch == ~stray

\* A caller of execute is given the answer to another command only after an execute
\* gave up a command that the service had been sent: answers never cross otherwise,
\* across reconnections, crashes of the service and timeouts of unsent commands.
StrayAfterTimeout == stray => abandoned
=============================================================================
