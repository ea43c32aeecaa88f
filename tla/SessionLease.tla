---------------------------- MODULE SessionLease ----------------------------
(***************************************************************************)
(* What the Gateway promises one client about its sessions: at most one at *)
(* a time, each with an id larger than every earlier one and for one       *)
(* application, and a Moonlight stream that begins and ends while its      *)
(* session is held.  A session may be given back without ever having       *)
(* streamed.  The host runs one application; a session launches its own    *)
(* where none runs, and never replaces another.                            *)
(***************************************************************************)
EXTENDS Naturals

CONSTANTS Apps, NoApp

VARIABLES
    current,    \* id of the session held, 0 if none
    last,       \* the largest id granted so far
    app,        \* the application the session is for, NoApp if none
    streaming,  \* a Moonlight stream is up
    running     \* the application the host runs

vars == <<current, last, app, streaming, running>>

Init ==
    /\ current = 0 /\ last = 0 /\ app = NoApp /\ streaming = FALSE
    /\ running \in Apps \cup {NoApp}

Grant ==
    /\ current = 0 /\ ~streaming
    /\ last' = last + 1 /\ current' = last'
    /\ app' \in Apps
    /\ UNCHANGED <<streaming, running>>

\* The host launches the session's application, or resumes it.
Begin ==
    /\ current # 0 /\ ~streaming /\ running \in {NoApp, app}
    /\ streaming' = TRUE /\ running' = app
    /\ UNCHANGED <<current, last, app>>

\* The application was launched, and the stream failed.
LaunchOnly ==
    /\ current # 0 /\ ~streaming /\ running = NoApp
    /\ running' = app
    /\ UNCHANGED <<current, last, app, streaming>>

End ==
    /\ streaming
    /\ streaming' = FALSE
    /\ UNCHANGED <<current, last, app, running>>

Release ==
    /\ current # 0 /\ ~streaming
    /\ current' = 0 /\ app' = NoApp
    /\ UNCHANGED <<last, streaming, running>>

\* The application quits, cancelled or by itself, perhaps under the stream.
Quit ==
    /\ running' = NoApp
    /\ UNCHANGED <<current, last, app, streaming>>

Next == Grant \/ Begin \/ LaunchOnly \/ End \/ Release \/ Quit

Spec == Init /\ [][Next]_vars
=============================================================================
