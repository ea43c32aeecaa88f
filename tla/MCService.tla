------------------------------ MODULE MCService ------------------------------
(***************************************************************************)
(* The Windows service for TLC: its process and its data directories share *)
(* no state, so focus names the one a behaviour is about and the other     *)
(* keeps its first state.                                                  *)
(***************************************************************************)
EXTENDS GatewayProcess, IdentityStore

CONSTANTS h1, h2

VARIABLE focus

allVars == <<focus, processVars, storeVars>>

\* The Gateway is configured for, and paired with, h1.
MCInit ==
    /\ focus \in {"process", "store"}
    /\ Init /\ file = {h1} /\ configured = h1 /\ pairingHost = h1
    /\ StoreInit
    /\ focus = "process" => source = NoDir /\ dest = NoDir

\* What a failed or disturbed rewrite of paired-hosts.json leaves behind.
Remains ==
    disturbed \/ tmp = Unreadable \/ (tmp # NoFile /\ \A t \in Threads : ~Writing(t))

\* Bounds: the user quits the tray after the last operation was begun, and while
\* paired-hosts.json fares well.
MCNext ==
    \/ /\ focus = "process" /\ Next /\ UNCHANGED <<focus, storeVars>>
       /\ tray' # tray => operations = MaxOperations
       /\ tray' # "up" => ~Remains'
    \/ focus = "store" /\ StoreNext /\ UNCHANGED <<focus, processVars>>

\* Weaker than the fairness of GatewayProcess and of IdentityStore, and cheaper to check:
\* all the steps that can only happen so often share one formula, the management thread,
\* which may connect for ever, has its own.
Bounded ==
    \/ /\ focus = "process" /\ (TraySteps \/ Pair \/ ServeStatus \/ Main)
       /\ UNCHANGED <<focus, storeVars>>
    \/ focus = "store" /\ Migration /\ UNCHANGED <<focus, processVars>>

MCSpec == MCInit /\ [][MCNext]_allVars /\ WF_allVars(Bounded) /\ WF_processVars(Connect \/ Command)
=============================================================================
