-------------------------------- MODULE MCTv --------------------------------
(***************************************************************************)
(* The TV for TLC: its session with the Gateway, and its saved Gateways.   *)
(* The two share no state, so focus names the one a behaviour is about and *)
(* the other keeps its first state.                                        *)
(***************************************************************************)
EXTENDS MCTvGateway, TvGateways

VARIABLE focus

allVars == <<focus, vars, listVars>>

MCInit ==
    /\ focus \in {"session", "list"}
    /\ Init /\ ListInit
    /\ focus = "list" => runningAppId = NoApp

MCNext ==
    \/ focus = "session" /\ Next /\ UNCHANGED <<focus, listVars>>
    \/ focus = "list" /\ ListNext /\ UNCHANGED <<focus, vars>>

\* The fairness of TvGateway, in the behaviours that are about it.
MCSpec ==
    /\ MCInit /\ [][MCNext]_allVars
    /\ WF_vars(focus = "session" /\ TvReceives)
    /\ WF_vars(focus = "session" /\ GatewayReceives)
    /\ WF_vars(focus = "session" /\ GatewayServes)
    /\ WF_vars(focus = "session" /\ GatewayStreams)
=============================================================================
