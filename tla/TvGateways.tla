----------------------------- MODULE TvGateways -----------------------------
(***************************************************************************)
(* The Gateways saved on the TV: tizen/gateway-store.js, its storage       *)
(* tizen/durable-storage.js, and the parts of tizen/app.js that connect to *)
(* a Gateway, validate one entered in the editor, and keep the list.       *)
(*                                                                         *)
(* A Gateway is its address: the port is fixed, and names and MAC          *)
(* addresses only make the same list be saved again.  The TV is assumed to *)
(* have tizen.preference.  Waking, sessions and the look of buttons (the   *)
(* editor's Connect button stays disabled after an attempt that ended any  *)
(* other way than in a failure or a cancel) are left out.                  *)
(***************************************************************************)
EXTENDS Naturals, FiniteSets, Sequences, SequencesExt

CONSTANTS
    Hosts,               \* the addresses the user may enter
    None,                \* no Gateway
    NoValue              \* null: the key is absent

ASSUME GatewaysAssumption ==
    /\ {"add", "closed"} \cap Hosts = {}
    /\ None \notin [host : Hosts, id : BOOLEAN] /\ NoValue \notin Seq(Hosts)

VARIABLES
    running,             \* the app runs
    gateways,            \* GatewayStore.gateways; while it does not, those at the kill
    active,              \* activeGateway: its host and whether it has an id, or None
    link,                \* its WebSocket: "off", "trying" (or waiting to) or "open"
    editor,              \* the host it edits, "add", or "closed"
    pending,             \* pendingGatewayValidation # null
    stored,              \* what the app reads from each backend
    flushed,             \* what of localStorage the platform has written out
    refused              \* the backends that have thrown at least once

storage  == <<stored, flushed, refused>>
listVars == <<running, gateways, active, link, editor, pending, storage>>

Backends == {"localStorage", "tizen.preference"}

ListInit ==
    /\ running = FALSE /\ gateways = <<>>
    /\ active = None /\ link = "off" /\ editor = "closed" /\ pending = FALSE
    /\ stored = [b \in Backends |-> NoValue] /\ flushed = NoValue /\ refused = {}
-----------------------------------------------------------------------------
(***************************************************************************)
(* DurableStorage and GatewayStore                                         *)
(***************************************************************************)
\* Mutant: the first backend that takes the value is enough.
SetItemFirst(value, threw) == \E first \in Backends :
    /\ stored' = [stored EXCEPT ![first] = value]
    /\ refused' = refused \cup threw
    /\ UNCHANGED flushed

\* Every backend is written; those outside taken throw, as others may have in reading.
SetItem(value, threw) == \E taken \in SUBSET Backends :
    /\ stored' = [b \in Backends |-> IF b \in taken THEN value ELSE stored[b]]
    /\ refused' = refused \cup threw \cup (Backends \ taken)
    /\ UNCHANGED flushed

Save(list) == gateways' = list /\ SetItem(list, {})
Keep == UNCHANGED <<gateways, storage>>

Saved(h) == Contains(gateways, h)

\* No address is in the list twice, so the first place of one is the only one.
findIndex(h) == CHOOSE i \in DOMAIN gateways : gateways[i] = h

Upsert(h) == Save(IF Saved(h) THEN gateways ELSE Append(gateways, h))

Replaceable(previous, h) == Saved(previous) /\ (h = previous \/ ~Saved(h))
Replace(previous, h) == Save([gateways EXCEPT ![findIndex(previous)] = h])

\* The entries of a stored list, each address where it comes first.
normalizeList(list) ==
    LET first    == {i \in DOMAIN list : \A j \in 1..i - 1 : list[j] # list[i]}
        place(i) == Cardinality({j \in first : j <= i})
    IN  [k \in 1..Cardinality(first) |-> list[CHOOSE i \in first : place(i) = k]]

\* getItem at the start of the app: localStorage if it has a value, or else the mirror,
\* which is then written back. The backends outside readable throw.
Launch ==
    /\ ~running /\ running' = TRUE
    /\ \E readable \in SUBSET Backends :
          LET read(b) == IF b \in readable THEN stored[b] ELSE NoValue
              recovered == read("localStorage") = NoValue /\ read("tizen.preference") # NoValue
              value == IF recovered THEN read("tizen.preference") ELSE read("localStorage")
          IN /\ gateways' = IF value = NoValue THEN <<>> ELSE normalizeList(value)
             /\ IF recovered
                THEN SetItem(value, Backends \ readable)
                ELSE refused' = refused \cup (Backends \ readable) /\ UNCHANGED <<stored, flushed>>
    /\ UNCHANGED <<active, link, editor, pending>>

\* The platform writes localStorage out when it likes, and ends the app without notice:
\* what it has not written is gone. tizen.preference is written at once.
Flush ==
    /\ flushed # stored["localStorage"] /\ flushed' = stored["localStorage"]
    /\ UNCHANGED <<running, gateways, active, link, editor, pending, stored, refused>>

Kill ==
    /\ running /\ running' = FALSE
    /\ stored' = [stored EXCEPT !["localStorage"] = flushed]
    /\ active' = None /\ link' = "off" /\ editor' = "closed" /\ pending' = FALSE
    /\ UNCHANGED <<gateways, flushed, refused>>
-----------------------------------------------------------------------------
(***************************************************************************)
(* The user                                                                *)
(***************************************************************************)
OpenEditor(target) ==
    /\ running /\ editor = "closed" /\ target \in {"add"} \cup {h \in Hosts : Saved(h)}
    /\ editor' = target
    /\ UNCHANGED <<running, active, link, pending>> /\ Keep

\* closeGatewayEditor: the validation is forgotten, its connection stays.
CancelEditor ==
    /\ editor # "closed" /\ editor' = "closed" /\ pending' = FALSE
    /\ UNCHANGED <<running, active, link>> /\ Keep

\* The candidate has no id until it is saved.
ConnectGatewayFromEditor(h) ==
    /\ editor # "closed" /\ ~pending /\ pending' = TRUE
    /\ active' = [host |-> h, id |-> FALSE] /\ link' = "trying"
    /\ UNCHANGED <<running, editor>> /\ Keep

\* A Gateway that is connected, with its applications loaded, only shows them.
ActivateGateway(h) ==
    /\ running /\ editor = "closed" /\ Saved(h)
    /\ active' = [host |-> h, id |-> TRUE]
    /\ link' \in {"trying"} \cup (IF active = active' THEN {link} \ {"off"} ELSE {})
    /\ UNCHANGED <<running, editor, pending>> /\ Keep

\* Mutant: the connection to the removed Gateway stays.
RemoveGatewayKeepsActive(h) ==
    /\ running /\ editor = "closed" /\ Saved(h)
    /\ Save(RemoveAt(gateways, findIndex(h)))
    /\ UNCHANGED <<running, active, link, editor, pending>>

RemoveGateway(h) ==
    /\ running /\ editor = "closed" /\ Saved(h)
    /\ IF active = [host |-> h, id |-> TRUE]
       THEN active' = None /\ link' = "off"
       ELSE UNCHANGED <<active, link>>
    /\ Save(RemoveAt(gateways, findIndex(h)))
    /\ UNCHANGED <<running, editor, pending>>
-----------------------------------------------------------------------------
(***************************************************************************)
(* The connection                                                          *)
(***************************************************************************)
Opened ==
    /\ link = "trying" /\ link' = "open"
    /\ UNCHANGED <<running, active, editor, pending>> /\ Keep

\* gatewayValidationFailed: the editor stays open, the Gateway it edits is active again.
ValidationFailed ==
    /\ pending' = FALSE /\ link' = "off"
    /\ active' = IF editor = "add" THEN None ELSE [host |-> editor, id |-> TRUE]
    /\ UNCHANGED <<running, editor>> /\ Keep

\* The socket closes, before or after it opened; without a validation the TV tries again.
Closed ==
    /\ link # "off"
    /\ \/ pending /\ ValidationFailed
       \/ /\ ~pending /\ link' = "trying"
          /\ UNCHANGED <<running, active, editor, pending>> /\ Keep

ValidationTimeout == pending /\ ValidationFailed

\* gateway-status without a validation: refreshStoredGateway.
RefreshStored ==
    /\ link = "open" /\ ~pending
    /\ Upsert(active.host) /\ active' = [active EXCEPT !.id = TRUE]
    /\ UNCHANGED <<running, link, editor, pending>>

\* gateway-status of the Gateway in the editor: completeGatewayValidation.
Accept ==
    /\ link = "open" /\ pending /\ pending' = FALSE
    /\ editor = "add" \/ Replaceable(editor, active.host)
    /\ IF editor = "add" THEN Upsert(active.host) ELSE Replace(editor, active.host)
    /\ active' = [active EXCEPT !.id = TRUE] /\ editor' = "closed"
    /\ UNCHANGED <<running, link>>

\* The address is another saved Gateway's: the editor says so and stays open.
Duplicate ==
    /\ link = "open" /\ pending /\ pending' = FALSE
    /\ editor # "add" /\ ~Replaceable(editor, active.host)
    /\ UNCHANGED <<running, active, link, editor>> /\ Keep

\* A probe brings the MAC address of a Gateway that is still saved.
LearnMacAddress(h) ==
    /\ running /\ Saved(h) /\ Upsert(h)
    /\ UNCHANGED <<running, active, link, editor, pending>>

ListNext ==
    \/ Launch \/ Flush \/ Kill
    \/ CancelEditor \/ Opened \/ Closed \/ ValidationTimeout
    \/ RefreshStored \/ Accept \/ Duplicate
    \/ \E h \in Hosts :
          \/ ConnectGatewayFromEditor(h) \/ ActivateGateway(h) \/ RemoveGateway(h)
          \/ LearnMacAddress(h)
    \/ \E target \in Hosts \cup {"add"} : OpenEditor(target)

ListSpec == ListInit /\ [][ListNext]_listVars
-----------------------------------------------------------------------------
\* What the variables hold; a socket that is not off belongs to the active Gateway.
ListTypeOK ==
    /\ running \in BOOLEAN /\ gateways \in Seq(Hosts)
    /\ active \in [host : Hosts, id : BOOLEAN] \cup {None}
    /\ link \in {"off", "trying", "open"} /\ (link # "off" => active # None)
    /\ editor \in Hosts \cup {"add", "closed"} /\ pending \in BOOLEAN
    /\ stored \in [Backends -> Seq(Hosts) \cup {NoValue}]
    /\ flushed \in Seq(Hosts) \cup {NoValue} /\ refused \subseteq Backends

\* A Gateway the TV knows by its id is in the list, once: as long as the TV is connected to it,
\* a removed Gateway would be saved again by its next status (app.js:496), an edited one
\* under its former address.
ActiveSavedOnce ==
    active # None /\ active.id =>
        Cardinality({i \in DOMAIN gateways : gateways[i] = active.host}) = 1

\* The list the user left comes back, unless tizen.preference refused it or localStorage
\* kept an older one: whatever else a kill takes, the mirror has (durable-storage.js:4-14).
OnlyOlderListsReturn ==
    [][~running /\ running' /\ stored["localStorage"] = NoValue
       /\ "tizen.preference" \notin refused' => gateways' = gateways]_listVars
-----------------------------------------------------------------------------
(***************************************************************************)
(* What comments and tests say and the code does not keep.                 *)
(***************************************************************************)
\* Mirrored where an app kill cannot lose it (tests/TizenDurableStorageTest.js:46-47).  An
\* older list that localStorage kept is preferred to the mirror.
KillKeepsGateways ==
    [][~running /\ running' /\ refused' = {} => gateways' = gateways]_listVars

\* A Gateway is added by a validation, which ends when it is cancelled or ten seconds have
\* passed (tests/TizenUiTest.js:162-164).  Cancelling leaves the connection, and its first
\* status saves the Gateway.
AddedByValidation ==
    [][running /\ running' /\ ~pending => ToSet(gateways') \subseteq ToSet(gateways)]_listVars
=============================================================================
