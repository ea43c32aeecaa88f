-------------------------- MODULE TvGatewayProofs --------------------------
(***************************************************************************)
(* Theorems about the TV and the Gateway with messages in flight both ways *)
(* (TvGateway), for every set of applications and codecs, any number of    *)
(* sessions, of user actions and of messages in the queues.                *)
(*                                                                         *)
(* What the TV knows of a session depends on what is still on its way to   *)
(* it.  The invariants therefore speak of the whole queue: which message   *)
(* will give the TV the id it lacks, and that nothing older comes after.   *)
(***************************************************************************)
EXTENDS TvGateway, SequenceTheorems, TLAPS

\* What is on its way.
MaybeApps    == Apps \cup {NoApp}
States       == {"starting", "starting-webrtc", "connecting-sunshine", "starting-moonlight",
                 "streaming", "stopping", "idle", "codec-unsupported", "error"}
LaunchStates == States \ {"idle", "codec-unsupported", "streaming"}
HostStates   == {"starting", "resuming", "switching", "stopping", "stopped", "failed"}
ErrorCodes   == {"session-active", "invalid-application", "sunshine-unavailable"}
MessageTypes == {"session-status", "host-session-status", "error", "offer", "gateway-status",
                 "apps"}
TvMessages   == [type : MessageTypes, sid : Nat,
                 state : States \cup HostStates \cup ErrorCodes \cup {"none"} \cup MaybeApps]
RequestTypes == {"start-session", "switch-session", "stop-session", "stop-host-session",
                 "get-apps", "answer"}
AnyCodec     == Codecs \cup {"av1", "hevc", "none"}

\* A request for a session names its application; one to stop the host's names none.
Starts   == {"start-session", "switch-session"}
Named(r) == /\ r.type \in Starts => r.app \in Apps
            /\ r.type = "stop-host-session" => r.app = NoApp
Requests == {r \in [type : RequestTypes, app : MaybeApps, codec : AnyCodec, sid : Nat,
                    accepted : BOOLEAN] : Named(r)}

Plausible(m, next) ==
    /\ m.sid < next
    /\ m.type \in {"gateway-status", "apps"} => m.state \in MaybeApps
    /\ m.type = "offer" => m.sid # 0
    /\ m.type = "session-status" /\ m.state = "streaming" => m.sid # 0

QueuesOK ==
    /\ toTv \in Seq(TvMessages) /\ \A i \in DOMAIN toTv : Plausible(toTv[i], nextSessionId)
    /\ toGateway \in Seq(Requests) /\ \A i \in DOMAIN toGateway : toGateway[i].sid < nextSessionId

\* Only a request for a session is served to its start.
ServingStates ==
    {s \in [pc : {"idle", "start", "stop", "query", "stopLocal", "cancel", "await"},
            type : RequestTypes \cup {"none"}, app : MaybeApps, codec : AnyCodec,
            next : {"none", "cancel", "starting", "resuming"}] :
        /\ Named(s)
        /\ s.pc = "start" \/ s.next \in {"starting", "resuming"} => s.type \in Starts
        /\ s.pc = "query" => s.type \in {"switch-session", "stop-host-session"}}

GatewayTyped ==
    /\ nextSessionId \in Nat \ {0} /\ sessionId \in Known
    /\ app \in MaybeApps /\ hostApp \in MaybeApps
    /\ stopRequested \in BOOLEAN /\ peerConnected \in BOOLEAN
    /\ offered \in BOOLEAN /\ answered \in BOOLEAN
    /\ stream \in {"none", "waiting", "starting", "streaming", "ending", "over"}
    /\ serving \in ServingStates

TvTyped ==
    /\ screen \in {"home", "launching", "streaming"}
    /\ currentSessionId \in Known /\ peerConnection \in Known /\ answering \in Known
    /\ cancelRequested \in BOOLEAN /\ cancelSent \in BOOLEAN /\ switching \in BOOLEAN
    /\ busy \in BOOLEAN /\ av1Supported \in BOOLEAN
    /\ runningAppId \in MaybeApps /\ selectedApp \in MaybeApps

\* A session's stages follow each other, and the answer its offer.
Stages ==
    /\ serving.pc \in {"start", "cancel", "await"} => sessionId = 0
    /\ serving.pc = "stopLocal" => serving.next # "none"
    /\ sessionId = 0 => stream = "none" /\ app = NoApp
    /\ peerConnected \/ stream \in {"starting", "streaming"} => answered
    /\ answered => offered

\* Nobody answers a session that has made no offer.
Answers ==
    sessionId # 0 /\ ~offered =>
        /\ answering # sessionId
        /\ \A i \in DOMAIN toTv : toTv[i].type = "offer" => toTv[i].sid # sessionId
        /\ \A i \in DOMAIN toGateway : toGateway[i].type = "answer" => toGateway[i].sid # sessionId

\* A message after which the TV has an id and shows no stream, and one after which it may
\* have none, or lose it: updateStatistics gives up a black AV1 stream at any time.
Brings(m) == /\ m.type = "session-status" /\ m.sid # 0
             /\ m.state \notin {"idle", "codec-unsupported", "streaming"}
Takes0(m) == m.type = "session-status" /\ m.state \in {"idle", "codec-unsupported", "streaming"}

Holds(id, state) == id # 0 /\ state # "streaming"

\* The TV holds an id once it has handled the first k messages of q.
IdAfter(q, id, state, k) ==
    \/ \E j \in 1..k : Brings(q[j]) /\ \A l \in j + 1..k : ~Takes0(q[l])
    \/ Holds(id, state) /\ \A l \in 1..k : ~Takes0(q[l])

OffersFindId ==
    /\ \A i \in DOMAIN toTv :
         toTv[i].type = "offer" => IdAfter(toTv, currentSessionId, sessionState, i - 1)
    /\ sessionId # 0 /\ ~offered => IdAfter(toTv, currentSessionId, sessionState, Len(toTv))

\* From the k-th message on, only session s is spoken of.
FreshFrom(q, s, k) == \A i \in DOMAIN q : i >= k => q[i].sid \in {0, s}

\* The TV's id is that of session s or none, or a status of s will correct it.
Settles(q, id, s) ==
    \/ id \in {0, s} /\ FreshFrom(q, s, 1)
    \/ \E j \in DOMAIN q : q[j].type = "session-status" /\ q[j].sid = s /\ FreshFrom(q, s, j)

IdSettles == sessionId # 0 => Settles(toTv, currentSessionId, sessionId)

Shows == sessionState = "streaming" => currentSessionId # 0
Armed == cancelRequested /\ ~cancelSent => currentSessionId = 0

TInv == /\ GatewayTyped /\ TvTyped /\ QueuesOK /\ Stages /\ Answers /\ OffersFindId /\ IdSettles
        /\ Shows /\ Armed /\ CancelHidesStream
-----------------------------------------------------------------------------
(***************************************************************************)
(* What the queue brings: appending to it, and handling its first message. *)
(***************************************************************************)
\* What is left of a queue once its first message is taken.
LEMMA TailElements ==
    ASSUME NEW S, NEW q \in Seq(S), q # <<>>
    PROVE  /\ Head(q) = q[1] /\ 1 \in DOMAIN q /\ Head(q) \in S /\ Tail(q) \in Seq(S)
           /\ \A i \in DOMAIN Tail(q) : i + 1 \in DOMAIN q /\ Tail(q)[i] = q[i + 1]
<1>1. Len(q) \in Nat \ {0} /\ DOMAIN q = 1..Len(q)  BY EmptySeq, LenProperties
<1>2. /\ Head(q) \in S /\ Tail(q) \in Seq(S) /\ Len(Tail(q)) = Len(q) - 1
      /\ \A i \in 1..Len(Tail(q)) : Tail(q)[i] = q[i + 1]
  BY HeadTailProperties
<1>3. DOMAIN Tail(q) = 1..Len(Tail(q))  BY <1>2, LenProperties
<1> QED  BY <1>1, <1>2, <1>3

\* What the TV holds after the first messages does not depend on later ones.
LEMMA IdAfterAppend ==
    ASSUME NEW q \in Seq(TvMessages), NEW ms \in Seq(TvMessages), NEW id, NEW state,
           NEW k \in 0..Len(q), IdAfter(q, id, state, k)
    PROVE  IdAfter(q \o ms, id, state, k)
<1>1. \A i \in 1..k : (q \o ms)[i] = q[i]  BY ConcatProperties, LenProperties
<1> QED  BY <1>1 DEF IdAfter

\* Messages that take no id leave the TV with the one it holds before them.
LEMMA IdAfterMore ==
    ASSUME NEW q \in Seq(TvMessages), NEW ms \in Seq(TvMessages), NEW id, NEW state,
           IdAfter(q, id, state, Len(q)),
           \A i \in 1..Len(ms) : ~Takes0(ms[i])
    PROVE  IdAfter(q \o ms, id, state, Len(q \o ms))
<1> DEFINE r == q \o ms
<1>1. /\ Len(q) \in Nat /\ Len(ms) \in Nat /\ Len(r) = Len(q) + Len(ms)
      /\ \A i \in 1..Len(q) : r[i] = q[i]
      /\ \A i \in Len(q) + 1..Len(r) : i - Len(q) \in 1..Len(ms) /\ r[i] = ms[i - Len(q)]
  BY ConcatProperties, LenProperties
<1>2. \A i \in Len(q) + 1..Len(r) : ~Takes0(r[i])  BY <1>1
<1> HIDE DEF r
<1>3. CASE \E j \in 1..Len(q) : Brings(q[j]) /\ \A l \in j + 1..Len(q) : ~Takes0(q[l])
  <2>1. PICK j \in 1..Len(q) : Brings(q[j]) /\ \A l \in j + 1..Len(q) : ~Takes0(q[l])  BY <1>3
  <2>2. j \in 1..Len(r) /\ Brings(r[j])  BY <2>1, <1>1
  <2>3. \A l \in j + 1..Len(r) : ~Takes0(r[l])  BY <2>1, <1>1, <1>2
  <2> QED  BY <2>2, <2>3 DEF IdAfter, r
<1>4. CASE Holds(id, state) /\ \A l \in 1..Len(q) : ~Takes0(q[l])
  <2>1. \A l \in 1..Len(r) : ~Takes0(r[l])  BY <1>1, <1>2, <1>4
  <2> QED  BY <2>1, <1>4 DEF IdAfter, r
<1> QED  BY <1>3, <1>4 DEF IdAfter

\* A message that brings the id is enough, if none of those after it takes it.
LEMMA IdAfterBrought ==
    ASSUME NEW q \in Seq(TvMessages), NEW ms \in Seq(TvMessages), NEW id, NEW state,
           ms # <<>>, Brings(ms[1]), \A i \in 2..Len(ms) : ~Takes0(ms[i])
    PROVE  IdAfter(q \o ms, id, state, Len(q \o ms))
<1> DEFINE r == q \o ms
           j == Len(q) + 1
<1>1. /\ Len(q) \in Nat /\ Len(ms) \in Nat \ {0} /\ Len(r) = Len(q) + Len(ms)
      /\ \A i \in Len(q) + 1..Len(r) : i - Len(q) \in 1..Len(ms) /\ r[i] = ms[i - Len(q)]
  BY ConcatProperties, LenProperties, EmptySeq
<1>2. j \in 1..Len(r) /\ r[j] = ms[1]  BY <1>1
<1>3. \A l \in j + 1..Len(r) : ~Takes0(r[l])  BY <1>1
<1> QED  BY <1>2, <1>3 DEF IdAfter

\* Handling the first message: the TV must come to hold an id when the message
\* brings one, and keep the one it holds unless the message takes it.
LEMMA IdAfterTail ==
    ASSUME NEW q \in Seq(TvMessages), q # <<>>, NEW id, NEW state, NEW id2, NEW state2,
           Brings(Head(q)) \/ (Holds(id, state) /\ ~Takes0(Head(q))) => Holds(id2, state2),
           NEW k \in 1..Len(q), IdAfter(q, id, state, k)
    PROVE  IdAfter(Tail(q), id2, state2, k - 1)
<1> DEFINE r == Tail(q)
<1>1. /\ Len(q) \in Nat /\ Head(q) = q[1]
      /\ \A i \in 1..k - 1 : r[i] = q[i + 1]
  BY HeadTailProperties, LenProperties
<1> HIDE DEF r
<1>2. CASE \E j \in 2..k : Brings(q[j]) /\ \A l \in j + 1..k : ~Takes0(q[l])
  <2>1. PICK j \in 2..k : Brings(q[j]) /\ \A l \in j + 1..k : ~Takes0(q[l])  BY <1>2
  <2>2. j - 1 \in 1..k - 1 /\ Brings(r[j - 1])  BY <2>1, <1>1
  <2>3. \A l \in (j - 1) + 1..k - 1 : ~Takes0(r[l])  BY <2>1, <1>1
  <2> QED  BY <2>2, <2>3 DEF IdAfter, r
<1>3. CASE \A l \in 2..k : ~Takes0(q[l])
  <2>1. \A l \in 1..k - 1 : ~Takes0(r[l])  BY <1>1, <1>3
  <2>2. CASE Holds(id2, state2)  BY <2>1, <2>2 DEF IdAfter, r
  <2>3. CASE ~Holds(id2, state2)
    <3>1. ~Brings(q[1]) /\ (Holds(id, state) => Takes0(q[1]))  BY <1>1, <2>3
    <3>2. PICK j \in 1..k : Brings(q[j])  BY <3>1, <1>1 DEF IdAfter
    <3>3. \E i \in 2..k : Brings(q[i]) /\ \A l \in i + 1..k : ~Takes0(q[l])
      BY <3>1, <3>2, <1>3
    <3> QED  BY <3>3, <1>2
  <2> QED  BY <2>2, <2>3
<1>4. (\E j \in 2..k : Brings(q[j]) /\ \A l \in j + 1..k : ~Takes0(q[l]))
      \/ (\A l \in 2..k : ~Takes0(q[l]))
  BY DEF IdAfter
<1> QED  BY <1>2, <1>3, <1>4

\* An id gained by the TV itself, and no other change.
LEMMA IdAfterMono ==
    ASSUME NEW q, NEW id, NEW state, NEW id2, NEW state2, NEW k,
           Holds(id, state) => Holds(id2, state2), IdAfter(q, id, state, k)
    PROVE  IdAfter(q, id2, state2, k)
BY DEF IdAfter

\* More messages that speak of the same session.
LEMMA SettlesAppend ==
    ASSUME NEW q \in Seq(TvMessages), NEW ms \in Seq(TvMessages), NEW id, NEW s,
           Settles(q, id, s), \A i \in 1..Len(ms) : ms[i].sid \in {0, s}
    PROVE  Settles(q \o ms, id, s)
<1> DEFINE r == q \o ms
<1>1. /\ Len(q) \in Nat /\ Len(ms) \in Nat /\ Len(r) = Len(q) + Len(ms)
      /\ DOMAIN q = 1..Len(q) /\ DOMAIN r = 1..Len(r)
      /\ \A i \in 1..Len(q) : r[i] = q[i]
      /\ \A i \in Len(q) + 1..Len(r) : i - Len(q) \in 1..Len(ms) /\ r[i] = ms[i - Len(q)]
  BY ConcatProperties, LenProperties
<1> HIDE DEF r
<1>2. \A k \in Nat : FreshFrom(q, s, k) => FreshFrom(r, s, k)  BY <1>1 DEF FreshFrom
<1>3. 1 \in Nat /\ \A j \in DOMAIN q : j \in Nat /\ j \in DOMAIN r /\ r[j] = q[j]  BY <1>1
<1> QED  BY <1>2, <1>3 DEF Settles, r

\* The first status of a new session.
LEMMA SettlesNew ==
    ASSUME NEW q \in Seq(TvMessages), NEW ms \in Seq(TvMessages), NEW id, NEW s,
           ms # <<>>, ms[1].type = "session-status", ms[1].sid = s,
           \A i \in 1..Len(ms) : ms[i].sid \in {0, s}
    PROVE  Settles(q \o ms, id, s)
<1> DEFINE r == q \o ms
           j == Len(q) + 1
<1>1. /\ Len(q) \in Nat /\ Len(ms) \in Nat \ {0} /\ Len(r) = Len(q) + Len(ms)
      /\ DOMAIN r = 1..Len(r)
      /\ \A i \in Len(q) + 1..Len(r) : i - Len(q) \in 1..Len(ms) /\ r[i] = ms[i - Len(q)]
  BY ConcatProperties, LenProperties, EmptySeq
<1>2. j \in DOMAIN r /\ r[j] = ms[1]  BY <1>1
<1>3. FreshFrom(r, s, j)  BY <1>1 DEF FreshFrom
<1> QED  BY <1>2, <1>3 DEF Settles

\* Handling the first message: the TV's id stays, goes or becomes the message's,
\* and a status that carries one always replaces it.
LEMMA SettlesTail ==
    ASSUME NEW q \in Seq(TvMessages), q # <<>>, NEW id, NEW id2, NEW s \in Nat \ {0},
           Settles(q, id, s),
           id2 \in {0, id, Head(q).sid},
           Head(q).type = "session-status" /\ Head(q).sid # 0 => id2 \in {0, Head(q).sid}
    PROVE  Settles(Tail(q), id2, s)
<1> DEFINE r == Tail(q)
<1>1. /\ Len(q) \in Nat \ {0} /\ Head(q) = q[1] /\ Len(r) = Len(q) - 1
      /\ DOMAIN q = 1..Len(q) /\ DOMAIN r = 1..Len(r)
      /\ \A i \in 1..Len(r) : r[i] = q[i + 1]
  BY HeadTailProperties, LenProperties, EmptySeq
<1> HIDE DEF r
<1>2. \A k \in Nat : FreshFrom(q, s, k) => FreshFrom(r, s, k - 1)  BY <1>1 DEF FreshFrom
<1>3. \A k \in 0..1 : FreshFrom(r, s, 0) => FreshFrom(r, s, k)  BY <1>1 DEF FreshFrom
<1>4. CASE id \in {0, s} /\ FreshFrom(q, s, 1)
  <2>1. q[1].sid \in {0, s}  BY <1>1, <1>4 DEF FreshFrom
  <2>2. id2 \in {0, s}  BY <2>1, <1>4, <1>1
  <2>3. FreshFrom(r, s, 1)  BY <1>2, <1>3, <1>4
  <2> QED  BY <2>2, <2>3 DEF Settles, r
<1>5. CASE \E j \in DOMAIN q : q[j].type = "session-status" /\ q[j].sid = s /\ FreshFrom(q, s, j)
  <2>1. PICK j \in DOMAIN q : q[j].type = "session-status" /\ q[j].sid = s /\ FreshFrom(q, s, j)
    BY <1>5
  <2>2. CASE j = 1
    <3>1. id2 \in {0, s}  BY <2>1, <2>2, <1>1
    <3>2. FreshFrom(r, s, 1)  BY <2>1, <2>2, <1>2, <1>3
    <3> QED  BY <3>1, <3>2 DEF Settles, r
  <2>3. CASE j # 1
    <3>1. j - 1 \in DOMAIN r /\ r[j - 1] = q[j]  BY <2>3, <1>1
    <3>2. FreshFrom(r, s, j - 1)  BY <2>1, <1>1, <1>2
    <3> QED  BY <3>1, <3>2, <2>1 DEF Settles, r
  <2> QED  BY <2>2, <2>3
<1> QED  BY <1>4, <1>5 DEF Settles
-----------------------------------------------------------------------------
(***************************************************************************)
(* The Gateway's steps                                                     *)
(***************************************************************************)
\* The Gateway may have taken the TV's next request.
TakesRequest == toGateway' = toGateway \/ (toGateway # <<>> /\ toGateway' = Tail(toGateway))

\* What a step says when it neither grants a session nor makes its offer: nothing that
\* takes the id from a TV that still waits for the offer.
Says(ms) ==
    /\ ms \in Seq(TvMessages) /\ toTv' = toTv \o ms
    /\ \A i \in 1..Len(ms) :
         /\ Plausible(ms[i], nextSessionId) /\ ms[i].type # "offer"
         /\ ms[i].sid \in {0, sessionId}
         /\ sessionId' # 0 /\ ~offered => ~Takes0(ms[i])

Speaks == \E ms : Says(ms)

\* Both queues after a step of the Gateway.
LEMMA QueuesAfter ==
    ASSUME TInv, TakesRequest, NEW ms \in Seq(TvMessages), toTv' = toTv \o ms,
           nextSessionId' \in Nat, nextSessionId <= nextSessionId',
           \A i \in 1..Len(ms) : Plausible(ms[i], nextSessionId')
    PROVE  /\ QueuesOK'
           /\ \A i \in DOMAIN toTv' : \/ i \in DOMAIN toTv /\ toTv'[i] = toTv[i]
                                      \/ i - Len(toTv) \in 1..Len(ms) /\ toTv'[i] = ms[i - Len(toTv)]
           /\ \A i \in DOMAIN toGateway' : \E j \in DOMAIN toGateway : toGateway'[i] = toGateway[j]
<1>1. /\ toTv \in Seq(TvMessages) /\ toGateway \in Seq(Requests) /\ nextSessionId \in Nat
      /\ \A i \in DOMAIN toTv : toTv[i] \in TvMessages /\ Plausible(toTv[i], nextSessionId)
      /\ \A i \in DOMAIN toGateway :
           toGateway[i] \in Requests /\ toGateway[i].sid < nextSessionId
  BY LenProperties, ElementOfSeq DEF TInv, QueuesOK, GatewayTyped
<1>2. \A i \in DOMAIN toGateway' : \E j \in DOMAIN toGateway : toGateway'[i] = toGateway[j]
  <2>1. CASE toGateway' = toGateway  BY <2>1
  <2>2. CASE toGateway # <<>> /\ toGateway' = Tail(toGateway)
    <3>1. \A i \in DOMAIN toGateway' : i + 1 \in DOMAIN toGateway
                                       /\ toGateway'[i] = toGateway[i + 1]
      BY <1>1, <2>2, TailElements
    <3> QED  BY <3>1
  <2> QED  BY <2>1, <2>2 DEF TakesRequest
<1>3. /\ toTv' \in Seq(TvMessages)
      /\ \A i \in DOMAIN toTv' : \/ i \in DOMAIN toTv /\ toTv'[i] = toTv[i]
                                 \/ i - Len(toTv) \in 1..Len(ms) /\ toTv'[i] = ms[i - Len(toTv)]
  BY <1>1, ConcatProperties, LenProperties
<1>4. \A m \in TvMessages : Plausible(m, nextSessionId) => Plausible(m, nextSessionId')
  BY <1>1 DEF Plausible, TvMessages
<1>5. \A i \in DOMAIN toTv' : Plausible(toTv'[i], nextSessionId')  BY <1>1, <1>3, <1>4
<1>6. toGateway' \in Seq(Requests)  BY <1>1, HeadTailProperties DEF TakesRequest
<1>7. \A i \in DOMAIN toGateway' : toGateway'[i].sid < nextSessionId'
  <2>1. \A m \in Requests : m.sid < nextSessionId => m.sid < nextSessionId'
    BY <1>1 DEF Requests
  <2> QED  BY <2>1, <1>1, <1>2
<1> QED  BY <1>2, <1>3, <1>5, <1>6, <1>7 DEF QueuesOK

\* What the TV knows survives everything the Gateway may say.
LEMMA SpeechKeeps ==
    ASSUME TInv, UNCHANGED tvView, TakesRequest, Speaks,
           nextSessionId' = nextSessionId, sessionId' \in {0, sessionId}, offered' = offered
    PROVE  QueuesOK' /\ Answers' /\ OffersFindId' /\ IdSettles' /\ Shows' /\ Armed'
           /\ CancelHidesStream'
<1> PICK ms : Says(ms)  BY DEF Speaks
<1>1. /\ currentSessionId' = currentSessionId /\ sessionState' = sessionState
      /\ answering' = answering
      /\ Shows' /\ Armed' /\ CancelHidesStream'
  BY DEF TInv, tvView, Shows, Armed, CancelHidesStream
<1>2. /\ QueuesOK'
      /\ \A i \in DOMAIN toTv' : \/ i \in DOMAIN toTv /\ toTv'[i] = toTv[i]
                                 \/ i - Len(toTv) \in 1..Len(ms) /\ toTv'[i] = ms[i - Len(toTv)]
      /\ \A i \in DOMAIN toGateway' : \E j \in DOMAIN toGateway : toGateway'[i] = toGateway[j]
  <2>1. ms \in Seq(TvMessages) /\ toTv' = toTv \o ms /\ nextSessionId' \in Nat
        /\ nextSessionId <= nextSessionId'
        /\ \A i \in 1..Len(ms) : Plausible(ms[i], nextSessionId')
    BY DEF Says, TInv, GatewayTyped
  <2> QED  BY <2>1, QueuesAfter
<1>3. Answers'
  BY <1>1, <1>2 DEF TInv, Answers, Says
<1>4. toTv \in Seq(TvMessages) /\ ms \in Seq(TvMessages) /\ toTv' = toTv \o ms
  BY DEF TInv, QueuesOK, Says
<1>5. OffersFindId'
  <2>1. ASSUME NEW i \in DOMAIN toTv', toTv'[i].type = "offer"
        PROVE  IdAfter(toTv', currentSessionId, sessionState, i - 1)
    <3>1. i \in DOMAIN toTv /\ toTv'[i] = toTv[i]  BY <1>2, <2>1 DEF Says
    <3>2. IdAfter(toTv, currentSessionId, sessionState, i - 1)
      BY <3>1, <2>1 DEF TInv, OffersFindId
    <3>3. i - 1 \in 0..Len(toTv)  BY <3>1, <1>4, LenProperties
    <3> QED  BY <3>2, <3>3, <1>4, IdAfterAppend
  <2>2. ASSUME sessionId' # 0, ~offered'
        PROVE  IdAfter(toTv', currentSessionId, sessionState, Len(toTv'))
    <3>1. IdAfter(toTv, currentSessionId, sessionState, Len(toTv))
      BY <2>2 DEF TInv, OffersFindId
    <3> QED  BY <3>1, <2>2, <1>4, IdAfterMore DEF Says
  <2> QED  BY <1>1, <2>1, <2>2 DEF OffersFindId
<1>6. IdSettles'
  <2>1. SUFFICES ASSUME sessionId' # 0  PROVE Settles(toTv', currentSessionId', sessionId')
    BY DEF IdSettles
  <2>2. Settles(toTv, currentSessionId, sessionId)  BY <2>1 DEF TInv, IdSettles
  <2>3. \A i \in 1..Len(ms) : ms[i].sid \in {0, sessionId}  BY DEF Says
  <2>4. Settles(toTv \o ms, currentSessionId, sessionId)  BY <2>2, <2>3, <1>4, SettlesAppend
  <2> QED  BY <2>1, <2>4, <1>1, <1>4
<1> QED  BY <1>1, <1>2, <1>3, <1>5, <1>6

\* Saying nothing, and saying a few messages.
LEMMA Silence == ASSUME TInv, GW!Silent  PROVE Speaks
<1>1. toTv \in Seq(TvMessages) /\ <<>> \in Seq(TvMessages) /\ Len(<<>>) = 0  BY EmptySeq
   DEF TInv, QueuesOK
<1>2. toTv' = toTv \o <<>>  BY <1>1, ConcatEmptySeq DEF GW!Silent
<1>3. Says(<<>>)  BY <1>1, <1>2 DEF Says
<1> QED  BY <1>3 DEF Speaks

\* What the Gateway may say of the host and of errors at any time.
HostTalk(m) == m \in TvMessages /\ Plausible(m, nextSessionId) /\ m.sid = 0
               /\ m.type \in {"host-session-status", "error", "gateway-status", "apps"}

\* The lists, the host's states and the error codes are such messages.
LEMMA HostTalks ==
    ASSUME TInv
    PROVE  /\ HostTalk(GW!AppList(hostApp)) /\ HostTalk(GW!GatewayStatus(hostApp))
           /\ \A state \in HostStates : HostTalk(GW!HostStatus(state))
           /\ \A code \in ErrorCodes : HostTalk(GW!Error(code))
BY
   DEF TInv, GatewayTyped, HostTalk, GW!AppList, GW!GatewayStatus, GW!HostStatus, GW!Error,
       GW!Message, TvMessages,
       MessageTypes, MaybeApps, Plausible

\* A request the Gateway takes has the parts that serving records of it.
LEMMA RequestTyped ==
    ASSUME TInv, toGateway # <<>>
    PROVE  /\ Head(toGateway) \in Requests /\ Head(toGateway).sid < nextSessionId
           /\ 1 \in DOMAIN toGateway /\ Head(toGateway) = toGateway[1]
BY TailElements, LenProperties DEF TInv, QueuesOK

\* A larger counter knows more ids.
LEMMA KnownGrows ==
    ASSUME NEW i \in Nat, NEW j \in Nat, i <= j  PROVE 0..i - 1 \subseteq 0..j - 1
OBVIOUS

\* The TV's variables keep their types while the Gateway works.
LEMMA TvPartStays ==
    ASSUME TInv, UNCHANGED tvView, nextSessionId' \in Nat, nextSessionId <= nextSessionId'
    PROVE  TvTyped'
<1>1. nextSessionId \in Nat /\ TvTyped  BY DEF TInv, GatewayTyped
<1>2. Known \subseteq Known'  BY <1>1, KnownGrows DEF Known
<1> QED  BY <1>1, <1>2 DEF TvTyped, tvView

\* A request leaves the Gateway's variables and a session's stages in order.
LEMMA ReceivesTyped ==
    ASSUME TInv, GatewayReceives
    PROVE  GatewayTyped' /\ Stages'
<1> DEFINE m == Head(toGateway)
<1>1. /\ m \in Requests /\ 1 \in DOMAIN toGateway /\ m = toGateway[1] /\ serving.pc = "idle"
  BY RequestTyped DEF GatewayReceives
<1>2. GatewayTyped /\ Stages /\ Answers  BY DEF TInv
<1>3. GW!Handle(m)  BY DEF GatewayReceives
<1> HIDE DEF m
<1>4. ASSUME NEW pc \in {"stop", "query", "start"}, GW!Serve(pc, m),
             pc = "start" => m.type \in Starts,
             pc = "query" => m.type \in {"switch-session", "stop-host-session"}
      PROVE  serving' \in ServingStates /\ serving'.pc = pc
  BY <1>1, <1>4 DEF GW!Serve, ServingStates, Requests, Named
<1>5. CASE GW!ReceiveStart(m) /\ m.type = "start-session"
  BY <1>2, <1>4, <1>5
     DEF GW!ReceiveStart, GatewayTyped, Stages, Known, GW!session, GW!webrtc, Starts
<1>6. CASE GW!ReceiveStop(m)
  BY <1>2, <1>4, <1>6 DEF GW!ReceiveStop, GatewayTyped, Stages, Known, GW!session, GW!webrtc
<1>7. CASE GW!ReceiveAnswer(m) /\ m.type = "answer"
  BY <1>1, <1>2, <1>7 DEF GW!ReceiveAnswer, GatewayTyped, Stages, Known, Answers, GW!session
<1>8. CASE GW!ReceiveGetApps
  BY <1>2, <1>8 DEF GW!ReceiveGetApps, GatewayTyped, Stages, Known, GW!session, GW!webrtc
<1>9. CASE GW!ReceiveHostOperation(m) /\ m.type \in {"switch-session", "stop-host-session"}
  BY <1>2, <1>4, <1>9
     DEF GW!ReceiveHostOperation, GatewayTyped, Stages, Known, GW!session, GW!webrtc
<1>10. m.type \in RequestTypes  BY <1>1 DEF Requests
<1> QED  BY <1>3, <1>5, <1>6, <1>7, <1>8, <1>9, <1>10 DEF GW!Handle, RequestTypes

\* What it says of the present session.
SessionTalk(m) ==
    m \in TvMessages /\ Plausible(m, nextSessionId) /\ m.type = "session-status"
    /\ m.sid \in {0, sessionId}

\* A status of the present session is such a message; "streaming" needs a session.
LEMMA SessionTalks ==
    ASSUME TInv
    PROVE  /\ \A state \in States \ {"streaming"} :
                SessionTalk(GW!SessionStatus(state)) /\ GW!SessionStatus(state).state = state
           /\ sessionId # 0 => SessionTalk(GW!SessionStatus("streaming"))
           /\ SessionTalk(GW!Status("idle", 0))
<1>1. sessionId \in Nat /\ sessionId < nextSessionId /\ 0 < nextSessionId
  BY DEF TInv, GatewayTyped, Known
<1>2. ASSUME NEW state \in States, NEW s \in {0, sessionId}, state = "streaming" => s # 0
      PROVE  SessionTalk(GW!Status(state, s))
  BY <1>1, <1>2 DEF SessionTalk, GW!Status, GW!Message, TvMessages, MessageTypes, Plausible
<1>3. \A state \in States : GW!SessionStatus(state) = GW!Status(state, sessionId)
  BY DEF GW!SessionStatus
<1>4. \A state : GW!Status(state, sessionId).state = state  BY DEF GW!Status, GW!Message
<1>5. "idle" \in States /\ "streaming" \in States  BY DEF States
<1> QED  BY <1>2, <1>3, <1>4, <1>5

\* A short answer is in the language of the queue.
LEMMA SessionSays ==
    ASSUME NEW ms \in Seq(TvMessages), GW!Reply(ms),
           \A i \in 1..Len(ms) : \/ HostTalk(ms[i])
                                 \/ /\ SessionTalk(ms[i])
                                    /\ sessionId' = 0 \/ offered \/ ~Takes0(ms[i])
    PROVE  Speaks
BY DEF Speaks, Says, HostTalk, SessionTalk, GW!Reply, Takes0

\* A sequence of one message.
LEMMA OneMessage == ASSUME NEW m \in TvMessages
                    PROVE <<m>> \in Seq(TvMessages) /\ \A i \in 1..Len(<<m>>) : <<m>>[i] = m
OBVIOUS

\* handleMessage: what it replies before the socket thread starts to work.
LEMMA ReceivesSay ==
    ASSUME TInv, GatewayReceives
    PROVE  /\ Speaks
           /\ nextSessionId' = nextSessionId /\ sessionId' = sessionId /\ offered' = offered
<1> DEFINE m == Head(toGateway)
<1>1. /\ m \in Requests /\ 1 \in DOMAIN toGateway /\ m = toGateway[1]
  BY RequestTyped DEF GatewayReceives
<1>2. sessionId \in Nat /\ Answers  BY DEF TInv, GatewayTyped, Known
<1>3. GW!Handle(m)  BY DEF GatewayReceives
<1> HIDE DEF m
<1>4. nextSessionId' = nextSessionId /\ sessionId' = sessionId /\ offered' = offered
  BY <1>3 DEF GW!Handle, GW!ReceiveStart, GW!ReceiveStop, GW!ReceiveAnswer, GW!ReceiveGetApps,
              GW!ReceiveHostOperation, GW!session, GW!webrtc
<1> SUFFICES Speaks  BY <1>4
<1>5. ASSUME NEW r, HostTalk(r) \/ (SessionTalk(r) /\ (sessionId' = 0 \/ offered \/ ~Takes0(r))),
             GW!Reply(<<r>>)
      PROVE  Speaks
  <2>1. r \in TvMessages  BY <1>5 DEF HostTalk, SessionTalk
  <2> QED  BY <1>5, <2>1, OneMessage, SessionSays
<1>6. CASE GW!ReceiveStart(m)
  <2>1. HostTalk(GW!Error("session-active"))  BY HostTalks DEF ErrorCodes
  <2> QED  BY <1>5, <1>6, <2>1, Silence DEF GW!ReceiveStart
<1>7. CASE GW!ReceiveStop(m)
  <2>1. CASE sessionId = 0  BY <1>4, <1>5, <1>7, <2>1, SessionTalks DEF GW!ReceiveStop
  <2>2. CASE sessionId # 0
    <3>1. SessionTalk(GW!SessionStatus("stopping")) /\ ~Takes0(GW!SessionStatus("stopping"))
      BY SessionTalks DEF States, Takes0
    <3> QED  BY <1>5, <1>7, <2>2, <3>1 DEF GW!ReceiveStop
  <2> QED  BY <2>1, <2>2
<1>8. CASE GW!ReceiveAnswer(m) /\ m.type = "answer"
  <2>1. CASE GW!Silent  BY <2>1, Silence
  <2>2. CASE ~GW!Silent
    <3>1. m.sid = sessionId /\ sessionId # 0  BY <1>8, <2>2 DEF GW!ReceiveAnswer
    <3>2. offered  BY <1>1, <1>2, <1>8, <3>1 DEF Answers
    <3>3. \A state \in {"codec-unsupported", "error"} : SessionTalk(GW!SessionStatus(state))
      BY SessionTalks DEF States
    <3> QED  BY <1>5, <1>8, <2>2, <3>2, <3>3 DEF GW!ReceiveAnswer
  <2> QED  BY <2>1, <2>2
<1>9. CASE GW!ReceiveGetApps
  <2>1. HostTalk(GW!Error("sunshine-unavailable")) /\ HostTalk(GW!AppList(hostApp))
    BY HostTalks DEF ErrorCodes
  <2> QED  BY <1>5, <1>9, <2>1 DEF GW!ReceiveGetApps
<1>10. CASE GW!ReceiveHostOperation(m)
  BY <1>10, Silence DEF GW!ReceiveHostOperation
<1> QED  BY <1>3, <1>4, <1>6, <1>7, <1>8, <1>9, <1>10 DEF GW!Handle

\* handleMessage keeps the invariant.
LEMMA ReceivesKeep == TInv /\ GatewayReceives => TInv'
<1> SUFFICES ASSUME TInv, GatewayReceives  PROVE TInv'
  OBVIOUS
<1>1. UNCHANGED tvView /\ TakesRequest  BY DEF GatewayReceives, TakesRequest
<1>2. GatewayTyped' /\ Stages'  BY ReceivesTyped
<1>3. nextSessionId' \in Nat /\ nextSessionId <= nextSessionId'
  BY ReceivesSay DEF TInv, GatewayTyped
<1>4. TvTyped'  BY <1>1, <1>3, TvPartStays
<1> QED  BY <1>1, <1>2, <1>4, ReceivesSay, SpeechKeeps DEF TInv

\* Every step of the Gateway but those that take a request, grant a session or make its offer.
Proceeds ==
    \/ GW!StartFails \/ GW!StopCompletes
    \/ GW!HostQueryFails \/ GW!HostQueryNothingToStop \/ GW!HostQueryStopsStream
    \/ GW!HostStopCompletes \/ GW!HostCancel \/ GW!HostIdle \/ GW!HostFails
    \/ GW!Connect \/ GW!Lost \/ GW!Thread \/ GW!Host

\* The request in progress moves on, or is done.
LEMMA GotoTyped ==
    ASSUME GatewayTyped,
           NEW pc \in {"idle", "start", "stop", "stopLocal", "cancel", "await"},
           GW!Goto(pc), pc = "start" => serving.type \in Starts
    PROVE  serving' \in ServingStates /\ serving'.pc = pc
BY DEF GatewayTyped, GW!Goto, ServingStates, Named

\* The socket thread is idle again.
LEMMA DoneTyped ==
    ASSUME GW!Done  PROVE serving' \in ServingStates /\ serving'.pc = "idle"
BY DEF GW!Done, GW!Nothing, ServingStates, AnyCodec, MaybeApps, Named, Starts

\* These steps, too, leave types and stages in order.
LEMMA ProceedsTyped ==
    ASSUME TInv, Proceeds
    PROVE  GatewayTyped' /\ Stages'
<1>1. GatewayTyped /\ Stages  BY DEF TInv
<1>2. sessionId \in 0..nextSessionId - 1 /\ 0 \in 0..nextSessionId - 1
  BY <1>1 DEF GatewayTyped, Known
<1>3. CASE GW!StartFails
  BY <1>1, <1>3, DoneTyped DEF GW!StartFails, GatewayTyped, Stages, Known, GW!session, GW!webrtc
<1>4. CASE GW!StopCompletes
  BY <1>1, <1>2, <1>4, DoneTyped
     DEF GW!StopCompletes, GW!Release, GatewayTyped, Stages, Known, MaybeApps
<1>5. CASE GW!HostQueryFails
  BY <1>1, <1>5, DoneTyped
     DEF GW!HostQueryFails, GatewayTyped, Stages, Known, GW!session, GW!webrtc
<1>6. CASE GW!HostQueryNothingToStop
  BY <1>1, <1>6, DoneTyped
     DEF GW!HostQueryNothingToStop, GatewayTyped, Stages, Known, GW!session, GW!webrtc
<1>7. CASE GW!HostQueryStopsStream
  <2>1. serving' \in ServingStates /\ serving'.pc = "stopLocal"
    <3>1. /\ serving \in ServingStates /\ serving.pc = "query"
          /\ serving.type = "switch-session" \/ hostApp # NoApp
      BY <1>1, <1>7 DEF GW!HostQueryStopsStream, GatewayTyped, GW!Switching
    <3>2. CASE serving.type = "switch-session"
      <4>1. PICK next \in {"cancel", "starting", "resuming"} :
              serving' = [serving EXCEPT !.pc = "stopLocal", !.next = next]
        BY <1>7 DEF GW!HostQueryStopsStream
      <4> QED  BY <3>1, <3>2, <4>1 DEF ServingStates, Named, Starts
    <3>3. CASE serving.type # "switch-session"
      <4>1. serving.app = NoApp /\ hostApp \notin {NoApp, serving.app}
        BY <3>1, <3>3 DEF ServingStates, Named
      <4>2. serving' = [serving EXCEPT !.pc = "stopLocal", !.next = "cancel"]
        BY <1>7, <4>1 DEF GW!HostQueryStopsStream
      <4> QED  BY <3>1, <3>3, <4>2 DEF ServingStates, Named, Starts
    <3> QED  BY <3>2, <3>3
  <2> QED  BY <1>1, <1>7, <2>1
              DEF GW!HostQueryStopsStream, GatewayTyped, Stages, Known, GW!session, GW!webrtc
<1>8. CASE GW!HostStopCompletes
  <2>1. serving' \in ServingStates /\ serving'.pc \in {"cancel", "start"}
    <3>1. serving.next \in {"cancel", "starting", "resuming"}
      BY <1>1, <1>8 DEF GW!HostStopCompletes, Stages, GatewayTyped, ServingStates
    <3>2. serving.next # "cancel" => serving.type \in Starts
      BY <1>1, <3>1 DEF GatewayTyped, ServingStates
    <3> QED  BY <1>1, <1>8, <3>2, GotoTyped DEF GW!HostStopCompletes
  <2> QED  BY <1>1, <1>2, <1>8, <2>1
     DEF GW!HostStopCompletes, GW!Release, GatewayTyped, Stages, Known, MaybeApps
<1>9. CASE GW!HostCancel
  BY <1>1, <1>9, GotoTyped
     DEF GW!HostCancel, GatewayTyped, Stages, Known, GW!session, GW!webrtc, MaybeApps
<1>10. CASE GW!HostIdle
  <2>1. serving' \in ServingStates /\ serving'.pc \in {"idle", "start"}
    BY <1>1, <1>10, GotoTyped, DoneTyped DEF GW!HostIdle, GW!Switching, Starts
  <2> QED  BY <1>1, <1>10, <2>1
              DEF GW!HostIdle, GatewayTyped, Stages, Known, GW!session, GW!webrtc
<1>11. CASE GW!HostFails
  BY <1>1, <1>11, DoneTyped DEF GW!HostFails, GatewayTyped, Stages, Known, GW!session, GW!webrtc
<1>12. CASE GW!Connect
  BY <1>1, <1>12 DEF GW!Connect, GatewayTyped, Stages, Known, GW!session
<1>13. CASE GW!Lost
  BY <1>1, <1>13 DEF GW!Lost, GatewayTyped, Stages, Known, GW!session
<1>14. CASE GW!StreamStarts
  BY <1>1, <1>14 DEF GW!StreamStarts, GatewayTyped, Stages, Known, GW!session, GW!webrtc
<1>15. CASE GW!StreamStartFails
  BY <1>1, <1>15 DEF GW!StreamStartFails, GatewayTyped, Stages, Known, GW!session, GW!webrtc
<1>16. CASE GW!StreamEnds
  BY <1>1, <1>16 DEF GW!StreamEnds, GatewayTyped, Stages, Known, GW!session, GW!webrtc
<1>17. CASE GW!MoonlightTerminates
  BY <1>1, <1>17 DEF GW!MoonlightTerminates, GatewayTyped, Stages, Known, GW!session, GW!webrtc
<1>18. CASE GW!HostAppQuits
  BY <1>1, <1>18
     DEF GW!HostAppQuits, GatewayTyped, Stages, Known, GW!session, GW!webrtc, MaybeApps
<1> QED  BY <1>3, <1>4, <1>5, <1>6, <1>7, <1>8, <1>9, <1>10, <1>11, <1>12, <1>13, <1>14, <1>15,
            <1>16, <1>17, <1>18 DEF Proceeds, GW!Thread, GW!Host

\* A sequence of messages of which each may be said.
Sayable(r) == HostTalk(r) \/ (SessionTalk(r) /\ (sessionId' = 0 \/ offered \/ ~Takes0(r)))

\* No step says more than three such messages.
LEMMA ShortSpeech ==
    ASSUME NEW a, NEW b, NEW c, Sayable(a), Sayable(b), Sayable(c),
           \/ GW!Reply(<<a>>) \/ GW!Reply(<<a, b>>) \/ GW!Reply(<<a, b, c>>)
           \/ GW!Reply(Append(<<a, b>>, c))
    PROVE  Speaks
<1>1. a \in TvMessages /\ b \in TvMessages /\ c \in TvMessages
  BY DEF Sayable, HostTalk, SessionTalk
<1>2. /\ <<a>> \in Seq(TvMessages) /\ \A i \in 1..Len(<<a>>) : <<a>>[i] = a
      /\ <<a, b>> \in Seq(TvMessages)
      /\ \A i \in 1..Len(<<a, b>>) : <<a, b>>[i] \in {a, b, c}
      /\ <<a, b, c>> \in Seq(TvMessages)
      /\ \A i \in 1..Len(<<a, b, c>>) : <<a, b, c>>[i] \in {a, b, c}
  BY <1>1
<1> DEFINE three == Append(<<a, b>>, c)
<1>3. three \in Seq(TvMessages) /\ \A i \in 1..Len(three) : three[i] \in {a, b, c}
  <2>1. /\ three \in Seq(TvMessages) /\ Len(three) = 3
        /\ three[1] = a /\ three[2] = b /\ three[3] = c
    BY <1>1
  <2> HIDE DEF three
  <2> QED  BY <2>1
<1> HIDE DEF three
<1>4. ASSUME NEW ms \in Seq(TvMessages), \A i \in 1..Len(ms) : ms[i] \in {a, b, c}, GW!Reply(ms)
      PROVE  Speaks
  <2>1. ASSUME NEW i \in 1..Len(ms)
        PROVE  \/ HostTalk(ms[i])
               \/ /\ SessionTalk(ms[i])
                  /\ sessionId' = 0 \/ offered \/ ~Takes0(ms[i])
    <3>1. ms[i] = a \/ ms[i] = b \/ ms[i] = c  BY <1>4
    <3> QED  BY <3>1 DEF Sayable
  <2> QED  BY <1>4, <2>1, SessionSays
<1> QED  BY <1>2, <1>3, <1>4 DEF three

\* What the socket thread, WebRTC and the streaming thread say of their progress.
LEMMA ProceedsSay ==
    ASSUME TInv, Proceeds
    PROVE  /\ Speaks
           /\ nextSessionId' = nextSessionId /\ sessionId' \in {0, sessionId} /\ offered' = offered
<1>1. nextSessionId' = nextSessionId /\ sessionId' \in {0, sessionId} /\ offered' = offered
  BY
     DEF Proceeds, GW!StartFails, GW!StopCompletes, GW!HostQueryFails, GW!HostQueryNothingToStop,
         GW!HostQueryStopsStream, GW!HostStopCompletes, GW!HostCancel, GW!HostIdle, GW!HostFails,
         GW!Connect, GW!Lost, GW!Thread, GW!StreamStarts, GW!StreamStartFails, GW!StreamEnds,
         GW!Host, GW!MoonlightTerminates, GW!HostAppQuits, GW!Release, GW!session, GW!webrtc
<1> SUFFICES Speaks  BY <1>1
<1>2. /\ Sayable(GW!AppList(hostApp)) /\ Sayable(GW!GatewayStatus(hostApp))
      /\ \A state \in HostStates : Sayable(GW!HostStatus(state))
      /\ \A code \in ErrorCodes : Sayable(GW!Error(code))
  BY HostTalks DEF Sayable
<1>3. ASSUME NEW state \in HostStates,
             \/ GW!Reply(Append(GW!Lists, GW!HostStatus(state))) \/ GW!Reply(<<GW!HostStatus(state)>>)
      PROVE  Speaks
  BY <1>2, <1>3, ShortSpeech DEF GW!Lists
<1>4. CASE GW!StartFails
  <2>1. Sayable(GW!Error("invalid-application"))  BY <1>2 DEF ErrorCodes
  <2> QED  BY <1>4, <2>1, ShortSpeech DEF GW!StartFails
<1>5. CASE GW!StopCompletes
  <2>1. sessionId' = 0  BY <1>5 DEF GW!StopCompletes, GW!Release
  <2>2. Sayable(GW!Status("idle", 0))  BY <2>1, SessionTalks DEF Sayable
  <2> QED  BY <1>2, <1>5, <2>2, ShortSpeech DEF GW!StopCompletes
<1>6. CASE GW!HostQueryFails \/ GW!HostQueryNothingToStop \/ GW!HostIdle \/ GW!HostFails
  <2>1. PICK state \in {"failed", "stopped", "starting"} :
          GW!Reply(Append(GW!Lists, GW!HostStatus(state)))
    BY <1>6 DEF GW!HostQueryFails, GW!HostQueryNothingToStop, GW!HostIdle, GW!HostFails
  <2> QED  BY <1>3, <2>1 DEF HostStates
<1>7. CASE GW!HostQueryStopsStream
  <2>1. \/ GW!Reply(<<>>)
        \/ \E state \in {"switching", "stopping"} : GW!Reply(<<GW!HostStatus(state)>>)
    BY <1>7 DEF GW!HostQueryStopsStream
  <2>2. CASE GW!Reply(<<>>)
    <3>1. GW!Silent  BY <2>2, ConcatEmptySeq DEF GW!Reply, GW!Silent, TInv, QueuesOK
    <3> QED  BY <3>1, Silence
  <2> QED  BY <1>3, <2>1, <2>2 DEF HostStates
<1>8. CASE GW!HostStopCompletes
  <2>1. serving.next = "cancel" \/ serving.next \in HostStates
    BY <1>8 DEF GW!HostStopCompletes, Stages, TInv, GatewayTyped, ServingStates, HostStates
  <2> QED  BY <1>3, <1>8, <2>1, Silence DEF GW!HostStopCompletes
<1>9. CASE GW!HostCancel \/ GW!Lost \/ GW!Host
  BY <1>9, Silence DEF GW!HostCancel, GW!Lost, GW!Host, GW!MoonlightTerminates, GW!HostAppQuits
<1>10. CASE GW!Connect
  <2>1. \A state \in {"connecting-sunshine", "starting-moonlight"} : 
            Sayable(GW!SessionStatus(state))
    BY SessionTalks DEF Sayable, States, Takes0
  <2> QED  BY <1>10, <2>1, ShortSpeech DEF GW!Connect
<1>11. CASE GW!Thread
  <2>1. stream \in {"starting", "streaming"} \/ peerConnected => offered
    BY DEF TInv, Stages
  <2>2. sessionId = 0 => stream = "none"  BY DEF TInv, Stages
  <2>3. offered => /\ Sayable(GW!SessionStatus("error")) /\ Sayable(GW!SessionStatus("idle"))
                   /\ sessionId # 0 => Sayable(GW!SessionStatus("streaming"))
    BY SessionTalks DEF Sayable, States
  <2>4. CASE GW!StreamStarts \/ GW!StreamStartFails
    BY <2>1, <2>2, <2>3, <2>4, ShortSpeech DEF GW!StreamStarts, GW!StreamStartFails
  <2>5. CASE GW!StreamEnds
    <3>1. CASE peerConnected  BY <2>1, <2>3, <2>5, <3>1, ShortSpeech DEF GW!StreamEnds
    <3>2. CASE ~peerConnected
      <4>1. GW!Silent
        BY <2>5, <3>2, ConcatEmptySeq DEF GW!StreamEnds, GW!Reply, GW!Silent, TInv, QueuesOK
      <4> QED  BY <4>1, Silence
    <3> QED  BY <3>1, <3>2
  <2> QED  BY <1>11, <2>4, <2>5 DEF GW!Thread
<1> QED  BY <1>4, <1>5, <1>6, <1>7, <1>8, <1>9, <1>10, <1>11 DEF Proceeds

\* These steps keep the invariant.
LEMMA ProceedsKeep ==
    ASSUME TInv, Proceeds, UNCHANGED <<tvView, toGateway>>  PROVE TInv'
<1>1. UNCHANGED tvView /\ TakesRequest  BY DEF TakesRequest
<1>2. GatewayTyped' /\ Stages'  BY ProceedsTyped
<1>3. nextSessionId' \in Nat /\ nextSessionId <= nextSessionId'
  BY ProceedsSay DEF TInv, GatewayTyped
<1>4. TvTyped'  BY <1>1, <1>3, TvPartStays
<1> QED  BY <1>1, <1>2, <1>4, ProceedsSay, SpeechKeeps DEF TInv

\* The offer finds the TV with an id, or behind the messages that bring it.
LEMMA OfferKeeps ==
    ASSUME TInv, GW!RaiseOffer, UNCHANGED <<tvView, toGateway>>  PROVE TInv'
<1>1. PICK m : /\ GW!Reply(<<m>>)
               /\ m = GW!Offer(sessionId) \/ m = GW!SessionStatus("error")
  BY DEF GW!RaiseOffer
<1>2. /\ sessionId # 0 /\ ~offered /\ offered' = TRUE /\ sessionId' = sessionId
      /\ nextSessionId' = nextSessionId /\ nextSessionId \in Nat
      /\ currentSessionId' = currentSessionId /\ sessionState' = sessionState
  BY DEF GW!RaiseOffer, GW!session, tvView, TInv, GatewayTyped
<1>3. m \in TvMessages /\ Plausible(m, nextSessionId) /\ m.sid = sessionId
  <2>1. sessionId \in Nat /\ sessionId < nextSessionId  BY <1>2 DEF TInv, GatewayTyped, Known
  <2> QED  BY <1>1, <1>2, <2>1

                 DEF GW!Offer, GW!SessionStatus, GW!Status, GW!Message, TvMessages, MessageTypes, States, Plausible
<1> DEFINE ms == <<m>>
<1>4. /\ ms \in Seq(TvMessages) /\ Len(ms) = 1 /\ toTv' = toTv \o ms /\ toTv \in Seq(TvMessages)
      /\ \A i \in 1..Len(ms) : ms[i] = m
  BY <1>1, <1>3 DEF GW!Reply, TInv, QueuesOK
<1> HIDE DEF ms
<1>5. /\ QueuesOK'
      /\ \A i \in DOMAIN toTv' : \/ i \in DOMAIN toTv /\ toTv'[i] = toTv[i]
                                 \/ i - Len(toTv) \in 1..Len(ms) /\ toTv'[i] = ms[i - Len(toTv)]
  <2>1. nextSessionId' \in Nat /\ nextSessionId <= nextSessionId' /\ TakesRequest
    BY <1>2 DEF TakesRequest
  <2>2. \A i \in 1..Len(ms) : Plausible(ms[i], nextSessionId')  BY <1>2, <1>3, <1>4
  <2> QED  BY <1>4, <2>1, <2>2, QueuesAfter
<1>6. GatewayTyped' /\ Stages'
  BY <1>2 DEF GW!RaiseOffer, TInv, GatewayTyped, Stages, Known, GW!session
<1>7. TvTyped'  BY <1>2, TvPartStays
<1>8. Answers'  BY <1>2 DEF Answers
<1>9. OffersFindId'
  <2>1. ASSUME NEW i \in DOMAIN toTv', toTv'[i].type = "offer"
        PROVE  IdAfter(toTv', currentSessionId, sessionState, i - 1)
    <3>1. CASE i \in DOMAIN toTv /\ toTv'[i] = toTv[i]
      <4>1. IdAfter(toTv, currentSessionId, sessionState, i - 1)
        BY <3>1, <2>1 DEF TInv, OffersFindId
      <4>2. i - 1 \in 0..Len(toTv)  BY <3>1, <1>4, LenProperties
      <4> QED  BY <4>1, <4>2, <1>4, IdAfterAppend
    <3>2. CASE i - Len(toTv) \in 1..Len(ms)
      <4>1. i - 1 = Len(toTv) /\ Len(toTv) \in 0..Len(toTv)  BY <3>2, <1>4, <2>1, LenProperties
      <4>2. IdAfter(toTv, currentSessionId, sessionState, Len(toTv))
        BY <1>2 DEF TInv, OffersFindId
      <4> QED  BY <4>1, <4>2, <1>4, IdAfterAppend
    <3> QED  BY <3>1, <3>2, <1>5
  <2> QED  BY <1>2, <2>1 DEF OffersFindId
<1>10. IdSettles'
  <2>1. Settles(toTv, currentSessionId, sessionId)  BY <1>2 DEF TInv, IdSettles
  <2>2. \A i \in 1..Len(ms) : ms[i].sid \in {0, sessionId}  BY <1>3, <1>4
  <2> QED  BY <1>2, <1>4, <2>1, <2>2, SettlesAppend DEF IdSettles
<1>11. Shows' /\ Armed' /\ CancelHidesStream'
  BY DEF TInv, tvView, Shows, Armed, CancelHidesStream
<1> QED  BY <1>5, <1>6, <1>7, <1>8, <1>9, <1>10, <1>11 DEF TInv

\* What a new session makes the Gateway say: its id first, and nothing that takes it.
LEMMA NewSessionSays ==
    ASSUME TInv, GW!StartSession
    PROVE  \E ms \in Seq(TvMessages) :
             /\ toTv' = toTv \o ms /\ ms # <<>>
             /\ \A i \in 1..Len(ms) : /\ ms[i].type = "session-status" /\ ms[i].sid = nextSessionId
                                      /\ ms[i].state \in LaunchStates
<1> DEFINE stage(state) == GW!Status(state, sessionId')
           good == {stage("starting"), stage("starting-webrtc"), stage("error"), stage("stopping")}
<1>1. sessionId' = nextSessionId /\ nextSessionId \in Nat
  BY DEF GW!StartSession, TInv, GatewayTyped
<1>2. \A m \in good : /\ m \in TvMessages /\ m.type = "session-status" /\ m.sid = nextSessionId
                      /\ m.state \in LaunchStates
  BY <1>1 DEF GW!Status, GW!Message, TvMessages, MessageTypes, States, LaunchStates
<1>3. \/ toTv' = toTv \o (<<stage("starting"), stage("starting-webrtc")>> \o <<>>)
      \/ toTv' = toTv \o (<<stage("starting"), stage("starting-webrtc")>>
                          \o <<stage("error"), stage("stopping")>>)
  BY DEF GW!StartSession, GW!Reply
<1>4. ASSUME NEW a \in good, NEW b \in good, NEW c \in good, NEW d \in good
      PROVE  /\ <<a, b>> \o <<>> \in Seq(good) /\ <<a, b>> \o <<>> # <<>>
             /\ <<a, b>> \o <<c, d>> \in Seq(good) /\ <<a, b>> \o <<c, d>> # <<>>
  OBVIOUS
<1>5. PICK ms \in Seq(good) : toTv' = toTv \o ms /\ ms # <<>>
  BY <1>3, <1>4
<1>6. \A i \in 1..Len(ms) : ms[i] \in good  BY <1>5, ElementOfSeq
<1>7. ms \in Seq(TvMessages)  BY <1>2, <1>5, SeqMonotonic
<1> QED  BY <1>2, <1>5, <1>6, <1>7

\* startSession: everything still on its way is older than the new session.
LEMMA StartKeeps ==
    ASSUME TInv, GW!StartSession, UNCHANGED <<tvView, toGateway>>  PROVE TInv'
<1>1. PICK ms \in Seq(TvMessages) :
        /\ toTv' = toTv \o ms /\ ms # <<>>
        /\ \A i \in 1..Len(ms) : /\ ms[i].type = "session-status" /\ ms[i].sid = nextSessionId
                                 /\ ms[i].state \in LaunchStates
  BY NewSessionSays
<1>2. /\ sessionId' = nextSessionId /\ nextSessionId' = nextSessionId + 1 /\ offered' = FALSE
      /\ currentSessionId' = currentSessionId /\ sessionState' = sessionState
      /\ answering' = answering /\ nextSessionId \in Nat \ {0} /\ nextSessionId' \in Nat
  BY DEF GW!StartSession, tvView, TInv, GatewayTyped
<1>3. /\ Len(ms) \in Nat \ {0} /\ toTv \in Seq(TvMessages)
      /\ \A i \in DOMAIN toTv : toTv[i].sid < nextSessionId
      /\ \A i \in DOMAIN toGateway : toGateway[i].sid < nextSessionId
      /\ answering < nextSessionId
  BY <1>1, <1>2, EmptySeq DEF TInv, QueuesOK, Plausible, TvTyped, Known
<1>4. \A i \in 1..Len(ms) : Plausible(ms[i], nextSessionId') /\ ~Takes0(ms[i]) /\ Brings(ms[i])
  BY <1>1, <1>2 DEF Plausible, Takes0, Brings, LaunchStates
<1>5. /\ QueuesOK'
      /\ \A i \in DOMAIN toTv' : \/ i \in DOMAIN toTv /\ toTv'[i] = toTv[i]
                                 \/ i - Len(toTv) \in 1..Len(ms) /\ toTv'[i] = ms[i - Len(toTv)]
      /\ \A i \in DOMAIN toGateway' : \E j \in DOMAIN toGateway : toGateway'[i] = toGateway[j]
  <2>1. nextSessionId <= nextSessionId' /\ TakesRequest  BY <1>2 DEF TakesRequest
  <2> QED  BY <1>1, <1>2, <1>4, <2>1, QueuesAfter
<1>6. GatewayTyped' /\ Stages'
  <2>1. serving' \in ServingStates /\ serving'.pc \in {"idle", "stop"}
    BY GotoTyped, DoneTyped DEF GW!StartSession, TInv
  <2>2. sessionId' \in Known'  BY <1>2 DEF Known
  <2>3. app' \in MaybeApps /\ hostApp' \in MaybeApps
    BY DEF GW!StartSession, TInv, GatewayTyped, ServingStates
  <2>4. /\ answered' = FALSE /\ peerConnected' = FALSE /\ stream' = "waiting"
        /\ stopRequested' \in BOOLEAN
    BY DEF GW!StartSession
  <2>5. nextSessionId' \in Nat \ {0}  BY <1>2
  <2>6. /\ offered' \in BOOLEAN /\ answered' \in BOOLEAN /\ peerConnected' \in BOOLEAN
        /\ stream' \in {"none", "waiting", "starting", "streaming", "ending", "over"}
    BY <1>2, <2>4
  <2>7. GatewayTyped'  BY <2>1, <2>2, <2>3, <2>4, <2>5, <2>6 DEF GatewayTyped
  <2> QED  BY <1>2, <2>1, <2>4, <2>7 DEF Stages
<1>7. TvTyped'  BY <1>2, TvPartStays
<1>8. Answers'
  <2>1. \A i \in DOMAIN toTv' : toTv'[i].type = "offer" => toTv'[i].sid # nextSessionId
    BY <1>1, <1>2, <1>3, <1>5
  <2>2. \A i \in DOMAIN toGateway' : toGateway'[i].sid # nextSessionId
    BY <1>2, <1>3, <1>5
  <2> QED  BY <1>2, <1>3, <2>1, <2>2 DEF Answers
<1>9. OffersFindId'
  <2>1. ASSUME NEW i \in DOMAIN toTv', toTv'[i].type = "offer"
        PROVE  IdAfter(toTv', currentSessionId, sessionState, i - 1)
    <3>1. i \in DOMAIN toTv /\ toTv'[i] = toTv[i]  BY <1>1, <1>5, <2>1
    <3>2. IdAfter(toTv, currentSessionId, sessionState, i - 1)
      BY <3>1, <2>1 DEF TInv, OffersFindId
    <3>3. i - 1 \in 0..Len(toTv)  BY <3>1, <1>3, LenProperties
    <3> QED  BY <3>2, <3>3, <1>1, <1>3, IdAfterAppend
  <2>2. IdAfter(toTv', currentSessionId, sessionState, Len(toTv'))
    <3>1. Brings(ms[1]) /\ \A i \in 2..Len(ms) : ~Takes0(ms[i])  BY <1>3, <1>4
    <3> QED  BY <3>1, <1>1, <1>3, IdAfterBrought
  <2> QED  BY <1>2, <2>1, <2>2 DEF OffersFindId
<1>10. IdSettles'
  <2>1. ms[1].type = "session-status" /\ ms[1].sid = nextSessionId
        /\ \A i \in 1..Len(ms) : ms[i].sid \in {0, nextSessionId}
    BY <1>1, <1>3
  <2>2. Settles(toTv \o ms, currentSessionId, nextSessionId)  BY <2>1, <1>1, <1>3, SettlesNew
  <2> QED  BY <1>1, <1>2, <2>2 DEF IdSettles
<1>11. Shows' /\ Armed' /\ CancelHidesStream'
  BY DEF TInv, tvView, Shows, Armed, CancelHidesStream
<1> QED  BY <1>5, <1>6, <1>7, <1>8, <1>9, <1>10, <1>11 DEF TInv

\* Every step of the Gateway keeps the invariant.
LEMMA GatewayKeeps ==
    ASSUME TInv, GatewayReceives \/ GatewayServes \/ GatewayStreams \/ GatewayOther  PROVE TInv'
<1>1. CASE GatewayReceives  BY <1>1, ReceivesKeep
<1>2. CASE GatewayServes \/ GatewayStreams \/ GatewayOther
  <2>1. /\ UNCHANGED <<tvView, toGateway>>
        /\ GW!Serving \/ GW!Thread \/ GW!WebRtc \/ GW!Host
    BY <1>2 DEF GatewayServes, GatewayStreams, GatewayOther, Gateway
  <2>2. Proceeds \/ GW!StartSession \/ GW!RaiseOffer
    BY <2>1 DEF Proceeds, GW!Serving, GW!WebRtc
  <2> QED  BY <2>1, <2>2, ProceedsKeep, StartKeeps, OfferKeeps
<1> QED  BY <1>1, <1>2
-----------------------------------------------------------------------------
(***************************************************************************)
(* The TV's steps                                                          *)
(***************************************************************************)
\* What a step of the TV asks for; its answers are to the offer it awaits on.
Asks(rs) ==
    /\ rs \in Seq(Requests) /\ toGateway' = toGateway \o rs
    /\ \A i \in 1..Len(rs) : rs[i].sid \in {0, answering}
                             /\ (rs[i].type = "answer" => rs[i].sid = answering)

SomeAsked == \E rs : Asks(rs)

\* How the TV's id may change, in a step by itself and in one that handles a message.
KeepsId ==
    /\ toTv' = toTv
    /\ Holds(currentSessionId, sessionState) => Holds(currentSessionId', sessionState')
    /\ currentSessionId' \in {0, currentSessionId} /\ answering' \in {0, answering}

TakesId(m) ==
    /\ Brings(m) \/ (Holds(currentSessionId, sessionState) /\ ~Takes0(m))
         => Holds(currentSessionId', sessionState')
    /\ currentSessionId' \in {0, currentSessionId, m.sid}
    /\ m.type = "session-status" /\ m.sid # 0 => currentSessionId' \in {0, m.sid}
    /\ answering' \in {0, answering} \/ (m.type = "offer" /\ answering' = m.sid)

\* The part of the invariant that is about the TV alone.
TvInv == TvTyped /\ Shows /\ Armed /\ CancelHidesStream

\* What is asked for arrives behind what was asked before.
LEMMA AskedQueue ==
    ASSUME TInv, UNCHANGED nextSessionId, SomeAsked
    PROVE  /\ toGateway' \in Seq(Requests)
           /\ \A i \in DOMAIN toGateway' :
                /\ toGateway'[i].sid < nextSessionId'
                /\ \/ \E j \in DOMAIN toGateway : toGateway'[i] = toGateway[j]
                   \/ toGateway'[i].type = "answer" => toGateway'[i].sid = answering
<1>1. PICK rs : Asks(rs)  BY DEF SomeAsked
<1>2. /\ toGateway \in Seq(Requests) /\ \A i \in DOMAIN toGateway : toGateway[i].sid < nextSessionId
      /\ answering < nextSessionId /\ 0 < nextSessionId
  BY DEF TInv, QueuesOK, TvTyped, GatewayTyped, Known
<1>3. /\ toGateway' \in Seq(Requests)
      /\ \A i \in DOMAIN toGateway' :
           \/ i \in DOMAIN toGateway /\ toGateway'[i] = toGateway[i]
           \/ \E j \in 1..Len(rs) : toGateway'[i] = rs[j]
  <2>1. rs \in Seq(Requests) /\ toGateway' = toGateway \o rs  BY <1>1 DEF Asks
  <2>2. /\ toGateway' \in Seq(Requests) /\ Len(toGateway') = Len(toGateway) + Len(rs)
        /\ \A i \in 1..Len(toGateway) + Len(rs) :
             toGateway'[i] = IF i <= Len(toGateway) THEN toGateway[i] ELSE rs[i - Len(toGateway)]
    BY <1>2, <2>1, ConcatProperties
  <2>3. /\ Len(toGateway) \in Nat /\ DOMAIN toGateway = 1..Len(toGateway)
        /\ Len(rs) \in Nat /\ DOMAIN toGateway' = 1..Len(toGateway')
    BY <1>2, <2>1, <2>2, LenProperties
  <2>4. ASSUME NEW i \in DOMAIN toGateway'
        PROVE  \/ i \in DOMAIN toGateway /\ toGateway'[i] = toGateway[i]
               \/ \E j \in 1..Len(rs) : toGateway'[i] = rs[j]
    <3>1. CASE i <= Len(toGateway)  BY <2>2, <2>3, <3>1
    <3>2. CASE i > Len(toGateway)
      <4>1. i - Len(toGateway) \in 1..Len(rs) /\ toGateway'[i] = rs[i - Len(toGateway)]
        BY <2>2, <2>3, <3>2
      <4> QED  BY <4>1
    <3> QED  BY <2>3, <3>1, <3>2
  <2> QED  BY <2>2, <2>4
<1>4. \A j \in 1..Len(rs) : /\ rs[j].sid < nextSessionId
                            /\ rs[j].type = "answer" => rs[j].sid = answering
  BY <1>1, <1>2 DEF Asks
<1> QED  BY <1>2, <1>3, <1>4

\* Both queues after a step of the TV.
LEMMA TvStepKeeps ==
    ASSUME TInv, UNCHANGED gateway, SomeAsked, TvInv',
           KeepsId \/ (toTv # <<>> /\ toTv' = Tail(toTv) /\ TakesId(Head(toTv)))
    PROVE  TInv'
<1>1. /\ sessionId' = sessionId /\ offered' = offered /\ nextSessionId' = nextSessionId
      /\ GatewayTyped' /\ Stages'
  BY DEF gateway, TInv, GatewayTyped, Stages, Known
<1>2. /\ toGateway' \in Seq(Requests)
      /\ \A i \in DOMAIN toGateway' :
           /\ toGateway'[i].sid < nextSessionId'
           /\ \/ \E j \in DOMAIN toGateway : toGateway'[i] = toGateway[j]
              \/ toGateway'[i].type = "answer" => toGateway'[i].sid = answering
  BY <1>1, AskedQueue
<1>3. toTv \in Seq(TvMessages) /\ \A i \in DOMAIN toTv : Plausible(toTv[i], nextSessionId)
  BY DEF TInv, QueuesOK
<1>4. sessionId \in Nat  BY DEF TInv, GatewayTyped, Known
<1>5. QueuesOK' /\ Answers' /\ OffersFindId' /\ IdSettles'
  <2>1. CASE KeepsId
    <3>1. QueuesOK'  BY <1>1, <1>2, <1>3, <2>1 DEF QueuesOK, KeepsId
    <3>2. Answers'  BY <1>1, <1>2, <2>1 DEF TInv, Answers, KeepsId
    <3>3. ASSUME NEW k, IdAfter(toTv, currentSessionId, sessionState, k)
          PROVE  IdAfter(toTv, currentSessionId', sessionState', k)
      BY <2>1, <3>3, IdAfterMono DEF KeepsId
    <3>4. OffersFindId'  BY <1>1, <2>1, <3>3 DEF TInv, OffersFindId, KeepsId
    <3>5. IdSettles'  BY <1>1, <2>1 DEF TInv, IdSettles, Settles, KeepsId
    <3> QED  BY <3>1, <3>2, <3>4, <3>5
  <2>2. CASE toTv # <<>> /\ toTv' = Tail(toTv) /\ TakesId(Head(toTv))
    <3> DEFINE m == Head(toTv)
    <3>1. /\ m = toTv[1] /\ 1 \in DOMAIN toTv /\ m \in TvMessages /\ toTv' \in Seq(TvMessages)
          /\ \A i \in DOMAIN toTv' : i + 1 \in DOMAIN toTv /\ toTv'[i] = toTv[i + 1]
      BY <1>3, <2>2, TailElements
    <3>2. /\ Len(toTv) \in Nat \ {0} /\ DOMAIN toTv = 1..Len(toTv) /\ Len(toTv') = Len(toTv) - 1
          /\ DOMAIN toTv' = 1..Len(toTv')
      BY <1>3, <2>2, <3>1, LenProperties, EmptySeq, HeadTailProperties
    <3>3. QueuesOK'  BY <1>1, <1>2, <1>3, <3>1 DEF QueuesOK
    <3>4. Answers'
      <4>1. ASSUME sessionId # 0, ~offered  PROVE answering' # sessionId
        BY <1>4, <2>2, <3>1, <4>1 DEF TInv, Answers, TakesId
      <4> QED  BY <1>1, <1>2, <3>1, <4>1 DEF TInv, Answers
    <3>5. ASSUME NEW k \in 1..Len(toTv), IdAfter(toTv, currentSessionId, sessionState, k)
          PROVE  IdAfter(toTv', currentSessionId', sessionState', k - 1)
      BY <1>3, <2>2, <3>5, IdAfterTail DEF TakesId
    <3>6. OffersFindId'
      <4>1. ASSUME NEW i \in DOMAIN toTv', toTv'[i].type = "offer"
            PROVE  IdAfter(toTv', currentSessionId', sessionState', i - 1)
        <5>1. IdAfter(toTv, currentSessionId, sessionState, (i + 1) - 1)
          BY <3>1, <4>1 DEF TInv, OffersFindId
        <5>2. i \in 1..Len(toTv) /\ (i + 1) - 1 = i  BY <3>2, <4>1
        <5> QED  BY <3>5, <5>1, <5>2
      <4>2. ASSUME sessionId # 0, ~offered
            PROVE  IdAfter(toTv', currentSessionId', sessionState', Len(toTv'))
        <5>1. IdAfter(toTv, currentSessionId, sessionState, Len(toTv))
          BY <4>2 DEF TInv, OffersFindId
        <5>2. Len(toTv) \in 1..Len(toTv)  BY <3>2
        <5> QED  BY <3>2, <3>5, <5>1, <5>2
      <4> QED  BY <1>1, <4>1, <4>2 DEF OffersFindId
    <3>7. IdSettles'
      <4>1. SUFFICES ASSUME sessionId # 0
                     PROVE  Settles(toTv', currentSessionId', sessionId)
        BY <1>1 DEF IdSettles
      <4>2. Settles(toTv, currentSessionId, sessionId)  BY <4>1 DEF TInv, IdSettles
      <4> QED  BY <1>3, <1>4, <2>2, <4>1, <4>2, SettlesTail DEF TakesId
    <3> QED  BY <3>3, <3>4, <3>6, <3>7
  <2> QED  BY <2>1, <2>2
<1> QED  BY <1>1, <1>5 DEF TInv, TvInv

\* Requests without a session id.
Plain == {r \in Requests : r.sid = 0 /\ r.type # "answer"}

\* All the TV's requests but its answers.
LEMMA PlainRequests ==
    /\ TV!StopSession \in Plain /\ TV!StopHostSession \in Plain /\ TV!GetApps \in Plain
    /\ \A type \in Starts, a \in Apps, c \in AnyCodec : TV!Request(type, a, c) \in Plain
<1> USE DEF Plain, TV!Request, Requests, RequestTypes, MaybeApps, AnyCodec, Named, Starts
<1>1. TV!StopSession \in Plain /\ TV!StopHostSession \in Plain /\ TV!GetApps \in Plain
  BY DEF TV!StopSession, TV!StopHostSession, TV!GetApps
<1>2. ASSUME NEW type \in Starts, NEW a \in Apps, NEW c \in AnyCodec
      PROVE  TV!Request(type, a, c) \in Plain
  BY <1>2
<1> QED  BY <1>1, <1>2

\* Sending such requests.
LEMMA PlainAsked ==
    ASSUME NEW rs \in Seq(Plain), TV!SendRequests(rs)  PROVE SomeAsked
<1>1. rs \in Seq(Requests) /\ \A i \in 1..Len(rs) : rs[i] \in Plain
  BY SeqMonotonic, ElementOfSeq DEF Plain
<1>2. Asks(rs)  BY <1>1 DEF Asks, Plain, TV!SendRequests
<1> QED  BY <1>2 DEF SomeAsked

\* Sending nothing.
LEMMA NothingAsked == ASSUME TInv, TV!SendNothing  PROVE SomeAsked
<1>1. /\ toGateway \in Seq(Requests) /\ <<>> \in Seq(Requests) /\ Len(<<>>) = 0
      /\ toGateway' = toGateway \o <<>>
  BY EmptySeq, ConcatEmptySeq DEF TInv, QueuesOK, TV!SendNothing
<1>2. Asks(<<>>)  BY <1>1 DEF Asks
<1> QED  BY <1>2 DEF SomeAsked

\* The cancellation that waits for an id is such a request, or nothing.
LEMMA CancellationPlain ==
    ASSUME NEW sid  PROVE TV!Cancellation(sid) \in Seq(Plain)
BY PlainRequests DEF TV!Cancellation

\* What a status with stream settings selects is an application or none.
LEMMA SelectedTyped ==
    ASSUME TInv, NEW sid  PROVE TV!Selected(sid) \subseteq MaybeApps
BY DEF TV!Selected, TV!TargetApps, TInv, TvTyped, MaybeApps

\* The id a status carries has been given out.
LEMMA AdoptedKnown ==
    ASSUME TInv, NEW sid \in Known, UNCHANGED nextSessionId
    PROVE  TV!Adopted(sid) \in Known'
BY DEF TV!Adopted, TInv, TvTyped, Known

\* No session is always known.
LEMMA ZeroKnown == ASSUME TInv, UNCHANGED nextSessionId  PROVE 0 \in Known'
BY DEF TInv, GatewayTyped, Known

\* handleSessionStatus: the stages of a launch.
LEMMA StageKeeps ==
    ASSUME TInv, NEW sid \in Known, NEW state, state # "streaming", UNCHANGED nextSessionId,
           TV!HandleStage(state, sid)
    PROVE  /\ TvInv' /\ SomeAsked
           /\ currentSessionId' = TV!Adopted(sid) /\ answering' = answering
           /\ sessionState' # "streaming"
<1>1. TvTyped /\ Shows /\ Armed /\ CancelHidesStream  BY DEF TInv
<1>2. /\ currentSessionId' = TV!Adopted(sid) /\ currentSessionId' \in Known'
      /\ selectedApp' \in MaybeApps
  BY AdoptedKnown, SelectedTyped DEF TV!HandleStage
<1>3. sessionState' # "streaming"  BY DEF TV!HandleStage, TV!StateAfter
<1>4. cancelSent' \in BOOLEAN /\ busy' \in BOOLEAN  BY DEF TV!HandleStage
<1>5. TvTyped'  BY <1>1, <1>2, <1>4 DEF TvTyped, Known, TV!HandleStage
<1>6. Shows' /\ Armed' /\ CancelHidesStream'
  BY <1>1, <1>3 DEF Shows, Armed, CancelHidesStream, TV!HandleStage, TV!CancelsNow
<1>7. SomeAsked  BY CancellationPlain, PlainAsked DEF TV!HandleStage
<1> QED  BY <1>2, <1>3, <1>5, <1>6, <1>7 DEF TvInv, TV!HandleStage

\* handleSessionStatus: "streaming".
LEMMA StreamingKeeps ==
    ASSUME TInv, NEW sid \in Known, sid # 0, UNCHANGED nextSessionId, TV!HandleStreaming(sid)
    PROVE  TvInv' /\ SomeAsked /\ currentSessionId' = sid /\ answering' = answering
<1>1. TvTyped /\ Shows /\ Armed /\ CancelHidesStream  BY DEF TInv
<1>2. /\ currentSessionId' = sid /\ currentSessionId' \in Known' /\ selectedApp' \in MaybeApps
  BY AdoptedKnown, SelectedTyped DEF TV!HandleStreaming, TV!Adopted
<1>3. cancelSent' \in BOOLEAN /\ busy' \in BOOLEAN /\ cancelRequested' \in BOOLEAN
  BY <1>1 DEF TvTyped, TV!HandleStreaming
<1>4. TvTyped'  BY <1>1, <1>2, <1>3 DEF TvTyped, Known, TV!HandleStreaming
<1>5. Shows' /\ Armed' /\ CancelHidesStream'
  BY <1>1, <1>2 DEF Shows, Armed, CancelHidesStream, TV!HandleStreaming, TV!CancelsNow
<1>6. SomeAsked  BY CancellationPlain, PlainAsked DEF TV!HandleStreaming
<1> QED  BY <1>2, <1>4, <1>5, <1>6 DEF TvInv, TV!HandleStreaming

\* handleSessionStatus: "idle".
LEMMA IdleKeeps ==
    ASSUME TInv, NEW sid \in Known, UNCHANGED nextSessionId, TV!HandleIdle(sid)
    PROVE  TvInv' /\ SomeAsked /\ currentSessionId' = 0 /\ answering' = 0
<1>1. TvTyped /\ Shows /\ Armed /\ CancelHidesStream  BY DEF TInv
<1>2. currentSessionId' = 0 /\ answering' = 0 /\ peerConnection' = 0 /\ 0 \in Known'
  BY ZeroKnown DEF TV!HandleIdle, TV!ClosePeerConnection
<1>3. selectedApp' \in MaybeApps  BY SelectedTyped DEF TV!HandleIdle
<1>4. TvTyped'  BY <1>1, <1>2, <1>3 DEF TvTyped, Known, TV!HandleIdle
<1>5. Shows' /\ Armed' /\ CancelHidesStream'
  BY DEF Shows, Armed, CancelHidesStream, TV!HandleIdle, TV!StateAfter
<1>6. SomeAsked
  <2>1. TV!Cancellation(sid) \o <<TV!GetApps>> \in Seq(Plain)
    BY CancellationPlain, PlainRequests, ConcatProperties
  <2> QED  BY <2>1, CancellationPlain, PlainAsked DEF TV!HandleIdle
<1> QED  BY <1>2, <1>4, <1>5, <1>6 DEF TvInv

\* handleSessionStatus: "codec-unsupported", and a black AV1 stream.
LEMMA CodecUnsupportedKeeps ==
    ASSUME TInv, NEW sid \in Known, UNCHANGED nextSessionId, TV!HandleCodecUnsupported(sid)
    PROVE  TvInv' /\ SomeAsked /\ currentSessionId' = 0 /\ answering' = 0
<1>1. TvTyped /\ Shows /\ Armed /\ CancelHidesStream  BY DEF TInv
<1>2. currentSessionId' = 0 /\ answering' = 0 /\ peerConnection' = 0 /\ 0 \in Known'
  BY ZeroKnown DEF TV!HandleCodecUnsupported, TV!ClosePeerConnection
<1>3. selectedApp' \in MaybeApps  BY SelectedTyped DEF TV!HandleCodecUnsupported
<1>4. TvTyped'  BY <1>1, <1>2, <1>3 DEF TvTyped, Known, TV!HandleCodecUnsupported
<1>5. Shows' /\ Armed' /\ CancelHidesStream'
  BY DEF Shows, Armed, CancelHidesStream, TV!HandleCodecUnsupported, TV!StateAfter
<1>6. SomeAsked
  <2> DEFINE again == TV!Request("start-session", selectedApp', "hevc")
  <2>1. selectedApp' # NoApp => again \in Plain
    BY <1>3, PlainRequests DEF AnyCodec, MaybeApps, Starts
  <2>2. selectedApp' # NoApp => Append(TV!Cancellation(sid), again) \in Seq(Plain)
    BY <2>1, CancellationPlain, AppendProperties
  <2> QED  BY <2>2, CancellationPlain, PlainAsked DEF TV!HandleCodecUnsupported
<1> QED  BY <1>2, <1>4, <1>5, <1>6 DEF TvInv

\* handleSessionStatus: "error".
LEMMA SessionErrorKeeps ==
    ASSUME TInv, NEW sid \in Known, UNCHANGED nextSessionId, TV!HandleSessionError(sid)
    PROVE  /\ TvInv' /\ SomeAsked
           /\ currentSessionId' = TV!Adopted(sid) /\ answering' = answering
           /\ sessionState' # "streaming"
<1>1. TvTyped /\ Shows /\ Armed /\ CancelHidesStream  BY DEF TInv
<1>2. /\ currentSessionId' = TV!Adopted(sid) /\ currentSessionId' \in Known'
      /\ selectedApp' \in MaybeApps
  BY AdoptedKnown, SelectedTyped DEF TV!HandleSessionError
<1>3. sessionState' # "streaming"  BY DEF TV!HandleSessionError, TV!StateAfter
<1>4. TvTyped'  BY <1>1, <1>2 DEF TvTyped, Known, TV!HandleSessionError
<1>5. Shows' /\ Armed' /\ CancelHidesStream'
  BY <1>3 DEF Shows, Armed, CancelHidesStream, TV!HandleSessionError
<1>6. SomeAsked
  <2> DEFINE stop == IF currentSessionId' # 0 THEN <<TV!StopSession>> ELSE <<>>
  <2>1. stop \in Seq(Plain)  BY PlainRequests
  <2>2. TV!Cancellation(sid) \o stop \in Seq(Plain)
    BY <2>1, CancellationPlain, ConcatProperties
  <2> QED  BY <2>2, PlainAsked DEF TV!HandleSessionError
<1> QED  BY <1>2, <1>3, <1>5, <1>4, <1>6 DEF TvInv, TV!HandleSessionError

\* The error message.
LEMMA GatewayErrorKeeps ==
    ASSUME TInv, UNCHANGED nextSessionId, TV!HandleGatewayError
    PROVE  /\ TvInv' /\ SomeAsked /\ UNCHANGED <<currentSessionId, answering>>
           /\ sessionState # "streaming" => sessionState' # "streaming"
<1>1. TvTyped /\ Shows /\ Armed /\ CancelHidesStream  BY DEF TInv
<1>2. /\ UNCHANGED <<currentSessionId, answering>>
      /\ sessionState # "streaming" => sessionState' # "streaming"
      /\ SomeAsked
  BY NothingAsked DEF TV!HandleGatewayError, TV!web
<1>3. TvTyped'
  BY <1>1 DEF TvTyped, Known, TV!HandleGatewayError, TV!web, TV!launch, TV!host
<1>4. Shows' /\ Armed' /\ CancelHidesStream'
  BY <1>1 DEF Shows, Armed, CancelHidesStream, TV!HandleGatewayError, TV!web, TV!launch
<1> QED  BY <1>2, <1>3, <1>4 DEF TvInv

\* host-session-status.
LEMMA HostStatusKeeps ==
    ASSUME TInv, UNCHANGED nextSessionId, NEW state, TV!HandleHostSessionStatus(state)
    PROVE  TvInv' /\ SomeAsked /\ UNCHANGED <<currentSessionId, answering, sessionState>>
<1>1. TvTyped /\ Shows /\ Armed /\ CancelHidesStream  BY DEF TInv
<1>2. SomeAsked
  <2>1. <<TV!GetApps>> \in Seq(Plain) /\ <<>> \in Seq(Plain)  BY PlainRequests
  <2> QED  BY <2>1, PlainAsked DEF TV!HandleHostSessionStatus
<1>3. TvTyped'
  BY <1>1 DEF TvTyped, Known, MaybeApps, TV!HandleHostSessionStatus, TV!web, TV!launch
<1>4. Shows' /\ Armed' /\ CancelHidesStream'
  BY <1>1 DEF Shows, Armed, CancelHidesStream, TV!HandleHostSessionStatus, TV!web, TV!launch
<1> QED  BY <1>2, <1>3, <1>4 DEF TvInv, TV!HandleHostSessionStatus, TV!web

\* gateway-status and apps.
LEMMA RunningKeeps ==
    ASSUME TInv, UNCHANGED nextSessionId, NEW a \in MaybeApps, TV!HandleRunning(a)
    PROVE  TvInv' /\ SomeAsked /\ UNCHANGED <<currentSessionId, answering, sessionState>>
<1>1. TvTyped /\ Shows /\ Armed /\ CancelHidesStream  BY DEF TInv
<1>2. SomeAsked  BY NothingAsked DEF TV!HandleRunning
<1>3. TvTyped'
  BY <1>1 DEF TvTyped, Known, TV!HandleRunning, TV!web, TV!launch
<1>4. Shows' /\ Armed' /\ CancelHidesStream'
  BY <1>1 DEF Shows, Armed, CancelHidesStream, TV!HandleRunning, TV!web, TV!launch
<1> QED  BY <1>2, <1>3, <1>4 DEF TvInv, TV!HandleRunning, TV!web

\* An offer finds the TV with an id, so no cancellation waits for one.
LEMMA OfferTaken ==
    ASSUME TInv, UNCHANGED nextSessionId, NEW sid \in Known, sid # 0, currentSessionId # 0,
           TV!HandleOffer(sid)
    PROVE  /\ TvInv' /\ SomeAsked /\ sessionState' = sessionState /\ answering' = sid
           /\ currentSessionId' \in {currentSessionId, sid}
<1>1. TvTyped /\ Shows /\ Armed /\ CancelHidesStream  BY DEF TInv
<1>2. /\ currentSessionId' \in {currentSessionId, sid} /\ peerConnection' \in {peerConnection, sid}
      /\ answering' = sid /\ SomeAsked /\ sessionState' = sessionState
  BY NothingAsked DEF TV!HandleOffer
<1>3. TvTyped'
  BY <1>1, <1>2 DEF TvTyped, Known, TV!HandleOffer, TV!launch, TV!host
<1>4. Shows' /\ Armed' /\ CancelHidesStream'
  BY <1>1, <1>2 DEF Shows, Armed, CancelHidesStream, TV!HandleOffer, TV!launch
<1> QED  BY <1>2, <1>3, <1>4 DEF TvInv

\* Handling the first message on its way keeps the invariant.
LEMMA TvReceivesKeeps ==
    ASSUME TInv, TvReceives  PROVE TInv'
<1> DEFINE m == Head(toTv)
<1>1. /\ toTv # <<>> /\ toTv' = Tail(toTv) /\ UNCHANGED gateway /\ UNCHANGED nextSessionId
      /\ TV!Handle(m)
  BY DEF TvReceives, gateway
<1>2. /\ m = toTv[1] /\ 1 \in DOMAIN toTv /\ m \in TvMessages /\ Plausible(m, nextSessionId)
  BY <1>1, TailElements DEF TInv, QueuesOK
<1>3. m.sid \in Known  BY <1>2 DEF Plausible, TvMessages, TInv, GatewayTyped, Known
<1> HIDE DEF m
<1>4. TvInv' /\ SomeAsked /\ TakesId(m)
  <2>1. CASE m.type = "session-status"
    <3>1. TV!HandleSessionStatus(m.state, m.sid)  BY <1>1, <2>1 DEF TV!Handle
    <3>2. m.sid \in Nat  BY <1>2 DEF TvMessages
    <3>3. CASE m.state = "streaming"
      <4>1. m.sid # 0 /\ TV!HandleStreaming(m.sid)
        BY <1>2, <2>1, <3>1, <3>3 DEF Plausible, TV!HandleSessionStatus
      <4> QED  BY <1>1, <1>3, <2>1, <3>3, <4>1, StreamingKeeps DEF TakesId, Brings, Takes0
    <3>4. CASE m.state = "idle"
      <4>1. TV!HandleIdle(m.sid)  BY <3>1, <3>4 DEF TV!HandleSessionStatus
      <4> QED  BY <1>1, <1>3, <2>1, <3>4, <4>1, IdleKeeps DEF TakesId, Brings, Takes0
    <3>5. CASE m.state = "codec-unsupported"
      <4>1. TV!HandleCodecUnsupported(m.sid)  BY <3>1, <3>5 DEF TV!HandleSessionStatus
      <4> QED  BY <1>1, <1>3, <2>1, <3>5, <4>1, CodecUnsupportedKeeps
         DEF TakesId, Brings, Takes0
    <3>6. CASE m.state \notin {"streaming", "idle", "codec-unsupported"}
      <4>1. /\ TvInv' /\ SomeAsked /\ currentSessionId' = TV!Adopted(m.sid)
            /\ answering' = answering /\ sessionState' # "streaming"
        <5>1. TV!HandleSessionError(m.sid) \/ TV!HandleStage(m.state, m.sid)
          BY <3>1, <3>6 DEF TV!HandleSessionStatus
        <5> QED  BY <1>1, <1>3, <3>6, <5>1, SessionErrorKeeps, StageKeeps
      <4> QED  BY <2>1, <4>1 DEF TakesId, Brings, Takes0, Holds, TV!Adopted
    <3> QED  BY <3>3, <3>4, <3>5, <3>6
  <2>2. CASE m.type = "host-session-status"
    <3>1. TV!HandleHostSessionStatus(m.state)  BY <1>1, <2>2 DEF TV!Handle
    <3> QED  BY <1>1, <2>2, <3>1, HostStatusKeeps DEF TakesId, Brings, Holds
  <2>3. CASE m.type = "error"
    <3>1. TV!HandleGatewayError  BY <1>1, <2>3 DEF TV!Handle
    <3> QED  BY <1>1, <2>3, <3>1, GatewayErrorKeeps DEF TakesId, Brings, Holds
  <2>4. CASE m.type = "offer"
    <3>1. TV!HandleOffer(m.sid) /\ m.sid # 0  BY <1>1, <1>2, <2>4 DEF TV!Handle, Plausible
    <3>2. Holds(currentSessionId, sessionState)
      <4>1. IdAfter(toTv, currentSessionId, sessionState, 1 - 1)
        BY <1>2, <2>4 DEF TInv, OffersFindId
      <4>2. \A j \in 1..1 - 1 : FALSE  OBVIOUS
      <4> QED  BY <4>1, <4>2 DEF IdAfter
    <3> QED  BY <1>1, <1>3, <2>4, <3>1, <3>2, OfferTaken DEF TakesId, Brings, Holds
  <2>5. CASE m.type \in {"gateway-status", "apps"}
    <3>1. TV!HandleRunning(m.state) /\ m.state \in MaybeApps
      BY <1>1, <1>2, <2>5 DEF TV!Handle, Plausible
    <3> QED  BY <1>1, <2>5, <3>1, RunningKeeps DEF TakesId, Brings, Holds
  <2> QED  BY <1>2, <2>1, <2>2, <2>3, <2>4, <2>5 DEF TvMessages, MessageTypes
<1> QED  BY <1>1, <1>4, TvStepKeeps DEF m

\* What the user does keeps the invariant.
LEMMA UserKeeps ==
    ASSUME TInv, UserActs  PROVE TInv'
<1>1. UNCHANGED gateway /\ UNCHANGED nextSessionId /\ toTv' = toTv /\ TV!User
  BY DEF UserActs, gateway
<1>2. TvTyped /\ Shows /\ Armed /\ CancelHidesStream  BY DEF TInv
<1>3. UNCHANGED <<currentSessionId, peerConnection, answering>>
  BY <1>1
     DEF TV!User, TV!LaunchApplication, TV!ConfirmSwitch, TV!ChangeSettings, TV!CancelLaunch,
              TV!StopStream, TV!StopHostFromStream, TV!StopRunningApplication, TV!web
<1>4. sessionState' \in {sessionState, "starting", "stopping"}
  BY <1>1
     DEF TV!User, TV!LaunchApplication, TV!ConfirmSwitch, TV!ChangeSettings, TV!CancelLaunch,
              TV!StopStream, TV!StopHostFromStream, TV!StopRunningApplication
<1>5. Shows'  BY <1>2, <1>3, <1>4 DEF Shows
<1>6. Armed' /\ CancelHidesStream'
  <2>1. CASE \E a \in Apps, c \in Codecs : TV!LaunchApplication(a, c)
    BY <2>1 DEF TV!LaunchApplication, Armed, CancelHidesStream
  <2>2. CASE TV!CancelLaunch
    BY <1>2, <1>3, <2>2 DEF TV!CancelLaunch, Armed, CancelHidesStream
  <2>3. ASSUME UNCHANGED <<currentSessionId, cancelRequested, cancelSent>>,
               screen' \in {screen, "home"}
        PROVE  Armed' /\ CancelHidesStream'
    BY <1>2, <2>3 DEF Armed, CancelHidesStream
  <2>4. CASE (\E a \in Apps, c \in Codecs : TV!ConfirmSwitch(a, c) \/ TV!ChangeSettings(a, c))
             \/ TV!StopStream \/ TV!StopHostFromStream \/ TV!StopRunningApplication
    <3>1. UNCHANGED <<cancelRequested, cancelSent>> /\ screen' \in {screen, "home"}
      BY <2>4 DEF TV!ConfirmSwitch, TV!ChangeSettings, TV!StopStream, TV!StopHostFromStream,
                  TV!StopRunningApplication, TV!launch
    <3> QED  BY <1>3, <2>3, <3>1
  <2> QED  BY <1>1, <2>1, <2>2, <2>4 DEF TV!User
<1>7. TvTyped'
  BY <1>1, <1>2, <1>3
     DEF TV!User, TV!LaunchApplication, TV!ConfirmSwitch, TV!ChangeSettings, TV!CancelLaunch,
         TV!StopStream, TV!StopHostFromStream, TV!StopRunningApplication, TV!launch, TV!host,
         TvTyped, Known, MaybeApps
<1>8. SomeAsked
  <2>1. ASSUME NEW r \in Plain, TV!SendRequests(<<r>>)  PROVE SomeAsked
    <3>1. <<r>> \in Seq(Plain)  OBVIOUS
    <3> QED  BY <2>1, <3>1, PlainAsked
  <2>2. \A c \in Codecs : c \in AnyCodec  BY DEF AnyCodec
  <2>3. CASE \E a \in Apps, c \in Codecs :
               TV!LaunchApplication(a, c) \/ TV!ConfirmSwitch(a, c) \/ TV!ChangeSettings(a, c)
    <3>1. PICK type \in Starts, a \in Apps, c \in AnyCodec :
            TV!SendRequests(<<TV!Request(type, a, c)>>)
      BY <2>2, <2>3 DEF TV!LaunchApplication, TV!ConfirmSwitch, TV!ChangeSettings, Starts
    <3> QED  BY <2>1, <3>1, PlainRequests
  <2>4. CASE TV!CancelLaunch \/ TV!StopStream \/ TV!StopHostFromStream \/ TV!StopRunningApplication
    <3>1. TV!SendNothing \/ TV!SendRequests(<<TV!StopSession>>)
          \/ TV!SendRequests(<<TV!StopHostSession>>)
      BY <2>4
         DEF TV!CancelLaunch, TV!StopStream, TV!StopHostFromStream, TV!StopRunningApplication
    <3> QED  BY <2>1, <3>1, PlainRequests, NothingAsked
  <2> QED  BY <1>1, <2>3, <2>4 DEF TV!User
<1> QED  BY <1>1, <1>3, <1>4, <1>5, <1>6, <1>7, <1>8, TvStepKeeps DEF TvInv, KeepsId, Holds

\* The browser's answer and the two timers keep the invariant.
LEMMA TvActsKeeps ==
    ASSUME TInv, TvActs  PROVE TInv'
<1>1. UNCHANGED gateway /\ UNCHANGED nextSessionId /\ toTv' = toTv  BY DEF TvActs, gateway
<1>2. TvTyped /\ Shows /\ Armed /\ CancelHidesStream  BY DEF TInv
<1>3. CASE TV!AnswerOffer
  <2>1. UNCHANGED <<screen, sessionState, currentSessionId, cancelRequested, cancelSent>>
        /\ answering' = 0
    BY <1>3 DEF TV!AnswerOffer, TV!launch
  <2>2. TvTyped'
    BY <1>1, <1>2, <1>3, ZeroKnown DEF TV!AnswerOffer, TV!launch, TV!host, TvTyped, Known
  <2>3. Shows' /\ Armed' /\ CancelHidesStream'
    BY <1>2, <2>1 DEF Shows, Armed, CancelHidesStream
  <2>4. SomeAsked
    <3>1. CASE TV!SendNothing  BY <3>1, NothingAsked
    <3>2. ASSUME NEW accepted \in BOOLEAN, TV!SendRequests(<<TV!Answer(answering, accepted)>>)
          PROVE  SomeAsked
      <4> DEFINE r == TV!Answer(answering, accepted)
      <4>1. answering \in Nat  BY <1>2 DEF TvTyped, Known, TInv, GatewayTyped
      <4>2. r \in Requests /\ r.sid = answering
        BY <4>1 DEF TV!Answer, Requests, RequestTypes, MaybeApps, AnyCodec, Named, Starts
      <4> HIDE DEF r
      <4>3. <<r>> \in Seq(Requests) /\ \A i \in 1..Len(<<r>>) : <<r>>[i] = r  BY <4>2
      <4>4. Asks(<<r>>)  BY <3>2, <4>2, <4>3 DEF Asks, r, TV!SendRequests
      <4> QED  BY <4>4 DEF SomeAsked
    <3> QED  BY <1>3, <3>1, <3>2 DEF TV!AnswerOffer
  <2> QED  BY <1>1, <2>1, <2>2, <2>3, <2>4, TvStepKeeps DEF TvInv, KeepsId, Holds
<1>4. CASE TV!SettingsTimer
  <2>1. UNCHANGED <<screen, sessionState, currentSessionId, peerConnection, answering,
                    cancelRequested, cancelSent>>
        /\ SomeAsked
    BY <1>4, NothingAsked DEF TV!SettingsTimer, TV!web, TV!launch
  <2>2. TvTyped'
    BY <1>1, <1>2, <1>4, <2>1 DEF TV!SettingsTimer, TV!host, TvTyped, Known
  <2>3. Shows' /\ Armed' /\ CancelHidesStream'
    BY <1>2, <2>1 DEF Shows, Armed, CancelHidesStream
  <2> QED  BY <1>1, <2>1, <2>2, <2>3, TvStepKeeps DEF TvInv, KeepsId, Holds
<1>5. CASE TV!Av1BlackScreen
  <2>1. sessionState = "streaming" /\ TV!HandleCodecUnsupported(0) /\ 0 \in Known
    BY <1>5 DEF TV!Av1BlackScreen, TInv, GatewayTyped, Known
  <2>2. TvInv' /\ SomeAsked /\ currentSessionId' = 0 /\ answering' = 0
    BY <1>1, <2>1, CodecUnsupportedKeeps
  <2> QED  BY <1>1, <2>1, <2>2, TvStepKeeps DEF KeepsId, Holds
<1> QED  BY <1>3, <1>4, <1>5 DEF TvActs
-----------------------------------------------------------------------------
(***************************************************************************)
(* The invariant, and what follows from it                                 *)
(***************************************************************************)
\* At the start nothing is on its way and the TV knows of no session.
LEMMA TInvInit == Init => TInv
<1> SUFFICES ASSUME Init  PROVE TInv
  OBVIOUS
<1> USE DEF Init, TV!Init, GW!Init
<1>1. nextSessionId = 1 /\ sessionId = 0 /\ currentSessionId = 0 /\ peerConnection = 0
      /\ answering = 0 /\ 0 \in Known
  BY DEF Known
<1>2. toTv = <<>> /\ toGateway = <<>>  OBVIOUS
<1>3. QueuesOK  BY <1>2, EmptySeq DEF QueuesOK
<1>4. GatewayTyped
  <2>1. serving \in ServingStates
    BY DEF GW!Nothing, ServingStates, AnyCodec, MaybeApps, Named, Starts
  <2>2. app \in MaybeApps /\ hostApp \in MaybeApps  BY DEF MaybeApps
  <2>3. /\ stopRequested \in BOOLEAN /\ peerConnected \in BOOLEAN
        /\ offered \in BOOLEAN /\ answered \in BOOLEAN
        /\ stream \in {"none", "waiting", "starting", "streaming", "ending", "over"}
    OBVIOUS
  <2>4. nextSessionId \in Nat \ {0}  BY <1>1
  <2> HIDE DEF Init, TV!Init, GW!Init
  <2> QED  BY <1>1, <2>1, <2>2, <2>3, <2>4 DEF GatewayTyped
<1>5. TvTyped  BY <1>1, <1>4 DEF TvTyped, MaybeApps
<1>6. Stages
  <2>1. serving.pc = "idle" /\ stream = "none" /\ ~peerConnected /\ ~answered  BY DEF GW!Nothing
  <2> QED  BY <2>1 DEF Stages
<1>7. Answers /\ OffersFindId /\ IdSettles  BY <1>1, <1>2 DEF Answers, OffersFindId, IdSettles
<1>8. Shows /\ Armed /\ CancelHidesStream  BY <1>1 DEF Shows, Armed, CancelHidesStream
<1> QED  BY <1>3, <1>4, <1>5, <1>6, <1>7, <1>8 DEF TInv

\* No step of the TV, the Gateway or the user breaks the invariant.
LEMMA TInvStep == TInv /\ [Next]_vars => TInv'
<1> SUFFICES ASSUME TInv, [Next]_vars  PROVE TInv'
  OBVIOUS
<1>1. CASE UserActs  BY <1>1, UserKeeps
<1>2. CASE TvActs  BY <1>2, TvActsKeeps
<1>3. CASE TvReceives  BY <1>3, TvReceivesKeeps
<1>4. CASE GatewayReceives \/ GatewayServes \/ GatewayStreams \/ GatewayOther
  BY <1>4, GatewayKeeps
<1>5. CASE UNCHANGED vars
  BY <1>5 DEF vars, tvView, gateway, TInv, GatewayTyped, TvTyped, QueuesOK, Stages, Answers,
              OffersFindId, IdSettles, Shows, Armed, CancelHidesStream, Known
<1> QED  BY <1>1, <1>2, <1>3, <1>4, <1>5 DEF Next

\* The invariant of the TV, the Gateway and what is on its way between them.
THEOREM TvGatewayInvariant == Spec => []TInv
BY TInvInit, TInvStep, PTL DEF Spec

\* Every variable keeps its type, and no message speaks of a session that the
\* Gateway has not yet given out.
THEOREM TypeCorrect == Spec => []TypeOK
<1>1. TInv => TypeOK
  <2> SUFFICES ASSUME TInv  PROVE TypeOK
    OBVIOUS
  <2>1. \A s \in Nat : s < nextSessionId => s \in Known  BY DEF TInv, GatewayTyped, Known
  <2>2. \A i \in DOMAIN toTv : toTv[i].sid \in Nat /\ toTv[i].sid < nextSessionId
    <3>1. \A i \in DOMAIN toTv : toTv[i] \in TvMessages /\ Plausible(toTv[i], nextSessionId)
      BY LenProperties, ElementOfSeq DEF TInv, QueuesOK
    <3> QED  BY <3>1 DEF TvMessages, Plausible
  <2>3. \A i \in DOMAIN toGateway : toGateway[i].sid \in Nat /\ toGateway[i].sid < nextSessionId
    <3>1. \A i \in DOMAIN toGateway : toGateway[i] \in Requests /\ toGateway[i].sid < nextSessionId
      BY LenProperties, ElementOfSeq DEF TInv, QueuesOK
    <3> QED  BY <3>1 DEF Requests
  <2>4. serving.app \in MaybeApps
        /\ serving.pc \in {"idle", "start", "stop", "query", "stopLocal", "cancel", "await"}
    BY DEF TInv, GatewayTyped, ServingStates
  <2> QED  BY <2>1, <2>2, <2>3, <2>4 DEF TypeOK, TInv, GatewayTyped, TvTyped, MaybeApps
<1> QED  BY <1>1, TvGatewayInvariant, PTL

\* While the TV shows a stream it knows the session's id, and once all messages
\* are handled it keeps no id of a former session.
THEOREM StreamIdIsKnown == Spec => []StreamIdKnown
<1>1. TInv => StreamIdKnown
  <2> SUFFICES ASSUME TInv  PROVE StreamIdKnown
    OBVIOUS
  <2>1. ASSUME Quiet, sessionId # 0, currentSessionId # 0  PROVE currentSessionId = sessionId
    BY <2>1 DEF TInv, IdSettles, Settles, Quiet
  <2> QED  BY <2>1 DEF StreamIdKnown, TInv, Shows
<1> QED  BY <1>1, TvGatewayInvariant, PTL

\* The stream of a launch the user has cancelled is never shown.
THEOREM CancelledStreamHidden == Spec => []CancelHidesStream
<1>1. TInv => CancelHidesStream  BY DEF TInv
<1> QED  BY <1>1, TvGatewayInvariant, PTL

\* A cancellation that waited for the session's id is sent with the id.
THEOREM CancellationIsSent == Spec => []CancellationSent
<1>1. TInv => CancellationSent  BY DEF TInv, Armed, CancellationSent
<1> QED  BY <1>1, TvGatewayInvariant, PTL

\* The Gateway, as coarsely as the TV sees it, keeps the promise that GatewaySession
\* keeps step by step: one session at a time, with an id and an application of its own,
\* and no other application replaced by it.
THEOREM TvGatewayImplementsLease == Spec => LeaseSpec
<1>1. Init => Lease!Init
  BY DEF Init, GW!Init, Lease!Init
<1>2. TInv /\ [Next]_vars => [Lease!Next]_Lease!vars
  <2> SUFFICES ASSUME TInv, [Next]_vars  PROVE [Lease!Next]_Lease!vars
    OBVIOUS
  <2>1. /\ nextSessionId \in Nat \ {0} /\ Stages /\ serving \in ServingStates
    BY DEF TInv, GatewayTyped
  <2>2. CASE UNCHANGED <<sessionId, nextSessionId, app, stream, hostApp>>
    BY <2>2 DEF Lease!vars
  <2>3. CASE GW!StartSession
    <3>1. /\ sessionId = 0 /\ stream = "none" /\ stream' = "waiting"
          /\ sessionId' = nextSessionId /\ nextSessionId' = nextSessionId + 1
          /\ hostApp' = hostApp
      BY <2>1, <2>3 DEF GW!StartSession, Stages
    <3>2. app' \in Apps
      BY <2>1, <2>3 DEF GW!StartSession, ServingStates, Named
    <3> QED  BY <2>1, <3>1, <3>2 DEF Lease!Next, Lease!Grant
  <2>4. CASE GW!StopCompletes \/ GW!HostStopCompletes
    <3>1. /\ sessionId' = 0 /\ stream' = "none" /\ nextSessionId' = nextSessionId
          /\ stream \in {"none", "over"} /\ app' = NoApp /\ hostApp' = hostApp
      BY <2>4 DEF GW!StopCompletes, GW!HostStopCompletes, GW!Release
    <3>2. CASE sessionId # 0
      BY <3>1, <3>2 DEF Lease!Next, Lease!Release
    <3>3. CASE sessionId = 0
      BY <2>1, <3>1, <3>3 DEF Lease!vars, Stages
    <3> QED  BY <3>2, <3>3
  <2>5. CASE GW!StreamStarts
    BY <2>1, <2>5 DEF GW!StreamStarts, Stages, GW!session, Lease!Next, Lease!Begin
  <2>6. CASE GW!StreamEnds
    BY <2>6 DEF GW!StreamEnds, GW!session, Lease!Next, Lease!End, Lease!vars
  <2>7. CASE GW!StreamStartFails
    <3>1. /\ sessionId # 0 /\ stream = "starting" /\ stream' = "ending"
          /\ UNCHANGED <<sessionId, nextSessionId, app>>
          /\ hostApp' = hostApp \/ (hostApp = NoApp /\ hostApp' = app)
      BY <2>1, <2>7 DEF GW!StreamStartFails, Stages, GW!session
    <3> QED  BY <3>1 DEF Lease!Next, Lease!LaunchOnly, Lease!vars
  <2>8. CASE \/ GW!Connect \/ GW!Lost \/ GW!RaiseOffer \/ GW!Host
             \/ GW!StartFails \/ GW!HostQueryFails \/ GW!HostQueryNothingToStop
             \/ GW!HostQueryStopsStream \/ GW!HostCancel \/ GW!HostIdle \/ GW!HostFails
    <3>1. /\ UNCHANGED <<sessionId, nextSessionId, app>> /\ hostApp' \in {hostApp, NoApp}
          /\ stream' = "streaming" <=> stream = "streaming"
      BY <2>8 DEF GW!Connect, GW!Lost, GW!RaiseOffer, GW!Host,
                  GW!MoonlightTerminates, GW!HostAppQuits, GW!StartFails, GW!HostQueryFails,
                  GW!HostQueryNothingToStop, GW!HostQueryStopsStream, GW!HostCancel, GW!HostIdle,
                  GW!HostFails, GW!session
    <3> QED  BY <3>1 DEF Lease!Next, Lease!Quit, Lease!vars
  <2>9. CASE GatewayReceives
    <3>1. UNCHANGED <<sessionId, nextSessionId, app, stream, hostApp>>
      BY <2>9 DEF GatewayReceives, GW!Handle, GW!ReceiveStart, GW!ReceiveStop, GW!ReceiveAnswer,
                  GW!ReceiveGetApps, GW!ReceiveHostOperation, GW!session
    <3> QED  BY <2>2, <3>1
  <2>10. CASE UserActs \/ TvActs \/ TvReceives \/ UNCHANGED vars
    BY <2>2, <2>10 DEF UserActs, TvActs, TvReceives, vars, gateway
  <2> QED  BY <2>3, <2>4, <2>5, <2>6, <2>7, <2>8, <2>9, <2>10
              DEF Next, GatewayServes, GatewayStreams, GatewayOther, Gateway, GW!Serving,
                  GW!Thread, GW!WebRtc
<1> QED  BY <1>1, <1>2, TvGatewayInvariant, PTL DEF Spec, LeaseSpec, Lease!Spec
=============================================================================
