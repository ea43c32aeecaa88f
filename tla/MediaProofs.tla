----------------------------- MODULE MediaProofs -----------------------------
(***************************************************************************)
(* Theorems about the media side of a session:                             *)
(*   MediaBridge, for any settings a client can have asked for and any     *)
(*     number of keyframe requests;                                        *)
(*   BufferPool, for any number of slots to begin with, any finite set of  *)
(*     lease objects and any number of frames;                             *)
(*   Telemetry, for any sessions, any values a sample can have, and any    *)
(*     size at which the log starts over;                                  *)
(*   TestMedia, for any sample files and any encoding of their audio.      *)
(***************************************************************************)
EXTENDS MediaBridge, BufferPool, Telemetry, TestMedia, FiniteSetTheorems, SequenceTheorems,
        WellFoundedInduction, TLAPS

\* The bridge waits for an IDR frame only while Moonlight does: this is what makes it
\* right to drop the second of two late frames without a word.
WaitsTogether == waitingIdr => awaitIdr

\* Main10 is proved before the validation is complete: an SPS that comes later can
\* no longer fail it.
CompleteMeansMain10 == hdr.complete => hdr.main10

MediaInv ==
    /\ TypeOK
    /\ ReferencesWhole /\ WaitsTogether
    /\ HdrVerdict /\ CompleteMeansMain10

\* Every supported video mode has one of three frame rates.
LEMMA ModeFacts ==
    \A m \in SupportedVideoModes : m.fps \in {30, 60, 120}
BY DEF SupportedVideoModes, Mode

\* Settings a client can ask for have such a rate and a known latency mode.
LEMMA RequestableFacts ==
    ASSUME NEW s \in RequestableSettings
    PROVE  s.fps \in {30, 60, 120} /\ s.latency \in LatencyModes
<1>1. PICK m \in SupportedVideoModes, codec \in VideoCodecs, h \in BOOLEAN, latency \in LatencyModes :
        s = ModeSettings(m, codec, h, latency)
  BY DEF RequestableSettings
<1>2. QED
  BY <1>1, ModeFacts DEF ModeSettings

\* The deadline of any settings a client can ask for: never negative, 0 for "smoothest".
LEMMA DeadlineIsNatural ==
    ASSUME NEW s \in RequestableSettings
    PROVE  FrameDeadlineUs(s) \in Nat
<1>1. s.fps \in {30, 60, 120} /\ s.latency \in {"lowest_latency", "balanced", "smoothest"}
  BY RequestableFacts DEF LatencyModes
<1>2. 1500000 \div s.fps \in Nat /\ 3000000 \div s.fps \in Nat
  BY <1>1
<1>3. QED
  BY <1>1, <1>2 DEF FrameDeadlineUs

HdrType == [active : BOOLEAN, rec2020 : BOOLEAN, main10 : BOOLEAN,
            complete : BOOLEAN, failed : BOOLEAN]

\* What one frame makes of a validation that has not failed: one verdict at most, and
\* one verdict at least when the two seconds are over.
LEMMA ObserveFacts ==
    ASSUME hdr \in HdrType, ~hdr.failed, CompleteMeansMain10, NEW f \in Frames
    PROVE  /\ ObserveHdr(f) \in HdrType
           /\ ~(ObserveHdr(f).complete /\ ObserveHdr(f).failed)
           /\ ObserveHdr(f).complete => ObserveHdr(f).main10
           /\ clock = "past" => ObserveHdr(f).complete \/ ObserveHdr(f).failed
<1> DEFINE seen == [hdr EXCEPT !.active = @ \/ f.active, !.rec2020 = @ \/ f.rec2020]
           depth == IF seen.main10 THEN seen
                    ELSE IF settings.codec = "av1"
                    THEN [seen EXCEPT !.main10 = seen.active /\ seen.rec2020]
                    ELSE [seen EXCEPT !.main10 = f.sps = "main10", !.failed = f.sps = "other"]
           passed == [depth EXCEPT !.complete = @ \/ (depth.active /\ depth.rec2020 /\ depth.main10)]
<1>1. /\ seen \in HdrType /\ ~seen.failed
      /\ seen.complete => seen.main10
  BY DEF HdrType, Frames, CompleteMeansMain10
<1>2. /\ depth \in HdrType
      /\ depth.failed => ~depth.main10
      /\ depth.complete => depth.main10
  <2>1. CASE seen.main10
    BY <1>1, <2>1
  <2>2. CASE ~seen.main10 /\ settings.codec = "av1"
    BY <1>1, <2>2 DEF HdrType
  <2>3. CASE ~seen.main10 /\ settings.codec # "av1"
    <3> DEFINE good == f.sps = "main10"
               bad  == f.sps = "other"
    <3>1. good \in BOOLEAN /\ bad \in BOOLEAN /\ (bad => ~good)
      OBVIOUS
    <3>2. depth = [seen EXCEPT !.main10 = good, !.failed = bad]
      BY <2>3
    <3> HIDE DEF good, bad, seen, depth
    <3>3. QED
      BY <1>1, <2>3, <3>1, <3>2 DEF HdrType
  <2>4. QED
    BY <2>1, <2>2, <2>3
<1>3. /\ passed \in HdrType
      /\ passed.failed => ~passed.complete
      /\ passed.complete => passed.main10
  <2> HIDE DEF depth
  <2>1. QED
    BY <1>2 DEF HdrType
<1>4. ObserveHdr(f) = [passed EXCEPT !.failed = @ \/ (~passed.complete /\ clock = "past")]
  BY DEF ObserveHdr
<1>5. QED
  <2> HIDE DEF passed
  <2>1. QED
    BY <1>3, <1>4 DEF HdrType
-----------------------------------------------------------------------------
Medium == [registered : BOOLEAN, configured : BOOLEAN, started : BOOLEAN]

\* Registering, configuring and starting a medium give a medium.
LEMMA MediumType ==
    /\ NoBridge \in Medium
    /\ \A r \in Medium, b \in BOOLEAN :
          /\ [r EXCEPT !.started = b] \in Medium
          /\ [r EXCEPT !.registered = TRUE, !.configured = b] \in Medium
BY DEF NoBridge, Medium

\* Type correctness in two parts, as numbers and truth values are for different provers.
Numbers == frameDeadlineUs \in Nat /\ requests \in 0..MaxRequests
Others ==
    /\ settings \in Settings
    /\ state \in {"idle", "starting", "connected", "stopped"}
    /\ media \in [Media -> Medium]
    /\ idrRequested \in BOOLEAN /\ waitingIdr \in BOOLEAN
    /\ hdr \in HdrType
    /\ clock \in {"none", "running", "past"}
    /\ stopRequested \in BOOLEAN /\ trackOpen \in BOOLEAN /\ awaitIdr \in BOOLEAN
    /\ chain \in {"whole", "broken"} /\ overdue \in BOOLEAN

\* The type invariant is those two parts.
LEMMA TypeParts == TypeOK <=> Numbers /\ Others
BY DEF TypeOK, Numbers, Others, Medium, HdrType

\* The same of the next state: the lemma above cannot be cited primed.
LEMMA TypePartsNext == TypeOK' <=> Numbers' /\ Others'
BY DEF TypeOK, Numbers, Others, Medium, HdrType

\* A new session satisfies the inductive invariant.
LEMMA InitMedia == Init => MediaInv
<1> SUFFICES ASSUME Init PROVE MediaInv
  OBVIOUS
<1>1. media \in [Media -> Medium]
  BY MediumType DEF Init
<1>2. hdr \in HdrType
  BY DEF Init, NothingObserved, HdrType
<1>3. TypeOK
  <2>1. Numbers
    BY RequestsAssumption DEF Init, Numbers
  <2>2. Others
    BY <1>1, <1>2, Zenon DEF Init, Others
  <2>3. QED
    BY <2>1, <2>2, TypeParts
<1>4. QED
  BY <1>3 DEF Init, MediaInv, ReferencesWhole, WaitsTogether, HdrVerdict, CompleteMeansMain10,
         NothingObserved

\* The steps that touch neither the frames nor the validation.
Quiet ==
    UNCHANGED <<idrRequested, waitingIdr, hdr, trackOpen, awaitIdr, chain, overdue>>

\* A step that touches neither frames nor validation keeps it if it keeps the types.
LEMMA QuietKeeps ==
    ASSUME MediaInv, TypeOK', Quiet, stopRequested => stopRequested'
    PROVE  MediaInv'
BY DEF MediaInv, Quiet, ReferencesWhole, WaitsTogether, HdrVerdict, CompleteMeansMain10

\* The streaming thread's steps keep it.
LEMMA StreamingKeeps == MediaInv /\ Streaming => MediaInv'
<1> SUFFICES ASSUME MediaInv, Streaming PROVE MediaInv'
  OBVIOUS
<1> USE DEF session, keyframe, external, history
<1>0. Numbers /\ Others
  BY TypeParts DEF MediaInv
<1>1. TypeOK'
  <2>1. Numbers'
    BY <1>0 DEF Numbers, Streaming, Start, ConnectionFails, Connected, Stop
  <2>2. media' \in [Media -> Medium]
    BY <1>0, MediumType DEF Others, Streaming, Start, ConnectionFails, Connected, Stop
  <2>3. state' \in {"starting", "connected", "stopped"} /\ stopRequested' \in BOOLEAN
    BY <1>0, Zenon DEF Others, Streaming, Start, ConnectionFails, Connected, Stop
  <2>4. UNCHANGED <<settings, idrRequested, waitingIdr, hdr, clock, trackOpen, awaitIdr, chain, overdue>>
    BY DEF Streaming, Start, ConnectionFails, Connected, Stop
  <2>5. QED
    BY <1>0, <2>1, <2>2, <2>3, <2>4, TypePartsNext, Zenon DEF Others
<1>2. Quiet /\ (stopRequested => stopRequested')
  BY DEF Streaming, Start, ConnectionFails, Connected, Stop, Quiet
<1>3. QED
  BY <1>1, <1>2, QuietKeeps

\* Moonlight's callbacks other than a frame, and the passing deadline, keep it.
LEMMA CallbacksKeep ==
    ASSUME MediaInv,
           \/ VideoSetup \/ AudioInit \/ ConnectionTerminated
           \/ \E m \in Media : MediaStart(m) \/ MediaStop(m) \/ MediaCleanup(m)
           \/ DeadlinePasses
    PROVE  MediaInv'
<1> USE DEF session, keyframe, external, history
<1>0. Numbers /\ Others
  BY TypeParts DEF MediaInv
<1>1. TypeOK'
  <2>1. frameDeadlineUs' \in Nat
    <3>1. FrameDeadlineUs(settings) \in Nat
      BY <1>0, SettingsAssumption, DeadlineIsNatural DEF Others
    <3>2. frameDeadlineUs' \in {frameDeadlineUs, FrameDeadlineUs(settings)}
      BY DEF VideoSetup, AudioInit, ConnectionTerminated, MediaStart, MediaStop, MediaCleanup,
             DeadlinePasses
    <3>3. QED
      BY <1>0, <3>1, <3>2 DEF Numbers
  <2>2. media' \in [Media -> Medium]
    <3> USE <1>0, MediumType DEF Others
    <3>1. CASE VideoSetup
      <4>1. PICK ok \in BOOLEAN :
              media' = [media EXCEPT !["video"].registered = TRUE, !["video"].configured = ok]
        BY <3>1 DEF VideoSetup
      <4>2. "video" \in Media /\ media["video"] \in Medium
        BY DEF Media
      <4>3. QED
        BY <4>1, <4>2
    <3>2. CASE AudioInit
      <4>1. PICK ok \in BOOLEAN :
              media' = [media EXCEPT !["audio"].registered = TRUE, !["audio"].configured = ok]
        BY <3>2 DEF AudioInit
      <4>2. "audio" \in Media /\ media["audio"] \in Medium
        BY DEF Media
      <4>3. QED
        BY <4>1, <4>2
    <3>3. CASE \E m \in Media : MediaStart(m)
      BY <3>3 DEF MediaStart
    <3>4. CASE \E m \in Media : MediaStop(m)
      BY <3>4 DEF MediaStop
    <3>5. CASE \E m \in Media : MediaCleanup(m)
      BY <3>5 DEF MediaCleanup
    <3>6. CASE ConnectionTerminated \/ DeadlinePasses
      BY <3>6 DEF ConnectionTerminated, DeadlinePasses
    <3>7. QED
      BY <3>1, <3>2, <3>3, <3>4, <3>5, <3>6
  <2>3. clock' \in {"none", "running", "past"}
    BY <1>0 DEF Others, VideoSetup, AudioInit, ConnectionTerminated, MediaStart, MediaStop,
           MediaCleanup, DeadlinePasses
  <2>4. stopRequested' \in BOOLEAN
    BY <1>0 DEF Others, VideoSetup, AudioInit, ConnectionTerminated, MediaStart, MediaStop,
           MediaCleanup, DeadlinePasses
  <2>5. UNCHANGED <<settings, state, idrRequested, waitingIdr, hdr, requests, trackOpen,
                    awaitIdr, chain, overdue>>
    BY DEF VideoSetup, AudioInit, ConnectionTerminated, MediaStart, MediaStop, MediaCleanup,
           DeadlinePasses
  <2>6. Numbers'
    BY <1>0, <2>1, <2>5 DEF Numbers
  <2>7. Others'
    BY <1>0, <2>2, <2>3, <2>4, <2>5, Zenon DEF Others
  <2>8. QED
    BY <2>6, <2>7, TypePartsNext
<1>2. Quiet /\ (stopRequested => stopRequested')
  BY DEF VideoSetup, AudioInit, ConnectionTerminated, MediaStart, MediaStop, MediaCleanup,
         DeadlinePasses, Quiet
<1>3. QED
  BY <1>1, <1>2, QuietKeeps
-----------------------------------------------------------------------------
\* What the frame leaves of references and waiting, by what becomes of it.
LEMMA FrameKeepsReferences ==
    ASSUME MediaInv, NEW f \in Frames, SubmitVideo(f)
    PROVE  ReferencesWhole' /\ WaitsTogether'
<1> USE DEF MediaInv, ReferencesWhole, WaitsTogether, NeedIdr, FrameOk, NotSent
<1>0. idrRequested \in BOOLEAN /\ f.idr \in BOOLEAN /\ awaitIdr \in BOOLEAN /\ waitingIdr \in BOOLEAN
  BY DEF TypeOK, Frames
<1>1. CASE Late(f) /\ waitingIdr' = TRUE /\ (IF waitingIdr THEN FrameOk(f) ELSE NeedIdr) /\ NotSent
  BY <1>0, <1>1 DEF Late
<1>2. CASE NeedIdr /\ NotSent
  BY <1>2
<1>3. CASE Forward(f)
  BY <1>0, <1>3 DEF Forward
<1>4. QED
  BY <1>1, <1>2, <1>3 DEF SubmitVideo

\* A submitted frame keeps what is known of the HDR validation.
LEMMA FrameKeepsVerdict ==
    ASSUME MediaInv, NEW f \in Frames, SubmitVideo(f)
    PROVE  HdrVerdict' /\ CompleteMeansMain10' /\ hdr' \in HdrType
<1>0. /\ hdr \in HdrType /\ stopRequested \in BOOLEAN /\ overdue \in BOOLEAN
      /\ HdrVerdict /\ CompleteMeansMain10
  BY DEF MediaInv, TypeOK, HdrType
<1>1. CASE UNCHANGED <<hdr, stopRequested>> /\ NotSent
  BY <1>0, <1>1 DEF HdrVerdict, CompleteMeansMain10, NotSent
<1>2. CASE /\ hdr' = (IF Validates THEN ObserveHdr(f) ELSE hdr)
           /\ stopRequested' = (stopRequested \/ (hdr'.failed /\ ~hdr.failed))
           /\ clock' = clock
           /\ Forward(f) \/ NotSent
  <2>1. /\ hdr' \in HdrType /\ ~(hdr'.complete /\ hdr'.failed) /\ (hdr'.complete => hdr'.main10)
        /\ settings.hdr /\ clock = "past" => hdr'.complete \/ hdr'.failed
    <3>1. CASE Validates
      <4>1. ~hdr.failed
        BY <3>1 DEF Validates
      <4>2. QED
        BY <1>0, <1>2, <3>1, <4>1, ObserveFacts
    <3>2. CASE ~Validates
      BY <1>0, <1>2, <3>2 DEF Validates, HdrVerdict, CompleteMeansMain10
    <3>3. QED
      BY <3>1, <3>2
  <2>2. hdr'.failed => stopRequested'
    BY <1>0, <1>2 DEF HdrVerdict
  <2>3. ~overdue'
    BY <1>0, <1>2, <2>1 DEF HdrVerdict, Forward, NotSent
  <2>4. QED
    BY <2>1, <2>2, <2>3 DEF HdrVerdict, CompleteMeansMain10
<1>3. QED
  BY <1>0, <1>1, <1>2 DEF SubmitVideo

\* A submitted frame keeps the types.
LEMMA FrameKeepsType ==
    ASSUME MediaInv, NEW f \in Frames, SubmitVideo(f)
    PROVE  TypeOK'
<1>0. TypeOK /\ hdr' \in HdrType
  BY FrameKeepsVerdict DEF MediaInv
<1>1. /\ UNCHANGED <<settings, state, media, frameDeadlineUs, requests, clock, trackOpen>>
  BY DEF SubmitVideo
<1>2. /\ idrRequested' \in BOOLEAN /\ waitingIdr' \in BOOLEAN /\ stopRequested' \in BOOLEAN
      /\ awaitIdr' \in BOOLEAN /\ chain' \in {"whole", "broken"} /\ overdue' \in BOOLEAN
  <2> USE DEF NeedIdr, FrameOk, NotSent, Forward
  <2>1. f.idr \in BOOLEAN
    BY DEF Frames
  <2>2. QED
    BY <1>0, <2>1 DEF SubmitVideo, TypeOK
<1>3. QED
  BY <1>0, <1>1, <1>2 DEF TypeOK, HdrType

\* A keyframe request and the video track's closing keep the invariant.
LEMMA RequestKeeps == MediaInv /\ (KeyframeRequest \/ TrackCloses) => MediaInv'
<1> USE DEF session, keyframe, external, history
<1>1. CASE MediaInv /\ KeyframeRequest
  <2>1. requests' \in 0..MaxRequests
    BY <1>1, RequestsAssumption DEF KeyframeRequest, MediaInv, TypeOK
  <2>2. QED
    BY <1>1, <2>1 DEF KeyframeRequest, MediaInv, TypeOK, ReferencesWhole, WaitsTogether,
           HdrVerdict, CompleteMeansMain10
<1>2. CASE MediaInv /\ TrackCloses
  BY <1>2 DEF TrackCloses, MediaInv, TypeOK, ReferencesWhole, WaitsTogether,
         HdrVerdict, CompleteMeansMain10
<1>3. QED
  BY <1>1, <1>2

\* Every step keeps it.
LEMMA MediaStep == MediaInv /\ [Next]_vars => MediaInv'
<1> SUFFICES ASSUME MediaInv, [Next]_vars PROVE MediaInv'
  OBVIOUS
<1>1. CASE Streaming
  BY <1>1, StreamingKeeps
<1>2. CASE \E f \in Frames : SubmitVideo(f)
  BY <1>2, FrameKeepsReferences, FrameKeepsVerdict, FrameKeepsType DEF MediaInv
<1>3. CASE KeyframeRequest \/ TrackCloses
  BY <1>3, RequestKeeps
<1>4. CASE \/ VideoSetup \/ AudioInit \/ ConnectionTerminated
           \/ \E m \in Media : MediaStart(m) \/ MediaStop(m) \/ MediaCleanup(m)
           \/ DeadlinePasses
  BY <1>4, CallbacksKeep
<1>5. CASE UNCHANGED vars
  BY <1>5 DEF vars, session, keyframe, external, history, MediaInv, TypeOK, ReferencesWhole,
         WaitsTogether, HdrVerdict, CompleteMeansMain10
<1>6. QED
  BY <1>1, <1>2, <1>3, <1>4, <1>5 DEF Next, Moonlight

\* It therefore holds in every reachable state.
LEMMA MediaAlways == Spec => []MediaInv
BY InitMedia, MediaStep, PTL DEF Spec

\* The state keeps its type; above all the deadline is never negative.
THEOREM MediaTypeCorrect == Spec => []TypeOK
<1>1. MediaInv => TypeOK
  BY DEF MediaInv
<1>2. QED
  BY <1>1, MediaAlways, PTL

\* Whatever is dropped late, lost on a closed track or refused, Moonlight delivers a P
\* frame only to a TV that holds what it refers to.
THEOREM ReferencesStayWhole == Spec => []ReferencesWhole
<1>1. MediaInv => ReferencesWhole
  BY DEF MediaInv
<1>2. QED
  BY <1>1, MediaAlways, PTL

\* One HDR verdict, in time, which ends the stream when it is bad.
THEOREM HdrIsDecided == Spec => []HdrVerdict
<1>1. MediaInv => HdrVerdict
  BY DEF MediaInv
<1>2. QED
  BY <1>1, MediaAlways, PTL
-----------------------------------------------------------------------------
(***************************************************************************)
(* BufferPool                                                              *)
(***************************************************************************)
Slot == [inUse : BOOLEAN, frame : Nat]

PoolTypeOK ==
    /\ slots \in Seq(Slot) /\ nextSlot \in 0..Len(slots) - 1
    /\ lease \in [Holders -> Nat \cup {NoSlot}] /\ frame \in [Holders -> Nat]
    /\ frames \in Nat

\* A slot in use has a lease; LeasesIntact says the converse.
UseIsLeased == \A i \in 1..Len(slots) : slots[i].inUse => \E h \in Holders : lease[h] = i

Most == IF Cardinality(Holders) > SlotCount THEN Cardinality(Holders) ELSE SlotCount

PoolInv == PoolTypeOK /\ LeasesIntact /\ UseIsLeased /\ Len(slots) <= Most
-----------------------------------------------------------------------------
(***************************************************************************)
(* Acquire.                                                                *)
(***************************************************************************)
LEMMA SlotType ==
    ASSUME NEW s \in Seq(Slot), NEW i \in 1..Len(s)
    PROVE  s[i] \in Slot /\ s[i].inUse \in BOOLEAN /\ s[i].frame \in Nat
<1>1. s[i] \in Slot
  BY ElementOfSeq
<1>2. QED
  BY <1>1 DEF Slot

\* A remainder is below its divisor.
LEMMA Remainder ==
    ASSUME NEW len \in Nat \ {0}, NEW a \in Nat
    PROVE  a % len \in 0..len - 1
BY Z3

\* A number below the divisor is its own remainder.
LEMMA SmallRemainder ==
    ASSUME NEW len \in Nat \ {0}, NEW a \in 0..len - 1
    PROVE  a % len = a
BY Z3

\* A number that passed the divisor once wraps around once.
LEMMA WrappedRemainder ==
    ASSUME NEW len \in Nat \ {0}, NEW a \in len..2 * len - 1
    PROVE  a % len = a - len
BY Z3

\* Every slot of the pool is reached within one turn, wherever the search starts.
LEMMA Turn ==
    ASSUME NEW len \in Nat \ {0}, NEW next \in 0..len - 1, NEW slot \in 1..len
    PROVE  \E i \in 0..len - 1 : (next + i) % len = slot - 1
<1>1. CASE slot - 1 >= next
  <2> DEFINE i == slot - 1 - next
  <2>1. i \in 0..len - 1 /\ next + i = slot - 1 /\ slot - 1 \in 0..len - 1
    BY <1>1
  <2>2. (slot - 1) % len = slot - 1
    BY <2>1, SmallRemainder
  <2> HIDE DEF i
  <2>3. QED
    BY <2>1, <2>2, Zenon
<1>2. CASE slot - 1 < next
  <2> DEFINE i == slot - 1 - next + len
             a == slot - 1 + len
  <2>1. i \in 0..len - 1 /\ next + i = a /\ a \in len..2 * len - 1 /\ a - len = slot - 1
    BY <1>2
  <2> HIDE DEF i, a
  <2>2. a % len = a - len
    BY <2>1, WrappedRemainder
  <2>3. QED
    BY <2>1, <2>2, Zenon
<1>3. QED
  BY <1>1, <1>2

\* The search starts at nextSlot and comes to every slot.
LEMMA SearchReachesAll ==
    ASSUME PoolTypeOK
    PROVE  /\ \A i \in 0..Len(slots) - 1 : Cyclic(i) \in 1..Len(slots)
           /\ \A slot \in 1..Len(slots) : \E i \in 0..Len(slots) - 1 : Cyclic(i) = slot
<1>1. Len(slots) \in Nat \ {0} /\ nextSlot \in 0..Len(slots) - 1
  BY DEF PoolTypeOK
<1>2. ASSUME NEW i \in 0..Len(slots) - 1 PROVE Cyclic(i) \in 1..Len(slots)
  <2>1. nextSlot + i \in Nat
    BY <1>1
  <2>2. (nextSlot + i) % Len(slots) \in 0..Len(slots) - 1
    BY <1>1, <2>1, Remainder
  <2>3. QED
    BY <1>1, <2>2 DEF Cyclic
<1>3. ASSUME NEW slot \in 1..Len(slots)
      PROVE  \E i \in 0..Len(slots) - 1 : Cyclic(i) = slot
  <2>1. PICK i \in 0..Len(slots) - 1 : (nextSlot + i) % Len(slots) = slot - 1
    BY <1>1, Turn
  <2>2. Cyclic(i) = slot
    BY <2>1 DEF Cyclic
  <2>3. QED
    BY <2>2
<1>4. QED
  BY <1>2, <1>3

\* The slot the search for a free one ends at is free.
LEMMA FirstFreeIsFree ==
    ASSUME PoolTypeOK, Free # {}
    PROVE  FirstFree \in Free
<1> DEFINE R == {ss \in Nat \X Nat : ss[1] < ss[2]}
<1>1. IsWellFoundedOn(R, Nat)
  BY NatLessThanWellFounded, Zenon DEF OpToRel
<1>2. Free \subseteq Nat
  BY DEF Free, PoolTypeOK
<1>3. PICK i \in Free : \A j \in Free : ~ <<j, i>> \in R
  <2> HIDE DEF R
  <2> QED
    BY <1>1, <1>2, WFMin
<1>4. ASSUME NEW j \in Free PROVE i <= j
  <2>1. i \in Nat /\ j \in Nat /\ <<j, i>> \in Nat \X Nat
    BY <1>2
  <2>2. ~ (<<j, i>>[1] < <<j, i>>[2])
    BY <1>3, <2>1
  <2>3. QED
    BY <2>1, <2>2
<1>5. QED
  BY <1>3, <1>4 DEF FirstFree

\* Acquire finds a slot that is free, and adds one only when none is.
LEMMA AcquireFacts ==
    ASSUME PoolTypeOK
    PROVE  /\ Acquire.slots \in Seq(Slot)
           /\ Acquire.slot \in 1..Len(Acquire.slots)
           /\ Acquire.next \in 0..Len(Acquire.slots) - 1
           /\ ~Acquire.slots[Acquire.slot].inUse
           /\ \/ Acquire.slots = slots
              \/ /\ Acquire.slots = Append(slots, [inUse |-> FALSE, frame |-> 0])
                 /\ \A i \in 1..Len(slots) : slots[i].inUse
<1> DEFINE fresh == [inUse |-> FALSE, frame |-> 0]
<1>0. Len(slots) \in Nat \ {0} /\ slots \in Seq(Slot) /\ fresh \in Slot
  BY DEF PoolTypeOK, Slot
<1>1. CASE Free # {}
  <2>1. FirstFree \in 0..Len(slots) - 1 /\ ~slots[Cyclic(FirstFree)].inUse
    BY <1>1, FirstFreeIsFree DEF Free
  <2>2. Cyclic(FirstFree) \in 1..Len(slots)
    BY <2>1, SearchReachesAll
  <2>3. Cyclic(FirstFree) % Len(slots) \in 0..Len(slots) - 1
    <3>1. Cyclic(FirstFree) \in Nat
      BY <1>0, <2>2
    <3>2. QED
      BY <1>0, <3>1, Remainder
  <2>4. Acquire = [slot |-> Cyclic(FirstFree), next |-> Cyclic(FirstFree) % Len(slots),
                   slots |-> slots]
    BY <1>1 DEF Acquire
  <2>5. QED
    BY <1>0, <2>1, <2>2, <2>3, <2>4
<1>2. CASE Free = {}
  <2>1. Acquire = [slot |-> Len(slots) + 1, next |-> 0, slots |-> Append(slots, fresh)]
    BY <1>2 DEF Acquire
  <2>2. Append(slots, fresh) \in Seq(Slot) /\ Len(Append(slots, fresh)) = Len(slots) + 1
        /\ Append(slots, fresh)[Len(slots) + 1] = fresh
    BY <1>0, AppendProperties
  <2>3. ASSUME NEW slot \in 1..Len(slots) PROVE slots[slot].inUse
    BY <1>2, SearchReachesAll DEF Free
  <2> HIDE DEF fresh
  <2>4. ~fresh.inUse
    BY DEF fresh
  <2>5. QED
    BY <1>0, <2>1, <2>2, <2>3, <2>4 DEF fresh
<1>3. QED
  BY <1>1, <1>2
-----------------------------------------------------------------------------
(***************************************************************************)
(* What the actions do to the slots.                                       *)
(***************************************************************************)
LEMMA WrittenSlots ==
    ASSUME NEW s \in Seq(Slot), NEW slot \in 1..Len(s), NEW e \in Slot
    PROVE  /\ [s EXCEPT ![slot] = e] \in Seq(Slot)
           /\ Len([s EXCEPT ![slot] = e]) = Len(s)
           /\ \A i \in 1..Len(s) :
                 [s EXCEPT ![slot] = e][i] = IF i = slot THEN e ELSE s[i]
BY ExceptSeq

\* A slot that is given back keeps its frame, the others all they have.
LEMMA ReleasedSlots ==
    ASSUME NEW s \in Seq(Slot), NEW slot \in 1..Len(s) \cup {NoSlot}
    PROVE  /\ Released(s, slot) \in Seq(Slot)
           /\ Len(Released(s, slot)) = Len(s)
           /\ \A i \in 1..Len(s) :
                 /\ i # slot => Released(s, slot)[i] = s[i]
                 /\ i = slot => ~Released(s, slot)[i].inUse
<1>1. CASE slot = NoSlot
  <2>1. Released(s, slot) = s
    BY <1>1 DEF Released
  <2>2. NoSlot \notin 1..Len(s)
    BY PoolAssumption
  <2>3. QED
    BY <1>1, <2>1, <2>2
<1>2. CASE slot # NoSlot
  <2> DEFINE e == [s[slot] EXCEPT !.inUse = FALSE]
  <2>1. s[slot] \in Slot
    BY <1>2, SlotType
  <2>2. e \in Slot /\ ~e.inUse
    BY <2>1 DEF Slot
  <2>3. Released(s, slot) = [s EXCEPT ![slot] = e]
    BY <1>2 DEF Released
  <2> HIDE DEF e
  <2>4. QED
    BY <1>2, <2>2, <2>3, WrittenSlots
<1>3. QED
  BY <1>1, <1>2

\* When every slot is leased and one more lease is asked for, there is room for a slot.
LEMMA RoomForOne ==
    ASSUME PoolInv, NEW h \in Holders, lease[h] = NoSlot,
           \A i \in 1..Len(slots) : slots[i].inUse
    PROVE  Len(slots) + 1 <= Most
<1> DEFINE T == 1..Len(slots)
           S == {g \in Holders : lease[g] \in T}
           f == [g \in S |-> lease[g]]
<1>1. IsFiniteSet(Holders) /\ NoSlot \notin Nat /\ SlotCount \in Nat
  BY PoolAssumption
<1>2. Len(slots) \in Nat
  BY DEF PoolInv, PoolTypeOK
<1>3. S \subseteq Holders \ {h}
  <2>1. h \notin S
    BY <1>1, <1>2
  <2>2. QED
    BY <2>1
<1>4. f \in Surjection(S, T)
  <2>1. \A i \in T : \E g \in S : f[g] = i
    BY DEF PoolInv, UseIsLeased
  <2>2. f \in [S -> T]
    OBVIOUS
  <2>3. QED
    BY <2>1, <2>2 DEF Surjection
<1>5. IsFiniteSet(Holders \ {h}) /\ Cardinality(Holders \ {h}) = Cardinality(Holders) - 1
  BY <1>1, FS_RemoveElement
<1> HIDE DEF f, S, T
<1>6. IsFiniteSet(S) /\ Cardinality(S) <= Cardinality(Holders) - 1
  BY <1>3, <1>5, FS_Subset
<1>7. Cardinality(T) <= Cardinality(S)
  BY <1>4, <1>6, FS_Surjection
<1>8. Cardinality(T) = Len(slots)
  <2>1. Cardinality(1..Len(slots)) = IF 1 > Len(slots) THEN 0 ELSE Len(slots) - 1 + 1
    BY <1>2, 1 \in Int, Len(slots) \in Int, FS_Interval
  <2>2. QED
    BY <1>2, <2>1 DEF T
<1>9. Cardinality(Holders) \in Nat /\ Cardinality(S) \in Nat
  BY <1>1, <1>6, FS_CardinalityType
<1>10. QED
  BY <1>1, <1>2, <1>6, <1>7, <1>8, <1>9 DEF Most
-----------------------------------------------------------------------------
(***************************************************************************)
(* The actions.                                                            *)
(***************************************************************************)
LEMMA InitHolds == PoolInit => PoolInv
<1> SUFFICES ASSUME PoolInit PROVE PoolInv
  OBVIOUS
<1>1. SlotCount \in Nat \ {0} /\ IsFiniteSet(Holders)
  BY PoolAssumption
<1>2. slots \in Seq(Slot) /\ Len(slots) = SlotCount /\ \A i \in 1..SlotCount : ~slots[i].inUse
  BY <1>1 DEF PoolInit, Slot
<1>3. PoolTypeOK
  BY <1>1, <1>2 DEF PoolInit, PoolTypeOK
<1>4. Cardinality(Holders) \in Nat
  BY <1>1, FS_CardinalityType
<1>5. Len(slots) <= Most
  BY <1>1, <1>2, <1>4 DEF Most
<1>6. LeasesIntact /\ UseIsLeased
  BY <1>2 DEF PoolInit, LeasesIntact, UseIsLeased
<1>7. QED
  BY <1>3, <1>5, <1>6 DEF PoolInv

\* What Drop and Move do to the slots: they give back the slot of one lease.
LEMMA GivesBack ==
    ASSUME PoolInv, NEW h \in Holders,
           slots' = Released(slots, lease[h]),
           lease' \in [Holders -> Nat \cup {NoSlot}], frame' \in [Holders -> Nat],
           UNCHANGED <<nextSlot, frames>>,
           \* Every lease that is left is an old one, with its frame, and not of h.
           \A g \in Holders : lease'[g] # NoSlot =>
              \E k \in Holders \ {h} : lease[k] = lease'[g] /\ frame[k] = frame'[g],
           \A k \in Holders \ {h} : lease[k] # NoSlot =>
              \E g \in Holders : lease'[g] = lease[k],
           \A g, k \in Holders : lease'[g] = lease'[k] /\ lease'[g] # NoSlot => g = k
    PROVE  PoolInv'
<1>1. slots \in Seq(Slot) /\ Len(slots) \in Nat /\ DOMAIN slots = 1..Len(slots)
  BY DEF PoolInv, PoolTypeOK
<1>2. lease[h] \in 1..Len(slots) \cup {NoSlot}
  BY <1>1 DEF PoolInv, LeasesIntact
<1>3. slots' \in Seq(Slot) /\ Len(slots') = Len(slots) /\ DOMAIN slots' = 1..Len(slots)
  <2>1. slots' \in Seq(Slot) /\ Len(slots') = Len(slots)
    BY <1>1, <1>2, ReleasedSlots
  <2>2. QED
    BY <1>1, <2>1
<1>4. \A i \in 1..Len(slots) :
         /\ i # lease[h] => slots'[i] = slots[i]
         /\ i = lease[h] => ~slots'[i].inUse
  BY <1>1, <1>2, ReleasedSlots
<1>5. PoolTypeOK'
  BY <1>3 DEF PoolInv, PoolTypeOK
<1>6. LeasesIntact'
  <2>1. ASSUME NEW g \in Holders, lease'[g] # NoSlot
        PROVE  /\ lease'[g] \in DOMAIN slots'
               /\ slots'[lease'[g]].inUse /\ slots'[lease'[g]].frame = frame'[g]
    <3>1. PICK k \in Holders \ {h} : lease[k] = lease'[g] /\ frame[k] = frame'[g]
      BY <2>1
    <3>2. lease[k] # lease[h] /\ lease[k] \in 1..Len(slots)
          /\ slots[lease[k]].inUse /\ slots[lease[k]].frame = frame[k]
      BY <1>1, <2>1, <3>1 DEF PoolInv, LeasesIntact
    <3>3. slots'[lease[k]] = slots[lease[k]]
      BY <1>4, <3>2
    <3>4. QED
      BY <1>3, <3>1, <3>2, <3>3
  <2>2. QED
    BY <2>1 DEF LeasesIntact
<1>7. UseIsLeased'
  <2>1. ASSUME NEW i \in 1..Len(slots), slots'[i].inUse
        PROVE  \E g \in Holders : lease'[g] = i
    <3>1. i # lease[h] /\ slots[i].inUse
      BY <1>4, <2>1
    <3>2. PICK k \in Holders : lease[k] = i
      BY <3>1 DEF PoolInv, UseIsLeased
    <3>3. QED
      BY <3>1, <3>2, PoolAssumption
  <2>2. QED
    BY <1>3, <2>1 DEF UseIsLeased
<1>8. QED
  BY <1>3, <1>5, <1>6, <1>7 DEF PoolInv, Most

\* Releasing a lease keeps the pool's invariant.
LEMMA DropKeeps == ASSUME PoolInv, NEW h \in Holders, Drop(h) PROVE PoolInv'
<1>1. lease \in [Holders -> Nat \cup {NoSlot}] /\ frame \in [Holders -> Nat]
  BY DEF PoolInv, PoolTypeOK
<1>2. lease' \in [Holders -> Nat \cup {NoSlot}] /\ frame' \in [Holders -> Nat]
  BY <1>1 DEF Drop
<1>3. \A g \in Holders : /\ lease'[g] = IF g = h THEN NoSlot ELSE lease[g]
                         /\ g # h => frame'[g] = frame[g]
  BY <1>1 DEF Drop
<1>4. \A g, k \in Holders : lease[g] = lease[k] /\ lease[g] # NoSlot => g = k
  BY DEF PoolInv, LeasesIntact
<1>5. slots' = Released(slots, lease[h]) /\ UNCHANGED <<nextSlot, frames>>
  BY DEF Drop
<1>6. QED
  BY <1>2, <1>3, <1>4, <1>5, GivesBack

\* Moving a lease over another one, held or empty, keeps the pool's invariant.
LEMMA MoveKeeps ==
    ASSUME PoolInv, NEW from \in Holders, NEW to \in Holders, Move(from, to) PROVE PoolInv'
<1>1. lease \in [Holders -> Nat \cup {NoSlot}] /\ frame \in [Holders -> Nat] /\ from # to
  BY DEF PoolInv, PoolTypeOK, Move
<1>2. lease' \in [Holders -> Nat \cup {NoSlot}] /\ frame' \in [Holders -> Nat]
  BY <1>1 DEF Move
<1>3. \A g \in Holders :
         /\ lease'[g] = IF g = from THEN NoSlot ELSE IF g = to THEN lease[from] ELSE lease[g]
         /\ g # from => frame'[g] = IF g = to THEN frame[from] ELSE frame[g]
  BY <1>1 DEF Move
<1>4. \A g, k \in Holders : lease[g] = lease[k] /\ lease[g] # NoSlot => g = k
  BY DEF PoolInv, LeasesIntact
<1>5. slots' = Released(slots, lease[to]) /\ UNCHANGED <<nextSlot, frames>>
  BY DEF Move
<1>6. \A g \in Holders : lease'[g] # NoSlot =>
         \E k \in Holders \ {to} : lease[k] = lease'[g] /\ frame[k] = frame'[g]
  BY <1>1, <1>3
<1>7. \A k \in Holders \ {to} : lease[k] # NoSlot => \E g \in Holders : lease'[g] = lease[k]
  BY <1>1, <1>3
<1>8. \A g, k \in Holders : lease'[g] = lease'[k] /\ lease'[g] # NoSlot => g = k
  BY <1>1, <1>3, <1>4
<1>9. QED
  BY <1>2, <1>5, <1>6, <1>7, <1>8, GivesBack

\* Flattening a frame, with a free slot or a new one, keeps the pool's invariant.
LEMMA FlattenKeeps == ASSUME PoolInv, NEW h \in Holders, Flatten(h) PROVE PoolInv'
<1> DEFINE slot == Acquire.slot
           before == Acquire.slots
           e == [inUse |-> TRUE, frame |-> frames']
           written == [before EXCEPT ![slot] = e]
           back == Released(written, slot)
<1>1. slots \in Seq(Slot) /\ Len(slots) \in Nat /\ DOMAIN slots = 1..Len(slots)
  BY DEF PoolInv, PoolTypeOK
<1>2. /\ before \in Seq(Slot) /\ slot \in 1..Len(before) /\ Acquire.next \in 0..Len(before) - 1
      /\ ~before[slot].inUse
      /\ \/ before = slots
         \/ /\ before = Append(slots, [inUse |-> FALSE, frame |-> 0])
            /\ \A i \in 1..Len(slots) : slots[i].inUse
  BY AcquireFacts DEF PoolInv
<1>3. lease[h] = NoSlot /\ frames' \in Nat /\ nextSlot' = Acquire.next
  BY DEF Flatten, PoolInv, PoolTypeOK
<1>4. e \in Slot /\ e.inUse /\ e.frame = frames'
  BY <1>3 DEF Slot
<1>5. \/ /\ slots' = written
         /\ lease' = [lease EXCEPT ![h] = slot] /\ frame' = [frame EXCEPT ![h] = frames']
      \/ slots' = back /\ UNCHANGED <<lease, frame>>
  BY DEF Flatten
<1>6. /\ Len(slots) <= Len(before) /\ Len(before) <= Most
      /\ \A i \in 1..Len(slots) : before[i] = slots[i]
      /\ \A i \in 1..Len(before) : before[i].inUse => i \in 1..Len(slots)
  <2>1. CASE before = slots
    BY <1>1, <2>1 DEF PoolInv
  <2>2. CASE /\ before = Append(slots, [inUse |-> FALSE, frame |-> 0])
             /\ \A i \in 1..Len(slots) : slots[i].inUse
    <3>1. Len(before) = Len(slots) + 1 /\ before[Len(slots) + 1] = [inUse |-> FALSE, frame |-> 0]
          /\ \A i \in 1..Len(slots) : before[i] = slots[i]
      BY <1>1, <2>2
    <3>2. Len(slots) + 1 <= Most
      BY <1>3, <2>2, RoomForOne
    <3>3. QED
      BY <1>1, <3>1, <3>2
  <2>3. QED
    BY <1>2, <2>1, <2>2
<1> HIDE DEF slot, before, e
<1>7. written \in Seq(Slot) /\ Len(written) = Len(before)
      /\ \A i \in 1..Len(before) : written[i] = IF i = slot THEN e ELSE before[i]
  BY <1>2, <1>4, WrittenSlots
<1> HIDE DEF written
<1>8. back \in Seq(Slot) /\ Len(back) = Len(before)
      /\ \A i \in 1..Len(before) : IF i = slot THEN ~back[i].inUse ELSE back[i] = before[i]
  BY <1>2, <1>7, ReleasedSlots
<1> HIDE DEF back
<1>9. slots' \in Seq(Slot) /\ Len(slots') = Len(before) /\ DOMAIN slots' = 1..Len(before)
      /\ \A i \in 1..Len(before) : i # slot => slots'[i] = before[i]
  <2>1. slots' \in Seq(Slot) /\ Len(slots') = Len(before)
        /\ \A i \in 1..Len(before) : i # slot => slots'[i] = before[i]
    BY <1>5, <1>7, <1>8
  <2>2. QED
    BY <2>1
<1>10. lease \in [Holders -> Nat \cup {NoSlot}] /\ frame \in [Holders -> Nat]
  BY DEF PoolInv, PoolTypeOK
<1>11. PoolTypeOK'
  <2>1. Len(before) \in Nat /\ slot \in Nat
    BY <1>2
  <2>2. lease' \in [Holders -> Nat \cup {NoSlot}] /\ frame' \in [Holders -> Nat]
    BY <1>3, <1>5, <1>10, <2>1
  <2>3. QED
    BY <1>2, <1>3, <1>9, <2>2 DEF PoolTypeOK
\* The slot that is handed out is nobody's.
<1>12. ASSUME NEW g \in Holders, lease[g] # NoSlot
       PROVE  /\ lease[g] \in 1..Len(slots) /\ lease[g] \in 1..Len(before) /\ lease[g] # slot
              /\ slots'[lease[g]] = slots[lease[g]]
              /\ slots[lease[g]].inUse /\ slots[lease[g]].frame = frame[g]
  <2>1. lease[g] \in 1..Len(slots) /\ slots[lease[g]].inUse /\ slots[lease[g]].frame = frame[g]
    BY <1>1, <1>12 DEF PoolInv, LeasesIntact
  <2>2. before[lease[g]] = slots[lease[g]] /\ lease[g] \in 1..Len(before)
    BY <1>1, <1>2, <1>6, <2>1
  <2>3. lease[g] # slot
    BY <1>2, <2>1, <2>2
  <2>4. QED
    BY <1>9, <2>1, <2>2, <2>3
<1>13. \A g, k \in Holders : lease[g] = lease[k] /\ lease[g] # NoSlot => g = k
  BY DEF PoolInv, LeasesIntact
<1>14. ASSUME NEW i \in 1..Len(before), i # slot, slots'[i].inUse
       PROVE  \E g \in Holders \ {h} : lease[g] = i
  <2>1. before[i].inUse /\ i \in 1..Len(slots)
    <3>1. slots'[i] = before[i]
      BY <1>9, <1>14
    <3>2. before[i].inUse
      BY <1>14, <3>1, Zenon
    <3>3. QED
      BY <1>6, <3>2, Zenon
  <2>2. slots[i].inUse
    BY <1>6, <2>1
  <2>3. PICK g \in Holders : lease[g] = i
    BY <2>1, <2>2 DEF PoolInv, UseIsLeased
  <2>4. QED
    BY <1>3, <2>1, <2>3, PoolAssumption
<1>15. LeasesIntact' /\ UseIsLeased'
  <2>1. CASE /\ slots' = written /\ lease' = [lease EXCEPT ![h] = slot]
             /\ frame' = [frame EXCEPT ![h] = frames']
    <3>1. lease'[h] = slot /\ frame'[h] = frames' /\ slots'[slot] = e
      BY <1>2, <1>7, <1>10, <2>1
    <3>2. \A g \in Holders \ {h} : lease'[g] = lease[g] /\ frame'[g] = frame[g]
      BY <1>10, <2>1
    <3>3. LeasesIntact'
      <4>1. ASSUME NEW g \in Holders, lease'[g] # NoSlot
            PROVE  /\ lease'[g] \in DOMAIN slots'
                   /\ slots'[lease'[g]].inUse /\ slots'[lease'[g]].frame = frame'[g]
        <5>1. CASE g = h
          BY <1>2, <1>4, <1>9, <3>1, <5>1
        <5>2. CASE g # h
          BY <1>9, <1>12, <3>2, <4>1, <5>2
        <5>3. QED
          BY <5>1, <5>2
      <4>2. ASSUME NEW g \in Holders, NEW k \in Holders,
                   lease'[g] = lease'[k], lease'[g] # NoSlot
            PROVE  g = k
        BY <1>12, <1>13, <3>1, <3>2, <4>2
      <4>3. QED
        BY <4>1, <4>2 DEF LeasesIntact
    <3>4. UseIsLeased'
      BY <1>9, <1>14, <3>1, <3>2 DEF UseIsLeased
    <3>5. QED
      BY <3>3, <3>4
  <2>2. CASE slots' = back /\ UNCHANGED <<lease, frame>>
    <3>1. LeasesIntact'
      BY <1>9, <1>12, <1>13, <2>2 DEF LeasesIntact
    <3>2. ~slots'[slot].inUse
      BY <1>2, <1>8, <2>2
    <3>3. UseIsLeased'
      BY <1>9, <1>14, <2>2, <3>2 DEF UseIsLeased
    <3>4. QED
      BY <3>1, <3>3
  <2>3. QED
    BY <1>5, <2>1, <2>2
<1>16. (Len(slots) <= Most)'
  BY <1>6, <1>9 DEF Most
<1>17. QED
  BY <1>11, <1>15, <1>16 DEF PoolInv
-----------------------------------------------------------------------------
\* The pool's invariant holds in every reachable state.
LEMMA PoolInvHolds == PoolSpec => []PoolInv
<1>1. PoolInit => PoolInv
  BY InitHolds
<1>2. PoolInv /\ [PoolNext]_poolVars => PoolInv'
  <2> SUFFICES ASSUME PoolInv, [PoolNext]_poolVars PROVE PoolInv'
    OBVIOUS
  <2>1. CASE \E h \in Holders : Flatten(h)
    BY <2>1, FlattenKeeps
  <2>2. CASE \E h \in Holders : Drop(h)
    BY <2>2, DropKeeps
  <2>3. CASE \E from, to \in Holders : Move(from, to)
    BY <2>3, MoveKeeps
  <2>4. CASE UNCHANGED poolVars
    BY <2>4 DEF poolVars, pool, PoolInv, PoolTypeOK, LeasesIntact, UseIsLeased, Most
  <2>5. QED
    BY <2>1, <2>2, <2>3, <2>4 DEF PoolNext
<1>3. QED
  BY <1>1, <1>2, PTL DEF PoolSpec

\* FlatBufferPool hands no slot out while it is leased, so a frame stays as it was
\* written for as long as its lease is held, for any number of leases and frames.
THEOREM FramesStayWhole == PoolSpec => []LeasesIntact
<1>1. PoolInv => LeasesIntact
  BY DEF PoolInv
<1>2. QED
  BY <1>1, PoolInvHolds, PTL

\* FlatBufferPool loses no slot: those in use are those that are leased, and it grows no
\* further than the leases that can be held at a time.
THEOREM PoolStaysSmall == PoolSpec => []NoSlotLost
<1>1. PoolInv => NoSlotLost
  <2> SUFFICES ASSUME PoolInv PROVE NoSlotLost
    OBVIOUS
  <2>1. DOMAIN slots = 1..Len(slots)
    BY DEF PoolInv, PoolTypeOK
  <2>2. {i \in DOMAIN slots : slots[i].inUse} \subseteq Leased
    BY <2>1, PoolAssumption DEF PoolInv, UseIsLeased, Leased
  <2>3. Leased \subseteq {i \in DOMAIN slots : slots[i].inUse}
    BY DEF PoolInv, LeasesIntact, Leased
  <2>4. QED
    BY <2>2, <2>3 DEF NoSlotLost, PoolInv, Most
<1>2. QED
  BY <1>1, PoolInvHolds, PTL
-----------------------------------------------------------------------------
(***************************************************************************)
(* Telemetry                                                               *)
(***************************************************************************)
\* The invariant of the log: the size that is counted is the size there is, the samples of
\* the active session are those recorded for it, and a summary's session is over.
Entries == {"start", "sample", "end"}

LogTyped ==
    /\ active \in [id : SessionIds \cup {0}, samples : Seq(Values)]
    /\ file \in Seq(Entries) /\ fileSize \in Nat /\ isOpen \in BOOLEAN
    /\ streaming \subseteq started /\ started \subseteq SessionIds
    /\ recorded \in [SessionIds -> Seq(Values)]

SamplesOwned ==
    /\ active.id # 0 => active.id \in started /\ recorded[active.id] = active.samples
    /\ \A id \in SessionIds \ started : recorded[id] = <<>>
    /\ summary.id # 0 => summary.id \in started /\ summary.id # active.id

LogInv == /\ LogTyped /\ SamplesOwned /\ LogBounded /\ SummaryFaithful
          /\ isOpen => fileSize = Bytes(file)

\* The long entries among the first Len(entries).
Long(entries) == {i \in DOMAIN entries : entries[i] # "sample"}

\* A session start and end count for three lines, a sample for one.
LEMMA BytesByLong == \A s : Bytes(s) = Len(s) + 2 * Cardinality(Long(s))
BY DEF Bytes, Long

\* The size of a file is a number.
LEMMA BytesType ==
    ASSUME NEW s \in Seq(Entries)
    PROVE  IsFiniteSet(Long(s)) /\ Cardinality(Long(s)) \in Nat /\ Bytes(s) \in Nat
<1>1. Len(s) \in Nat /\ IsFiniteSet(1..Len(s)) /\ DOMAIN s = 1..Len(s)
  BY FS_Interval, LenProperties
<1>2. IsFiniteSet(Long(s)) /\ Cardinality(Long(s)) \in Nat
  BY <1>1, FS_Subset, FS_CardinalityType DEF Long
<1>3. QED
  BY <1>1, <1>2, BytesByLong

\* An entry adds its size to the file's.
LEMMA BytesAppended ==
    ASSUME NEW s \in Seq(Entries), NEW e \in Entries
    PROVE  /\ Append(s, e) \in Seq(Entries) /\ Bytes(Append(s, e)) = Bytes(s) + Size(e)
<1> DEFINE t == Append(s, e)
<1>1. /\ t \in Seq(Entries) /\ Len(t) = Len(s) + 1 /\ Len(s) \in Nat
      /\ DOMAIN s = 1..Len(s) /\ DOMAIN t = 1..Len(s) + 1
      /\ t[Len(s) + 1] = e /\ \A i \in 1..Len(s) : t[i] = s[i]
  BY AppendProperties, LenProperties
<1>0. Bytes(t) = Len(t) + 2 * Cardinality(Long(t)) /\ Bytes(s) = Len(s) + 2 * Cardinality(Long(s))
  BY BytesByLong
<1> HIDE DEF t
<1>2. IsFiniteSet(Long(s)) /\ Cardinality(Long(s)) \in Nat
  BY BytesType
<1>3. ASSUME e = "sample" PROVE Bytes(t) = Bytes(s) + Size(e)
  <2>1. Long(t) = Long(s)
    BY <1>1, <1>3 DEF Long
  <2>2. QED
    BY <1>0, <1>1, <1>2, <1>3, <2>1 DEF Size
<1>4. ASSUME e # "sample" PROVE Bytes(t) = Bytes(s) + Size(e)
  <2>1. Long(t) = Long(s) \cup {Len(s) + 1} /\ Len(s) + 1 \notin Long(s)
    BY <1>1, <1>4 DEF Long
  <2>2. Cardinality(Long(t)) = Cardinality(Long(s)) + 1
    BY <1>2, <2>1, FS_AddElement
  <2>3. QED
    BY <1>0, <1>1, <1>2, <1>4, <2>2 DEF Size
<1>5. t \in Seq(Entries) /\ Bytes(t) = Bytes(s) + Size(e)
  BY <1>1, <1>3, <1>4
<1>6. QED
  BY <1>5 DEF t

\* The size of a file just rotated: its one entry.
LEMMA BytesOfOne ==
    ASSUME NEW e \in Entries
    PROVE  <<e>> \in Seq(Entries) /\ Bytes(<<e>>) = Size(e) /\ Len(<<e>>) = 1
<1>1. << >> \in Seq(Entries) /\ Append(<< >>, e) = <<e>> /\ Len(<<>>) = 0
  OBVIOUS
<1>2. Bytes(<< >>) = 0
  <2>1. Long(<< >>) = {}
    BY DEF Long
  <2>2. QED
    BY <2>1, FS_EmptySet, <1>1 DEF Bytes, Long
<1>3. Size(e) \in Nat
  BY DEF Size
<1>4. Append(<< >>, e) \in Seq(Entries) /\ Bytes(Append(<< >>, e)) = Bytes(<< >>) + Size(e)
  BY <1>1, BytesAppended
<1>5. Len(<<e>>) = 1
  OBVIOUS
<1>6. QED
  BY <1>1, <1>2, <1>3, <1>4, <1>5

\* Whatever is written, and whatever a rotation does, the log stays under its limit.
LEMMA WriteKeeps ==
    ASSUME file \in Seq(Entries), fileSize \in Nat, isOpen => fileSize = Bytes(file),
           LogBounded, NEW e \in Entries, Write(e)
    PROVE  /\ file' \in Seq(Entries) /\ fileSize' \in Nat /\ isOpen' = TRUE
           /\ fileSize' = Bytes(file') /\ LogBounded'
<1> DEFINE size == IF isOpen THEN fileSize ELSE Bytes(file)
<1>1. size = Bytes(file) /\ Bytes(file) \in Nat /\ Size(e) \in Nat /\ MaxFileSize \in Nat
  BY BytesType, TelemetryAssumption DEF Size
<1>2. CASE size + Size(e) < MaxFileSize
  <2>1. file' = Append(file, e) /\ fileSize' = size + Size(e) /\ isOpen' = TRUE
    BY <1>2 DEF Write
  <2>2. QED
    BY <1>1, <1>2, <2>1, BytesAppended DEF LogBounded
<1>3. CASE ~(size + Size(e) < MaxFileSize)
  <2>1. file' = <<e>> /\ fileSize' = Size(e) /\ isOpen' = TRUE
    BY <1>3 DEF Write
  <2>2. QED
    BY <1>1, <2>1, BytesOfOne DEF LogBounded
<1>4. QED
  BY <1>2, <1>3
-----------------------------------------------------------------------------
(***************************************************************************)
(* Percentiles.                                                            *)
(***************************************************************************)
\* The samples up to the i-th, those of the same value in the order they came.
UpTo(s, i) == {j \in DOMAIN s : s[j] < s[i] \/ (s[j] = s[i] /\ j <= i)}

\* Every sequence of numbers can be sorted: the i-th sample's place is how many there are
\* up to it.
LEMMA SortedExists ==
    ASSUME NEW s \in Seq(Nat)
    PROVE  /\ Sorted(s) \in Bijection(DOMAIN s, DOMAIN s)
           /\ \A i, j \in DOMAIN s : i < j => s[Sorted(s)[i]] <= s[Sorted(s)[j]]
<1> DEFINE n == Len(s)
           rank == [i \in 1..n |-> Cardinality(UpTo(s, i))]
<1>1. n \in Nat /\ DOMAIN s = 1..n /\ \A i \in 1..n : s[i] \in Nat
  BY LenProperties, ElementOfSeq
<1>2. IsFiniteSet(1..n) /\ Cardinality(1..n) = n
  BY <1>1, FS_Interval
<1>3. ASSUME NEW i \in 1..n
      PROVE  /\ IsFiniteSet(UpTo(s, i)) /\ rank[i] \in 1..n /\ i \in UpTo(s, i)
             /\ rank[i] = Cardinality(UpTo(s, i))
  <2>1. UpTo(s, i) \subseteq 1..n /\ i \in UpTo(s, i)
    BY <1>1 DEF UpTo
  <2>2. /\ IsFiniteSet(UpTo(s, i)) /\ Cardinality(UpTo(s, i)) \in Nat
        /\ Cardinality(UpTo(s, i)) <= n
    BY <1>1, <1>2, <2>1, FS_Subset, FS_CardinalityType
  <2>3. Cardinality(UpTo(s, i)) # 0
    BY <2>1, <2>2, FS_EmptySet
  <2>4. QED
    BY <1>1, <2>1, <2>2, <2>3
<1>4. ASSUME NEW i \in 1..n, NEW j \in 1..n, s[i] < s[j] \/ (s[i] = s[j] /\ i < j)
      PROVE  rank[i] < rank[j]
  <2>1. UpTo(s, i) \subseteq UpTo(s, j) /\ j \notin UpTo(s, i)
    BY <1>1, <1>4 DEF UpTo
  <2>2. UpTo(s, i) # UpTo(s, j)
    BY <1>3, <2>1
  <2>3. /\ IsFiniteSet(UpTo(s, i)) /\ IsFiniteSet(UpTo(s, j))
        /\ Cardinality(UpTo(s, i)) <= Cardinality(UpTo(s, j))
        /\ Cardinality(UpTo(s, i)) # Cardinality(UpTo(s, j))
    BY <1>3, <2>1, <2>2, FS_Subset
  <2>4. Cardinality(UpTo(s, i)) \in Nat /\ Cardinality(UpTo(s, j)) \in Nat
    BY <2>3, FS_CardinalityType
  <2>5. QED
    BY <1>3, <2>3, <2>4
<1>5. rank \in Injection(1..n, 1..n)
  <2>1. rank \in [1..n -> 1..n]
    BY <1>3
  <2>2. \A i, j \in 1..n : rank[i] = rank[j] => i = j
    <3>1. SUFFICES ASSUME NEW i \in 1..n, NEW j \in 1..n, rank[i] = rank[j], i # j PROVE FALSE
      OBVIOUS
    <3>2. rank[i] \in Nat /\ rank[j] \in Nat /\ s[i] \in Nat /\ s[j] \in Nat /\ i \in Nat /\ j \in Nat
      <4>1. rank[i] \in 1..n /\ rank[j] \in 1..n
        BY <1>3
      <4> HIDE DEF rank
      <4>2. QED
        BY <1>1, <4>1
    <3>3. \/ s[i] < s[j] \/ (s[i] = s[j] /\ i < j)
          \/ s[j] < s[i] \/ (s[j] = s[i] /\ j < i)
      BY <3>1, <3>2
    <3>4. rank[i] < rank[j] \/ rank[j] < rank[i]
      BY <1>4, <3>3
    <3>5. QED
      BY <3>1, <3>2, <3>4
  <2>3. QED
    BY <2>1, <2>2 DEF Injection, IsInjective
<1>6. rank \in Surjection(1..n, 1..n)
  BY <1>2, <1>5, FS_Injection
<1> HIDE DEF rank
<1> DEFINE p == [k \in 1..n |-> CHOOSE i \in 1..n : rank[i] = k]
<1>7. \A k \in 1..n : p[k] \in 1..n /\ rank[p[k]] = k
  BY <1>6 DEF Surjection
<1>8. p \in Bijection(1..n, 1..n)
  <2>1. p \in [1..n -> 1..n]
    BY <1>7
  <2>2. \A k, l \in 1..n : p[k] = p[l] => k = l
    BY <1>7
  <2>3. p \in Injection(1..n, 1..n)
    BY <2>1, <2>2 DEF Injection, IsInjective
  <2>4. p \in Surjection(1..n, 1..n)
    BY <1>2, <2>3, FS_Injection
  <2>5. QED
    BY <2>3, <2>4 DEF Bijection
<1>9. ASSUME NEW k \in 1..n, NEW l \in 1..n, k < l PROVE s[p[k]] <= s[p[l]]
  <2>1. p[k] \in 1..n /\ p[l] \in 1..n /\ rank[p[k]] = k /\ rank[p[l]] = l
    BY <1>7
  <2>2. s[p[k]] \in Nat /\ s[p[l]] \in Nat /\ k \in Nat /\ l \in Nat
    BY <1>1, <2>1
  <2>3. ~(s[p[l]] < s[p[k]])
    BY <1>4, <1>9, <2>1, <2>2
  <2>4. QED
    BY <2>2, <2>3
<1> HIDE DEF p
<1>10. QED
  BY <1>1, <1>8, <1>9 DEF Sorted

\* There are m numbers from 1 to m.
LEMMA CountTo == \A m \in Nat : Cardinality(1..m) = m /\ IsFiniteSet(1..m)
<1> TAKE m \in Nat
<1>1. m \in Int /\ 1 \in Int /\ m - 1 + 1 = m
  OBVIOUS
<1>2. CASE m = 0
  <2>1. 1..m = {}
    BY <1>2
  <2>2. QED
    BY <1>2, <2>1, FS_EmptySet
<1>3. CASE m # 0
  <2>1. 1 <= m
    BY <1>3
  <2>2. QED
    BY <1>1, <2>1, FS_Interval
<1>4. QED
  BY <1>2, <1>3

\* The k-th of the sorted samples has k samples at or below it, and less than k below.
LEMMA KthSample ==
    ASSUME NEW s \in Seq(Nat), NEW k \in 1..Len(s), NEW v, v = s[Sorted(s)[k]]
    PROVE  /\ v \in ToSet(s) /\ v \in Nat
           /\ AtMost(s, v) \in Nat /\ AtMost(s, v) >= k
           /\ AtMost(s, v - 1) \in Nat /\ AtMost(s, v - 1) < k
<1> DEFINE n == Len(s)
           p == Sorted(s)
           low == {i \in DOMAIN s : s[i] <= v}
           less == {i \in DOMAIN s : s[i] <= v - 1}
<1>1. n \in Nat /\ DOMAIN s = 1..n /\ \A i \in 1..n : s[i] \in Nat
  BY LenProperties, ElementOfSeq
<1>2. /\ p \in Bijection(1..n, 1..n)
      /\ \A i, j \in 1..n : i < j => s[p[i]] <= s[p[j]]
  BY <1>1, SortedExists
<1> HIDE DEF p
<1>3. /\ p \in [1..n -> 1..n] /\ \A i, j \in 1..n : p[i] = p[j] => i = j
      /\ \A i \in 1..n : \E j \in 1..n : p[j] = i
  BY <1>2 DEF Bijection, Injection, IsInjective, Surjection
<1>4. v = s[p[k]] /\ v \in Nat /\ v \in ToSet(s)
  BY <1>1, <1>3 DEF p, ToSet
<1>5. IsFiniteSet(low) /\ IsFiniteSet(less) /\ Cardinality(low) \in Nat /\ Cardinality(less) \in Nat
  <2>1. IsFiniteSet(1..n) /\ low \subseteq 1..n /\ less \subseteq 1..n
    <3>1. low \subseteq DOMAIN s /\ less \subseteq DOMAIN s
      OBVIOUS
    <3>2. IsFiniteSet(1..n) /\ DOMAIN s = 1..n
      BY <1>1, FS_Interval
    <3> HIDE DEF low, less
    <3>3. QED
      BY <3>1, <3>2
  <2>2. QED
    BY <2>1, FS_Subset, FS_CardinalityType
<1>6. Cardinality(low) >= k
  <2> DEFINE g == [i \in 1..k |-> p[i]]
  <2>1. k \in Nat /\ 1..k \subseteq 1..n
    BY <1>1
  <2>2. g \in Injection(1..k, low)
    <3>1. ASSUME NEW i \in 1..k PROVE p[i] \in low
      <4>1. i \in 1..n /\ i \in Nat /\ (i = k \/ i < k)
        BY <2>1
      <4>0. p[i] \in 1..n
        BY <1>3, <4>1
      <4>2. s[p[i]] \in Nat /\ s[p[i]] <= v
        BY <1>1, <1>2, <1>4, <4>1, <4>0
      <4>3. QED
        BY <1>1, <4>0, <4>2
    <3>2. QED
      BY <1>3, <2>1, <3>1 DEF Injection, IsInjective
  <2>3. Cardinality(1..k) = k /\ IsFiniteSet(1..k)
    BY <2>1, CountTo
  <2>4. Cardinality(1..k) <= Cardinality(low)
    BY <1>5, <2>2, FS_Injection
  <2>5. QED
    BY <1>5, <2>1, <2>3, <2>4
<1>7. Cardinality(less) < k
  <2> DEFINE P == {p[i] : i \in 1..k - 1}
             g == [i \in 1..k - 1 |-> p[i]]
  <2>1. k \in Nat /\ k - 1 \in Nat /\ \A i \in 1..k - 1 : i \in 1..n /\ i < k
    BY <1>1
  <2>2. less \subseteq P
    <3>1. SUFFICES ASSUME NEW i \in less PROVE i \in P
      OBVIOUS
    <3>2. PICK j \in 1..n : p[j] = i
      BY <1>1, <1>3
    <3>3. j < k
      <4>1. s[p[j]] \in Nat /\ s[p[j]] <= v - 1
        BY <1>1, <3>1, <3>2
      <4>2. j # k /\ ~(k < j)
        <5>1. v <= s[p[j]] => FALSE
          BY <1>4, <4>1
        <5>2. k < j => v <= s[p[j]]
          BY <1>2, <1>4
        <5>3. j = k => v <= s[p[j]]
          BY <1>4
        <5>4. QED
          BY <5>1, <5>2, <5>3
      <4>3. QED
        BY <1>1, <4>2
    <3>4. QED
      BY <1>1, <3>2, <3>3
  <2>3. g \in Surjection(1..k - 1, P)
    BY DEF Surjection
  <2>4. Cardinality(1..k - 1) = k - 1 /\ IsFiniteSet(1..k - 1)
    BY <2>1, CountTo
  <2>5. IsFiniteSet(P) /\ Cardinality(P) <= k - 1
    BY <2>3, <2>4, FS_Surjection
  <2>6. Cardinality(less) <= Cardinality(P) /\ Cardinality(P) \in Nat
    BY <2>2, <2>5, FS_Subset, FS_CardinalityType
  <2>7. QED
    BY <1>5, <2>1, <2>5, <2>6
<1>8. QED
  BY <1>4, <1>5, <1>6, <1>7 DEF AtMost

\* k is the least of n places to make up a share of c percent.
MakesUp(k, n, c) == k \in 1..n /\ k * 100 >= c * n /\ (k - 1) * 100 < c * n

\* A percentile's index does.
LEMMA Index ==
    ASSUME NEW n \in Nat \ {0}, NEW c \in {50, 95, 99}
    PROVE  MakesUp(CeilDiv(c * n, 100), n, c)
<1>1. CASE c = 50
  BY <1>1 DEF CeilDiv, MakesUp
<1>2. CASE c = 95
  BY <1>2 DEF CeilDiv, MakesUp
<1>3. CASE c = 99
  BY <1>3 DEF CeilDiv, MakesUp
<1>4. QED
  BY <1>1, <1>2, <1>3

\* What percentile(p) returns: a sample, below which too few are for p percent.
LEMMA PercentileFacts ==
    ASSUME NEW s \in Seq(Nat), s # <<>>, NEW c \in {50, 95, 99}, NEW v, v = Percentile(s, c)
    PROVE  /\ v \in ToSet(s)
           /\ AtMost(s, v) * 100 >= c * Len(s)
           /\ AtMost(s, v - 1) * 100 < c * Len(s)
<1> DEFINE k == CeilDiv(c * Len(s), 100)
           low == AtMost(s, v)
           less == AtMost(s, v - 1)
           goal == c * Len(s)
<1>1. Len(s) \in Nat \ {0}
  BY EmptySeq, LenProperties
<1>2. k \in 1..Len(s) /\ k * 100 >= goal /\ (k - 1) * 100 < goal
  <2>1. MakesUp(k, Len(s), c)
    BY <1>1, Index
  <2>2. QED
    BY <2>1 DEF MakesUp
<1>3. v = s[Sorted(s)[k]]
  BY DEF Percentile
<1> HIDE DEF k
<1>4. /\ v \in ToSet(s) /\ low \in Nat /\ low >= k /\ less \in Nat /\ less < k
  BY <1>2, <1>3, KthSample
<1>5. goal \in Nat /\ k \in Nat
  BY <1>1, <1>2
<1> HIDE DEF low, less, k, goal
<1>6. low * 100 >= goal /\ less * 100 < goal
  BY <1>2, <1>4, <1>5
<1>7. QED
  BY <1>4, <1>6 DEF low, less, goal
-----------------------------------------------------------------------------
\* No session, and no log.
LEMMA LogInitHolds == LogInit => LogInv
<1> SUFFICES ASSUME LogInit PROVE LogInv
  OBVIOUS
<1> USE DEF LogInit, NoSession, NoSummary
<1>1. LogTyped
  <2>1. active \in [id : SessionIds \cup {0}, samples : Seq(Values)]
    OBVIOUS
  <2>2. recorded \in [SessionIds -> Seq(Values)]
    OBVIOUS
  <2>3. file \in Seq(Entries) /\ fileSize \in Nat
    OBVIOUS
  <2>4. isOpen \in BOOLEAN
    OBVIOUS
  <2>5. QED
    BY <2>1, <2>2, <2>3, <2>4 DEF LogTyped
<1>2. SamplesOwned
  BY DEF SamplesOwned
<1>3. LogBounded
  BY DEF LogBounded
<1>4. SummaryFaithful
  BY DEF SummaryFaithful
<1>5. QED
  BY <1>1, <1>2, <1>3, <1>4 DEF LogInv

\* A session starts with no samples, over the one before.
LEMMA StartKeeps ==
    ASSUME LogInv, NEW id \in SessionIds, SessionStart(id)
    PROVE  LogInv'
<1> USE DEF LogInv
<1>1. /\ file' \in Seq(Entries) /\ fileSize' \in Nat /\ isOpen' = TRUE
      /\ fileSize' = Bytes(file') /\ LogBounded'
  BY WriteKeeps DEF SessionStart, LogTyped, Entries
<1>2. /\ active' = [id |-> id, samples |-> <<>>] /\ started' = started \cup {id}
      /\ streaming' = streaming \cup {id} /\ recorded' = recorded /\ summary' = summary
      /\ id \notin started /\ id # 0
  BY TelemetryAssumption DEF SessionStart
<1>3. LogTyped'
  BY <1>1, <1>2 DEF LogTyped
<1>4. SamplesOwned'
  BY <1>2 DEF SamplesOwned
<1>5. SummaryFaithful'
  BY <1>2 DEF SummaryFaithful
<1>6. QED
  BY <1>1, <1>3, <1>4, <1>5

\* A sample counts for the session that is active, or for none.
LEMMA RecordKeeps ==
    ASSUME LogInv, NEW id \in SessionIds, NEW value \in Values, Record(id, value)
    PROVE  LogInv'
<1> USE DEF LogInv
<1>1. /\ file' \in Seq(Entries) /\ fileSize' \in Nat /\ isOpen' = TRUE
      /\ fileSize' = Bytes(file') /\ LogBounded'
  BY WriteKeeps DEF Record, LogTyped, Entries
<1>2. streaming' = streaming /\ started' = started /\ summary' = summary
  BY DEF Record
<1>3. CASE active.id = id
  <2>1. /\ active' = [active EXCEPT !.samples = Append(active.samples, value)]
        /\ recorded' = [recorded EXCEPT ![id] = Append(recorded[id], value)]
    BY <1>3 DEF Record
  <2>2. /\ active'.id = id /\ active'.samples = Append(active.samples, value)
        /\ active' \in [id : SessionIds \cup {0}, samples : Seq(Values)]
        /\ recorded'[id] = Append(recorded[id], value) /\ recorded' \in [SessionIds -> Seq(Values)]
        /\ \A other \in SessionIds : other # id => recorded'[other] = recorded[other]
    BY <1>3, <2>1, AppendProperties DEF LogTyped
  <2>3. id # 0 /\ id \in started
    BY <1>3, TelemetryAssumption DEF SamplesOwned
  <2>4. summary.id # 0 => summary.id \in SessionIds /\ recorded'[summary.id] = recorded[summary.id]
    BY <1>3, <2>2 DEF SamplesOwned, LogTyped
  <2>5. LogTyped'
    BY <1>1, <1>2, <2>2 DEF LogTyped
  <2>6. SamplesOwned'
    BY <1>2, <1>3, <2>2, <2>3 DEF SamplesOwned
  <2>7. SummaryFaithful'
    BY <1>2, <2>4 DEF SummaryFaithful
  <2>8. QED
    BY <1>1, <2>5, <2>6, <2>7
<1>4. CASE active.id # id
  <2>1. active' = active /\ recorded' = recorded
    BY <1>4 DEF Record
  <2>2. LogTyped' /\ SamplesOwned' /\ SummaryFaithful'
    BY <1>1, <1>2, <2>1 DEF LogTyped, SamplesOwned, SummaryFaithful
  <2>3. QED
    BY <1>1, <2>2
<1>5. QED
  BY <1>3, <1>4

\* The end of the active session writes its summary; any other end is one line.
LEMMA EndKeeps ==
    ASSUME LogInv, NEW id \in SessionIds, SessionEnd(id)
    PROVE  LogInv'
<1> USE DEF LogInv
<1>1. /\ file' \in Seq(Entries) /\ fileSize' \in Nat /\ isOpen' = TRUE
      /\ fileSize' = Bytes(file') /\ LogBounded'
  BY WriteKeeps DEF SessionEnd, LogTyped, Entries
<1>2. /\ streaming' = streaming \ {id} /\ started' = started /\ recorded' = recorded
      /\ id \in started /\ id # 0
  BY TelemetryAssumption DEF SessionEnd, LogTyped
<1>3. CASE active.id = id
  <2> DEFINE s == active.samples
  <2>1. /\ active' = NoSession
        /\ summary' = IF s = <<>> THEN [NoSummary EXCEPT !.id = id]
                      ELSE [id |-> id, samples |-> s, p50 |-> Percentile(s, 50),
                            p95 |-> Percentile(s, 95), p99 |-> Percentile(s, 99)]
    BY <1>3 DEF SessionEnd
  <2>2. summary'.id = id /\ summary'.samples = s
    BY <2>1 DEF NoSummary
  <2>3. s \in Seq(Nat) /\ s = recorded[id]
    <3>1. s \in Seq(Values) /\ s = recorded[id]
      BY <1>2, <1>3 DEF LogTyped, SamplesOwned
    <3>2. Values \subseteq Nat
      BY TelemetryAssumption
    <3>3. QED
      BY <3>1, <3>2, SeqMonotonic
  <2>4. ASSUME s # <<>>,
               NEW q \in {<<50, summary'.p50>>, <<95, summary'.p95>>, <<99, summary'.p99>>}
        PROVE  /\ q[2] \in ToSet(s)
               /\ AtMost(s, q[2]) * 100 >= q[1] * Len(s)
               /\ AtMost(s, q[2] - 1) * 100 < q[1] * Len(s)
    <3>1. q[1] \in {50, 95, 99} /\ q[2] = Percentile(s, q[1])
      BY <2>1, <2>4
    <3>2. QED
      BY <2>3, <2>4, <3>1, PercentileFacts
  <2>5. LogTyped'
    BY <1>1, <1>2, <2>1 DEF LogTyped, NoSession
  <2>6. SamplesOwned'
    BY <1>2, <2>1, <2>2 DEF SamplesOwned, NoSession
  <2>7. SummaryFaithful'
    BY <1>2, <2>2, <2>3, <2>4 DEF SummaryFaithful
  <2>8. QED
    BY <1>1, <2>5, <2>6, <2>7
<1>4. CASE active.id # id
  <2>1. active' = active /\ summary' = summary
    BY <1>4 DEF SessionEnd
  <2>2. LogTyped' /\ SamplesOwned' /\ SummaryFaithful'
    BY <1>1, <1>2, <2>1 DEF LogTyped, SamplesOwned, SummaryFaithful
  <2>3. QED
    BY <1>1, <2>2
<1>5. QED
  BY <1>3, <1>4

\* A crash forgets the session and the size, not the file.
LEMMA RestartKeeps == ASSUME LogInv, Restart PROVE LogInv'
<1> USE DEF LogInv, Restart, NoSession, NoSummary
<1>1. LogTyped'
  <2>1. active' \in [id : SessionIds \cup {0}, samples : Seq(Values)]
    OBVIOUS
  <2>2. recorded' \in [SessionIds -> Seq(Values)]
    OBVIOUS
  <2>3. file' \in Seq(Entries) /\ fileSize' \in Nat /\ isOpen' \in BOOLEAN
    BY DEF LogTyped
  <2>4. QED
    BY <2>1, <2>2, <2>3 DEF LogTyped
<1>2. SamplesOwned'
  BY DEF SamplesOwned
<1>3. LogBounded' /\ SummaryFaithful'
  BY DEF LogBounded, SummaryFaithful
<1>4. QED
  BY <1>1, <1>2, <1>3

\* The log keeps its invariant.
LEMMA LogAlways == LogSpec => []LogInv
<1>1. LogInv /\ [LogNext]_logVars => LogInv'
  <2>1. CASE UNCHANGED logVars
    BY <2>1 DEF logVars, LogInv, LogTyped, SamplesOwned, LogBounded, SummaryFaithful
  <2>2. QED
    BY <2>1, StartKeeps, RecordKeeps, EndKeeps, RestartKeeps DEF LogNext
<1>2. QED
  BY <1>1, LogInitHolds, PTL DEF LogSpec

\* The log never grows past maxFileSizeBytes_, whatever was there at the start and whether
\* or not the old log can be moved aside (rotateIfNeededLocked).
THEOREM LogStaysBounded == LogSpec => []LogBounded
<1>1. LogInv => LogBounded
  BY DEF LogInv
<1>2. QED
  BY <1>1, LogAlways, PTL

\* A summary has the samples recorded for its session and no others, and its percentiles are
\* the nearest ranks of these samples (logSessionEnd, percentile).
THEOREM SummariesAreFaithful == LogSpec => []SummaryFaithful
<1>1. LogInv => SummaryFaithful
  BY DEF LogInv
<1>2. QED
  BY <1>1, LogAlways, PTL
-----------------------------------------------------------------------------
(***************************************************************************)
(* TestMedia: the readers and the stream.  The readers' loops are steps,   *)
(* so what they cut is an invariant of the steps and not a computation to  *)
(* do induction over.  CutNext to IdrGrows say what one NAL unit adds to   *)
(* the access units, AdjacentNext to CountShorts what one item of the      *)
(* audio file adds to the packets.                                         *)
(***************************************************************************)

\* Where something stands in a file, from 1.
Positions == Nat \ {0}
Runs == Seq(Positions)

\* A sequence and what is appended to it, element by element.
LEMMA AppendFacts ==
    ASSUME NEW S, NEW s \in Seq(S), NEW x \in S
    PROVE  /\ Append(s, x) \in Seq(S) /\ Append(s, x) # <<>>
           /\ Len(Append(s, x)) = Len(s) + 1
           /\ DOMAIN s = 1..Len(s) /\ DOMAIN Append(s, x) = 1..Len(s) + 1
           /\ \A k \in 1..Len(s) : Append(s, x)[k] = s[k]
           /\ Append(s, x)[Len(s) + 1] = x
BY AppendProperties

\* What holds of every sequence of positions, in words that name no set of them.
LEMMA RunFacts ==
    ASSUME NEW u \in Runs
    PROVE  /\ u \in Seq(Positions)
           /\ Len(u) \in Nat /\ DOMAIN u = 1..Len(u) /\ (u = <<>> <=> Len(u) = 0)
           /\ \A j \in 1..Len(u) : u[j] \in Nat \ {0}
BY DEF Runs, Positions

\* One more position at the end of a run.
LEMMA RunAppend ==
    ASSUME NEW u \in Runs, NEW x \in Nat \ {0}
    PROVE  /\ Append(u, x) \in Runs /\ Append(u, x) # <<>>
           /\ Len(Append(u, x)) = Len(u) + 1
           /\ DOMAIN Append(u, x) = 1..Len(u) + 1
           /\ \A j \in 1..Len(u) : Append(u, x)[j] = u[j]
           /\ Append(u, x)[Len(u) + 1] = x
<1>1. u \in Seq(Positions) /\ x \in Positions
  BY DEF Runs, Positions
<1>2. QED
  BY <1>1, AppendFacts DEF Runs

\* One of the sequences a cut consists of.
LEMMA CutFacts ==
    ASSUME NEW us \in Seq(Runs), NEW n \in Nat, CutsInto(us, n), NEW k \in 1..Len(us)
    PROVE  /\ us[k] \in Runs /\ us[k] # <<>> /\ Len(us[k]) \in Nat \ {0}
           /\ DOMAIN us[k] = 1..Len(us[k])
           /\ \A j \in 1..Len(us[k]) : us[k][j] \in 1..n /\ us[k][j] = us[k][1] + j - 1
           /\ us[k][1] \in 1..n
           /\ k = Len(us) => us[k][1] + Len(us[k]) = n + 1
           /\ k # Len(us) => us[k][1] + Len(us[k]) = us[k + 1][1]
<1>1. k \in DOMAIN us /\ us[k] \in Runs
  BY ElementOfSeq
<1>2. /\ us[k] # <<>>
      /\ \A j \in DOMAIN us[k] : us[k][j] \in 1..n /\ us[k][j] = us[k][1] + j - 1
      /\ us[k][1] + Len(us[k]) = IF k = Len(us) THEN n + 1 ELSE us[k + 1][1]
  BY <1>1 DEF CutsInto
<1>3. Len(us[k]) \in Nat \ {0} /\ DOMAIN us[k] = 1..Len(us[k])
  BY <1>1, <1>2, RunFacts
<1>4. 1 \in DOMAIN us[k]
  BY <1>3
<1>5. us[k][1] \in 1..n
  BY <1>2, <1>4
<1>6. \A j \in 1..Len(us[k]) : us[k][j] \in 1..n /\ us[k][j] = us[k][1] + j - 1
  BY <1>2, <1>3
<1>7. QED
  BY <1>1, <1>2, <1>3, <1>5, <1>6

\* A cut of 1..n, and the position after it on its own.
LEMMA CutNext ==
    ASSUME NEW us \in Seq(Runs), NEW n \in Nat, CutsInto(us, n)
    PROVE  CutsInto(Append(us, <<n + 1>>), n + 1)
<1> DEFINE u == <<n + 1>>
           vs == Append(us, u)
<1>1. u \in Runs /\ Len(u) = 1 /\ u[1] = n + 1 /\ u # <<>> /\ DOMAIN u = {1}
  BY DEF Positions, Runs
<1>2. /\ vs \in Seq(Runs) /\ vs # <<>> /\ Len(vs) = Len(us) + 1
      /\ DOMAIN us = 1..Len(us) /\ DOMAIN vs = 1..Len(us) + 1
      /\ \A k \in 1..Len(us) : vs[k] = us[k]
      /\ vs[Len(us) + 1] = u
  BY <1>1, AppendFacts
<1>3. Len(us) \in Nat /\ (us = <<>> <=> Len(us) = 0)
  OBVIOUS
<1> HIDE DEF u, vs
<1>4. ASSUME NEW k \in DOMAIN vs
      PROVE  /\ vs[k] # <<>>
             /\ \A j \in DOMAIN vs[k] : vs[k][j] \in 1..n + 1 /\ vs[k][j] = vs[k][1] + j - 1
             /\ vs[k][1] + Len(vs[k]) = IF k = Len(vs) THEN n + 2 ELSE vs[k + 1][1]
  <2>1. CASE k = Len(us) + 1
    <3>1. vs[k] = u /\ k = Len(vs)
      BY <1>2, <2>1
    <3>2. \A j \in DOMAIN u : u[j] \in 1..n + 1 /\ u[j] = u[1] + j - 1
      BY <1>1
    <3>3. u[1] + Len(u) = n + 2
      BY <1>1
    <3>4. QED
      BY <1>1, <3>1, <3>2, <3>3
  <2>2. CASE k \in 1..Len(us)
    <3>1. vs[k] = us[k] /\ k \in DOMAIN us
      BY <1>2, <2>2
    <3>2. /\ us[k] # <<>>
          /\ \A j \in DOMAIN us[k] : us[k][j] \in 1..n /\ us[k][j] = us[k][1] + j - 1
          /\ us[k][1] + Len(us[k]) = IF k = Len(us) THEN n + 1 ELSE us[k + 1][1]
      BY <3>1 DEF CutsInto
    <3>3. vs[k + 1][1] = IF k = Len(us) THEN n + 1 ELSE us[k + 1][1]
      <4>1. CASE k = Len(us)
        BY <1>1, <1>2, <4>1
      <4>2. CASE k # Len(us)
        <5>1. k + 1 \in 1..Len(us)
          BY <1>3, <2>2, <4>2
        <5>2. QED
          BY <1>2, <4>2, <5>1
      <4>3. QED
        BY <4>1, <4>2
    <3>4. \A j \in DOMAIN us[k] : us[k][j] \in 1..n + 1
      BY <3>2
    <3>5. k # Len(vs)
      BY <1>2, <1>3, <2>2
    <3>6. QED
      BY <3>1, <3>2, <3>3, <3>4, <3>5
  <2>3. QED
    BY <1>2, <2>1, <2>2
<1>5. vs[1][1] = 1
  <2>1. CASE us = <<>>
    BY <1>1, <1>2, <1>3, <2>1 DEF CutsInto
  <2>2. CASE us # <<>>
    BY <1>2, <1>3, <2>2 DEF CutsInto
  <2>3. QED
    BY <2>1, <2>2
<1>6. CutsInto(vs, n + 1)
  BY <1>2, <1>4, <1>5 DEF CutsInto
<1>7. QED
  BY <1>6 DEF u, vs

\* A cut of 1..n whose last sequence takes in the next position.
LEMMA CutGrows ==
    ASSUME NEW us \in Seq(Runs), NEW u \in Runs, u # <<>>,
           NEW n \in Nat, CutsInto(Append(us, u), n)
    PROVE  CutsInto(Append(us, Append(u, n + 1)), n + 1)
<1> DEFINE m  == Len(us) + 1
           w  == Append(u, n + 1)
           vs == Append(us, u)
           ws == Append(us, w)
<1>1. /\ w \in Runs /\ w # <<>> /\ Len(w) = Len(u) + 1
      /\ DOMAIN u = 1..Len(u) /\ DOMAIN w = 1..Len(u) + 1
      /\ \A j \in 1..Len(u) : w[j] = u[j]
      /\ w[Len(u) + 1] = n + 1
  <2>1. n + 1 \in Nat \ {0}
    OBVIOUS
  <2>2. QED
    BY <2>1, RunFacts, RunAppend
<1>2. Len(u) \in Nat \ {0} /\ Len(us) \in Nat
  BY RunFacts
<1>3. /\ vs \in Seq(Runs) /\ vs # <<>> /\ Len(vs) = m /\ DOMAIN vs = 1..m
      /\ \A k \in 1..Len(us) : vs[k] = us[k]
      /\ vs[m] = u
  BY AppendFacts
<1>4. /\ ws \in Seq(Runs) /\ ws # <<>> /\ Len(ws) = m /\ DOMAIN ws = 1..m
      /\ \A k \in 1..Len(us) : ws[k] = us[k]
      /\ ws[m] = w
  <2>1. w \in Runs
    BY <1>1
  <2> HIDE DEF w
  <2>2. QED
    BY <2>1, AppendFacts
<1>5. m \in Nat \ {0} /\ m - 1 = Len(us)
  BY <1>2
<1>6. \A k \in 1..m : k = m \/ k \in 1..Len(us)
  BY <1>2
<1>7. CutsInto(vs, n)
  OBVIOUS
<1> HIDE DEF m, w, vs, ws
<1>8. /\ u[1] \in 1..n /\ u[1] + Len(u) = n + 1
      /\ \A j \in 1..Len(u) : u[j] \in 1..n /\ u[j] = u[1] + j - 1
  <2>1. m \in 1..Len(vs) /\ m = Len(vs)
    BY <1>3, <1>5
  <2>2. vs[m][1] \in 1..n /\ vs[m][1] + Len(vs[m]) = n + 1 /\ DOMAIN vs[m] = 1..Len(vs[m])
        /\ \A j \in 1..Len(vs[m]) : vs[m][j] \in 1..n /\ vs[m][j] = vs[m][1] + j - 1
    BY <1>3, <1>7, <2>1, CutFacts
  <2>3. QED
    BY <1>3, <2>2
<1>9. w[1] = u[1] /\ w[1] + Len(w) = n + 2
  <2>1. 1 \in 1..Len(u) /\ u[1] \in Nat
    BY <1>2, <1>8
  <2>2. w[1] = u[1]
    BY <1>1, <2>1
  <2>3. Len(w) = Len(u) + 1 /\ Len(u) \in Nat /\ u[1] + Len(u) = n + 1
    BY <1>1, <1>2, <1>8
  <2>4. u[1] + (Len(u) + 1) = n + 2
    BY <2>1, <2>3
  <2>5. QED
    BY <2>2, <2>3, <2>4
<1>a. \A j \in 1..Len(u) + 1 : w[j] \in 1..n + 1 /\ w[j] = w[1] + j - 1
  <2> TAKE j \in 1..Len(u) + 1
  <2>1. CASE j = Len(u) + 1
    BY <1>1, <1>2, <1>8, <1>9, <2>1
  <2>2. CASE j \in 1..Len(u)
    BY <1>1, <1>2, <1>8, <1>9, <2>2
  <2>3. QED
    BY <1>2, <2>1, <2>2
<1>b. \A k \in 1..m : ws[k][1] = vs[k][1]
  BY <1>3, <1>4, <1>6, <1>9
<1>10. ASSUME NEW k \in DOMAIN ws
       PROVE  /\ ws[k] # <<>>
              /\ \A j \in DOMAIN ws[k] : ws[k][j] \in 1..n + 1 /\ ws[k][j] = ws[k][1] + j - 1
              /\ ws[k][1] + Len(ws[k]) = IF k = Len(ws) THEN n + 2 ELSE ws[k + 1][1]
  <2>1. CASE k = m
    BY <1>1, <1>4, <1>9, <1>a, <2>1
  <2>2. CASE k \in 1..Len(us)
    <3>1. k \in 1..m /\ k + 1 \in 1..m /\ k # m
      BY <1>2, <1>5, <2>2
    <3>2. ws[k] = vs[k]
      BY <1>3, <1>4, <2>2
    <3>3. /\ vs[k] # <<>> /\ DOMAIN vs[k] = 1..Len(vs[k])
          /\ \A j \in 1..Len(vs[k]) : vs[k][j] \in 1..n /\ vs[k][j] = vs[k][1] + j - 1
          /\ vs[k][1] + Len(vs[k]) = vs[k + 1][1]
      <4>1. k \in 1..Len(vs) /\ k # Len(vs)
        BY <1>3, <3>1
      <4>2. vs[k] # <<>> /\ DOMAIN vs[k] = 1..Len(vs[k])
        BY <1>3, <1>7, <4>1, CutFacts
      <4>3. \A j \in 1..Len(vs[k]) : vs[k][j] \in 1..n /\ vs[k][j] = vs[k][1] + j - 1
        BY <1>3, <1>7, <4>1, CutFacts
      <4>4. vs[k][1] + Len(vs[k]) = vs[k + 1][1]
        BY <1>3, <1>7, <4>1, CutFacts
      <4>5. QED
        BY <4>2, <4>3, <4>4
    <3>4. \A j \in DOMAIN vs[k] : vs[k][j] \in 1..n + 1
      BY <3>3
    <3>5. QED
      BY <1>4, <1>b, <3>1, <3>2, <3>3, <3>4
  <2>3. QED
    BY <1>4, <1>6, <2>1, <2>2
<1>11. ws[1][1] = 1
  <2>1. 1 \in 1..m
    BY <1>5
  <2>2. QED
    BY <1>3, <1>7, <1>b, <2>1 DEF CutsInto
<1>12. CutsInto(ws, n + 1)
  BY <1>4, <1>10, <1>11 DEF CutsInto
<1>13. QED
  BY <1>12 DEF w, ws
\* A delimiter begins the next access unit.
LEMMA DelimitedNext ==
    ASSUME NEW us \in Seq(Runs), NEW n \in Nat, Delimited(us), nals[n + 1] = "aud"
    PROVE  Delimited(Append(us, <<n + 1>>))
<1> DEFINE u == <<n + 1>>
           vs == Append(us, u)
<1>1. u \in Runs /\ u[1] = n + 1 /\ DOMAIN u = {1}
  BY DEF Positions, Runs
<1>2. /\ DOMAIN us = 1..Len(us) /\ DOMAIN vs = 1..Len(us) + 1
      /\ \A k \in 1..Len(us) : vs[k] = us[k]
      /\ vs[Len(us) + 1] = u
  BY <1>1, AppendFacts
<1> HIDE DEF u, vs
<1>3. ASSUME NEW k \in DOMAIN vs
      PROVE  \E i \in DOMAIN vs[k] :
                /\ k > 1 => i = 1
                /\ \A j \in DOMAIN vs[k] : nals[vs[k][j]] = "aud" <=> j = i
  <2>1. CASE k = Len(us) + 1
    BY <1>1, <1>2, <2>1
  <2>2. CASE k \in 1..Len(us)
    BY <1>2, <2>2 DEF Delimited
  <2>3. QED
    BY <1>2, <2>1, <2>2
<1>4. QED
  BY <1>3 DEF Delimited, u, vs

\* Any other NAL unit joins the access unit that is open.
LEMMA DelimitedGrows ==
    ASSUME NEW us \in Seq(Runs), NEW u \in Runs, NEW n \in Nat,
           Delimited(Append(us, u)), nals[n + 1] # "aud"
    PROVE  Delimited(Append(us, Append(u, n + 1)))
<1> DEFINE m  == Len(us) + 1
           w  == Append(u, n + 1)
           vs == Append(us, u)
           ws == Append(us, w)
<1>1. /\ w \in Runs /\ DOMAIN u = 1..Len(u) /\ DOMAIN w = 1..Len(u) + 1 /\ Len(u) \in Nat
      /\ \A j \in 1..Len(u) : w[j] = u[j]
      /\ w[Len(u) + 1] = n + 1
  <2>1. n + 1 \in Nat \ {0}
    OBVIOUS
  <2>2. QED
    BY <2>1, RunFacts, RunAppend
<1>2. DOMAIN vs = 1..m /\ vs[m] = u /\ \A k \in 1..Len(us) : vs[k] = us[k]
  BY AppendFacts
<1>3. DOMAIN ws = 1..m /\ ws[m] = w /\ \A k \in 1..Len(us) : ws[k] = us[k]
  <2>1. w \in Runs
    BY <1>1
  <2> HIDE DEF w
  <2>2. QED
    BY <2>1, AppendFacts
<1>4. m \in 1..m /\ \A k \in 1..m : k = m \/ k \in 1..Len(us)
  OBVIOUS
<1>5. Delimited(vs)
  OBVIOUS
<1> HIDE DEF m, w, vs, ws
<1>6. ASSUME NEW k \in DOMAIN ws
      PROVE  \E i \in DOMAIN ws[k] :
                /\ k > 1 => i = 1
                /\ \A j \in DOMAIN ws[k] : nals[ws[k][j]] = "aud" <=> j = i
  <2>1. CASE k = m
    <3>1. PICK i \in DOMAIN u :
              /\ m > 1 => i = 1
              /\ \A j \in DOMAIN u : nals[u[j]] = "aud" <=> j = i
      BY <1>2, <1>4, <1>5 DEF Delimited
    <3>2. i \in DOMAIN w /\ \A j \in DOMAIN w : nals[w[j]] = "aud" <=> j = i
      <4>1. \A j \in 1..Len(u) + 1 : j = Len(u) + 1 \/ j \in 1..Len(u)
        BY <1>1
      <4>2. i \in 1..Len(u) /\ i # Len(u) + 1 /\ i \in 1..Len(u) + 1
        BY <1>1
      <4>3. QED
        BY <1>1, <3>1, <4>1, <4>2
    <3>3. QED
      BY <1>3, <2>1, <3>1, <3>2
  <2>2. CASE k \in 1..Len(us)
    BY <1>2, <1>3, <1>5, <2>2 DEF Delimited
  <2>3. QED
    BY <1>3, <1>4, <2>1, <2>2
<1>7. QED
  BY <1>6 DEF Delimited, w, ws

\* The first delimiter of a file joins what comes before it.
LEMMA DelimitedFirst ==
    ASSUME NEW u \in Runs, \A j \in DOMAIN u : nals[u[j]] # "aud",
           NEW n \in Nat, nals[n + 1] = "aud"
    PROVE  Delimited(Append(<<>>, Append(u, n + 1)))
<1> DEFINE w == Append(u, n + 1)
           ws == Append(<<>>, w)
<1>1. /\ w \in Runs /\ DOMAIN u = 1..Len(u) /\ DOMAIN w = 1..Len(u) + 1 /\ Len(u) \in Nat
      /\ \A j \in 1..Len(u) : w[j] = u[j]
      /\ w[Len(u) + 1] = n + 1
  <2>1. n + 1 \in Nat \ {0}
    OBVIOUS
  <2>2. QED
    BY <2>1, RunFacts, RunAppend
<1>2. DOMAIN ws = {1} /\ ws[1] = w
  OBVIOUS
<1> HIDE DEF w, ws
<1>3. Len(u) + 1 \in DOMAIN w /\ \A j \in DOMAIN w : j # Len(u) + 1 => j \in 1..Len(u)
  BY <1>1
<1>4. \A j \in DOMAIN w : nals[w[j]] = "aud" <=> j = Len(u) + 1
  <2> TAKE j \in DOMAIN w
  <2>1. CASE j = Len(u) + 1
    BY <1>1, <2>1
  <2>2. CASE j # Len(u) + 1
    BY <1>1, <1>3, <2>2
  <2>3. QED
    BY <2>1, <2>2
<1>5. Delimited(ws)
  BY <1>2, <1>3, <1>4 DEF Delimited
<1>6. QED
  BY <1>5 DEF w, ws

\* The index after one more NAL unit, the p-th of the file, in the m-th access unit.
IndexAfter(f, p, m) == IF nals[p] = "idr" /\ f = 0 THEN m ELSE f

\* The index of the first IDR picture when an access unit begins.
LEMMA IdrNext ==
    ASSUME NEW us \in Seq(Runs), NEW n \in Nat, NEW f \in Nat,
           CutsInto(us, n), IdrIndexed(f, us, n)
    PROVE  IdrIndexed(IndexAfter(f, n + 1, Len(us) + 1), Append(us, <<n + 1>>), n + 1)
<1> DEFINE u == <<n + 1>>
           vs == Append(us, u)
           m  == Len(us) + 1
           g  == IndexAfter(f, n + 1, m)
<1>1. u \in Runs /\ u[1] = n + 1 /\ DOMAIN u = {1}
  BY DEF Positions, Runs
<1>2. /\ DOMAIN us = 1..Len(us) /\ DOMAIN vs = 1..m /\ Len(us) \in Nat
      /\ \A k \in 1..Len(us) : vs[k] = us[k]
      /\ vs[m] = u
  BY <1>1, AppendFacts
<1>3. m \in Nat \ {0} /\ m - 1 = Len(us) /\ 1..m - 1 = 1..Len(us)
  BY <1>2
<1> HIDE DEF u, vs, m
<1>4. CASE f # 0
  <2>1. f \in 1..Len(us) /\ IsIdr(us[f]) /\ \A k \in 1..f - 1 : ~IsIdr(us[k])
    BY <1>2, <1>4 DEF IdrIndexed
  <2>2. f \in DOMAIN vs /\ \A k \in 1..f - 1 : k \in 1..Len(us)
    BY <1>2, <1>3, <2>1
  <2>3. IdrIndexed(f, vs, n + 1)
    BY <1>2, <1>4, <2>1, <2>2 DEF IdrIndexed
  <2>4. QED
    BY <1>4, <2>3 DEF IndexAfter, u, vs, m
<1>5. CASE f = 0
  <2>1. \A p \in 1..n : nals[p] # "idr"
    BY <1>5 DEF IdrIndexed
  <2>2. CASE nals[n + 1] = "idr"
    <3>1. IsIdr(vs[m])
      BY <1>1, <1>2, <2>2 DEF IsIdr
    <3>2. ASSUME NEW k \in 1..Len(us) PROVE ~IsIdr(vs[k])
      <4>1. DOMAIN us[k] = 1..Len(us[k]) /\ \A j \in 1..Len(us[k]) : us[k][j] \in 1..n
        BY CutFacts
      <4>2. QED
        BY <1>2, <2>1, <4>1 DEF IsIdr
    <3>3. IdrIndexed(m, vs, n + 1)
      BY <1>2, <1>3, <3>1, <3>2 DEF IdrIndexed
    <3>4. QED
      BY <1>5, <2>2, <3>3 DEF IndexAfter, u, vs, m
  <2>3. CASE nals[n + 1] # "idr"
    <3>1. \A p \in 1..n + 1 : nals[p] # "idr"
      BY <2>1, <2>3
    <3>2. QED
      BY <1>5, <2>3, <3>1 DEF IdrIndexed, IndexAfter
  <2>4. QED
    BY <2>2, <2>3
<1>6. QED
  BY <1>4, <1>5

\* The index of the first IDR picture when an access unit takes in a NAL unit.
LEMMA IdrGrows ==
    ASSUME NEW us \in Seq(Runs), NEW u \in Runs, u # <<>>, NEW n \in Nat, NEW f \in Nat,
           CutsInto(Append(us, u), n), IdrIndexed(f, Append(us, u), n)
    PROVE  IdrIndexed(IndexAfter(f, n + 1, Len(us) + 1), Append(us, Append(u, n + 1)), n + 1)
<1> DEFINE m  == Len(us) + 1
           w  == Append(u, n + 1)
           vs == Append(us, u)
           ws == Append(us, w)
<1>1. /\ w \in Runs /\ DOMAIN u = 1..Len(u) /\ DOMAIN w = 1..Len(u) + 1 /\ Len(u) \in Nat
      /\ \A j \in 1..Len(u) : w[j] = u[j]
      /\ w[Len(u) + 1] = n + 1
  <2>1. n + 1 \in Nat \ {0}
    OBVIOUS
  <2>2. QED
    BY <2>1, RunFacts, RunAppend
<1>2. /\ vs \in Seq(Runs) /\ Len(vs) = m
      /\ DOMAIN vs = 1..m /\ vs[m] = u /\ \A k \in 1..Len(us) : vs[k] = us[k]
  BY AppendFacts
<1>3. DOMAIN ws = 1..m /\ ws[m] = w /\ \A k \in 1..Len(us) : ws[k] = us[k]
  <2>1. w \in Runs
    BY <1>1
  <2> HIDE DEF w
  <2>2. QED
    BY <2>1, AppendFacts
<1>4. /\ m \in Nat \ {0} /\ m \in 1..m /\ 1..m - 1 = 1..Len(us)
      /\ \A k \in 1..m : k = m \/ k \in 1..Len(us)
  OBVIOUS
<1>5. CutsInto(vs, n) /\ IdrIndexed(f, vs, n)
  OBVIOUS
<1>6. /\ Len(u) + 1 \in 1..Len(u) + 1 /\ \A j \in 1..Len(u) : j \in 1..Len(u) + 1
  BY <1>1
<1> HIDE DEF m, w, vs, ws
<1>7. CASE f # 0
  <2>1. f \in 1..m /\ IsIdr(vs[f]) /\ \A k \in 1..f - 1 : ~IsIdr(vs[k])
    BY <1>2, <1>5, <1>7 DEF IdrIndexed
  <2>2. \A k \in 1..f - 1 : k \in 1..Len(us)
    BY <1>4, <2>1
  <2>3. IsIdr(ws[f])
    <3>1. CASE f = m
      <4>1. PICK j \in 1..Len(u) : nals[u[j]] = "idr"
        BY <1>1, <1>2, <2>1, <3>1 DEF IsIdr
      <4>2. j \in DOMAIN w /\ nals[w[j]] = "idr"
        BY <1>1, <1>6, <4>1
      <4>3. QED
        BY <1>3, <3>1, <4>2 DEF IsIdr
    <3>2. CASE f \in 1..Len(us)
      BY <1>2, <1>3, <2>1, <3>2
    <3>3. QED
      BY <1>4, <2>1, <3>1, <3>2
  <2>4. IdrIndexed(f, ws, n + 1)
    BY <1>2, <1>3, <1>7, <2>1, <2>2, <2>3 DEF IdrIndexed
  <2>5. QED
    BY <1>7, <2>4 DEF IndexAfter, w, ws, m
<1>8. CASE f = 0
  <2>1. \A p \in 1..n : nals[p] # "idr"
    BY <1>5, <1>8 DEF IdrIndexed
  <2>2. CASE nals[n + 1] = "idr"
    <3>1. IsIdr(ws[m])
      BY <1>1, <1>3, <1>6, <2>2 DEF IsIdr
    <3>2. ASSUME NEW k \in 1..Len(us) PROVE ~IsIdr(ws[k])
      <4>1. k \in 1..Len(vs)
        BY <1>2, <1>4
      <4>2. DOMAIN vs[k] = 1..Len(vs[k]) /\ \A j \in 1..Len(vs[k]) : vs[k][j] \in 1..n
        BY <1>2, <1>5, <4>1, CutFacts
      <4>3. QED
        BY <1>2, <1>3, <2>1, <4>2 DEF IsIdr
    <3>3. IdrIndexed(m, ws, n + 1)
      BY <1>3, <1>4, <3>1, <3>2 DEF IdrIndexed
    <3>4. QED
      BY <1>8, <2>2, <3>3 DEF IndexAfter, w, ws, m
  <2>3. CASE nals[n + 1] # "idr"
    <3>1. \A p \in 1..n + 1 : nals[p] # "idr"
      BY <2>1, <2>3
    <3>2. QED
      BY <1>8, <2>3, <3>1 DEF IdrIndexed, IndexAfter
  <2>4. QED
    BY <2>2, <2>3
<1>9. QED
  BY <1>7, <1>8
-----------------------------------------------------------------------------
\* The open packet: full segments, with nothing but page headers between them and up to n.
OpenRun(p, n) ==
    \A j \in DOMAIN p :
        /\ items[p[j]] = "full"
        /\ Adjacent(p[j], IF j < Len(p) THEN p[j + 1] ELSE n)

\* Where the open packet begins, or the next one will.
Begins(p, n) == IF p = <<>> THEN n ELSE p[1]

\* A page header is no gap between two segments.
LEMMA AdjacentNext ==
    ASSUME NEW n \in Nat
    PROVE  /\ Adjacent(n, n + 1)
           /\ \A p \in Nat : Adjacent(p, n) /\ items[n] \in Pages => Adjacent(p, n + 1)
<1>1. Adjacent(n, n + 1)
  BY DEF Adjacent
<1>2. ASSUME NEW p \in Nat, Adjacent(p, n), items[n] \in Pages
      PROVE  Adjacent(p, n + 1)
  <2>1. \A i \in p + 1..n + 1 - 1 : i = n \/ i \in p + 1..n - 1
    OBVIOUS
  <2>2. QED
    BY <1>2, <2>1 DEF Adjacent
<1>3. QED
  BY <1>1, <1>2

\* A page header leaves the open packet as it is.
LEMMA OpenPage ==
    ASSUME NEW p \in Runs, NEW n \in Nat, OpenRun(p, n), items[n] \in Pages
    PROVE  OpenRun(p, n + 1)
<1> SUFFICES ASSUME NEW j \in DOMAIN p
             PROVE  /\ items[p[j]] = "full"
                    /\ Adjacent(p[j], IF j < Len(p) THEN p[j + 1] ELSE n + 1)
  BY DEF OpenRun
<1>1. items[p[j]] = "full" /\ Adjacent(p[j], IF j < Len(p) THEN p[j + 1] ELSE n)
  BY DEF OpenRun
<1>2. p[j] \in Nat
  BY RunFacts
<1>3. QED
  BY <1>1, <1>2, AdjacentNext

\* A page header leaves the complete packets as they are.
LEMMA PacketsPage ==
    ASSUME NEW ps \in Seq(Runs), NEW n \in Nat, PacketsRun(ps, n), items[n] \in Pages
    PROVE  PacketsRun(ps, n + 1)
<1>1. ASSUME NEW k \in DOMAIN ps
      PROVE  /\ ps[k] # <<>>
             /\ \A j \in DOMAIN ps[k] :
                   /\ items[ps[k][j]] = IF j = Len(ps[k]) THEN "part" ELSE "full"
                   /\ Adjacent(ps[k][j], IF j < Len(ps[k]) THEN ps[k][j + 1]
                                         ELSE IF k < Len(ps) THEN ps[k + 1][1] ELSE n + 1)
  <2>1. ps[k] # <<>> /\ ps[k] \in Runs
    BY ElementOfSeq DEF PacketsRun
  <2>2. ASSUME NEW j \in DOMAIN ps[k]
        PROVE  /\ items[ps[k][j]] = IF j = Len(ps[k]) THEN "part" ELSE "full"
               /\ Adjacent(ps[k][j], IF j < Len(ps[k]) THEN ps[k][j + 1]
                                     ELSE IF k < Len(ps) THEN ps[k + 1][1] ELSE n + 1)
    <3>1. /\ items[ps[k][j]] = IF j = Len(ps[k]) THEN "part" ELSE "full"
          /\ Adjacent(ps[k][j], IF j < Len(ps[k]) THEN ps[k][j + 1]
                                ELSE IF k < Len(ps) THEN ps[k + 1][1] ELSE n)
      BY DEF PacketsRun
    <3>2. ps[k][j] \in Nat
      BY <2>1, RunFacts
    <3>3. QED
      BY <3>1, <3>2, AdjacentNext
  <2>3. QED
    BY <2>1, <2>2
<1>2. QED
  BY <1>1 DEF PacketsRun

\* A full segment joins the open packet.
LEMMA OpenSegment ==
    ASSUME NEW p \in Runs, NEW n \in Nat \ {0}, OpenRun(p, n), items[n] = "full"
    PROVE  OpenRun(Append(p, n), n + 1)
<1> DEFINE q == Append(p, n)
<1>1. /\ DOMAIN p = 1..Len(p) /\ DOMAIN q = 1..Len(p) + 1 /\ Len(q) = Len(p) + 1
      /\ Len(p) \in Nat
      /\ \A j \in 1..Len(p) : q[j] = p[j]
      /\ q[Len(p) + 1] = n
  BY RunFacts, RunAppend
<1> HIDE DEF q
<1>2. ASSUME NEW j \in DOMAIN q
      PROVE  items[q[j]] = "full" /\ Adjacent(q[j], IF j < Len(q) THEN q[j + 1] ELSE n + 1)
  <2>1. CASE j = Len(p) + 1
    <3>1. q[j] = n /\ j = Len(q) /\ ~(j < Len(q))
      BY <1>1, <2>1
    <3>2. Adjacent(n, n + 1)
      BY AdjacentNext
    <3>3. QED
      BY <3>1, <3>2
  <2>2. CASE j \in 1..Len(p)
    <3>1. /\ items[p[j]] = "full" /\ Adjacent(p[j], IF j < Len(p) THEN p[j + 1] ELSE n)
      BY <1>1, <2>2 DEF OpenRun
    <3>2. j < Len(q) /\ q[j + 1] = IF j < Len(p) THEN p[j + 1] ELSE n
      <4>1. CASE j = Len(p)
        BY <1>1, <4>1
      <4>2. CASE j # Len(p)
        <5>1. j + 1 \in 1..Len(p) /\ j < Len(p)
          BY <1>1, <2>2, <4>2
        <5>2. QED
          BY <1>1, <5>1
      <4>3. QED
        BY <4>1, <4>2
    <3>3. QED
      BY <1>1, <2>2, <3>1, <3>2
  <2>3. QED
    BY <1>1, <2>1, <2>2
<1>3. QED
  BY <1>2 DEF OpenRun, q

\* A short segment completes the open packet.
LEMMA PacketCloses ==
    ASSUME NEW ps \in Seq(Runs), NEW p \in Runs, NEW n \in Nat \ {0},
           PacketsRun(ps, Begins(p, n)), OpenRun(p, n), items[n] = "part"
    PROVE  PacketsRun(Append(ps, Append(p, n)), n + 1)
<1> DEFINE q  == Append(p, n)
           qs == Append(ps, q)
           m  == Len(ps) + 1
<1>1. /\ q \in Runs /\ q # <<>>
      /\ DOMAIN p = 1..Len(p) /\ DOMAIN q = 1..Len(p) + 1 /\ Len(q) = Len(p) + 1
      /\ Len(p) \in Nat
      /\ \A j \in 1..Len(p) : q[j] = p[j]
      /\ q[Len(p) + 1] = n
  BY RunFacts, RunAppend
<1>2. /\ DOMAIN ps = 1..Len(ps) /\ DOMAIN qs = 1..m /\ Len(qs) = m /\ Len(ps) \in Nat
      /\ qs[m] = q /\ \A k \in 1..Len(ps) : qs[k] = ps[k]
  <2>1. q \in Runs
    BY <1>1
  <2> HIDE DEF q
  <2>2. QED
    BY <2>1, AppendFacts
<1>3. /\ m \in Nat \ {0} /\ \A k \in 1..m : k = m \/ k \in 1..Len(ps)
      /\ \A k \in 1..Len(ps) : k < m /\ (k < Len(ps) => k + 1 \in 1..Len(ps))
                                 /\ (~(k < Len(ps)) => k + 1 = m)
  BY <1>2
<1>4. q[1] = Begins(p, n)
  <2>1. CASE p = <<>>
    BY <1>1, <2>1, RunFacts DEF Begins
  <2>2. CASE p # <<>>
    <3>1. 1 \in 1..Len(p)
      BY <1>1, <2>2, RunFacts
    <3>2. QED
      BY <1>1, <2>2, <3>1 DEF Begins
  <2>3. QED
    BY <2>1, <2>2
<1> HIDE DEF q, qs, m
<1>5. ASSUME NEW j \in DOMAIN q
      PROVE  /\ items[q[j]] = IF j = Len(q) THEN "part" ELSE "full"
             /\ Adjacent(q[j], IF j < Len(q) THEN q[j + 1] ELSE n + 1)
  <2>1. CASE j = Len(p) + 1
    <3>1. q[j] = n /\ j = Len(q) /\ ~(j < Len(q))
      BY <1>1, <2>1
    <3>2. Adjacent(n, n + 1)
      BY AdjacentNext
    <3>3. QED
      BY <3>1, <3>2
  <2>2. CASE j \in 1..Len(p)
    <3>1. /\ items[p[j]] = "full" /\ Adjacent(p[j], IF j < Len(p) THEN p[j + 1] ELSE n)
      BY <1>1, <2>2 DEF OpenRun
    <3>2. j < Len(q) /\ q[j + 1] = IF j < Len(p) THEN p[j + 1] ELSE n
      <4>1. CASE j = Len(p)
        BY <1>1, <4>1
      <4>2. CASE j # Len(p)
        <5>1. j + 1 \in 1..Len(p) /\ j < Len(p)
          BY <1>1, <2>2, <4>2
        <5>2. QED
          BY <1>1, <5>1
      <4>3. QED
        BY <4>1, <4>2
    <3>3. QED
      BY <1>1, <2>2, <3>1, <3>2
  <2>3. QED
    BY <1>1, <2>1, <2>2
<1>6. ASSUME NEW k \in DOMAIN qs
      PROVE  /\ qs[k] # <<>>
             /\ \A j \in DOMAIN qs[k] :
                   /\ items[qs[k][j]] = IF j = Len(qs[k]) THEN "part" ELSE "full"
                   /\ Adjacent(qs[k][j], IF j < Len(qs[k]) THEN qs[k][j + 1]
                                         ELSE IF k < Len(qs) THEN qs[k + 1][1] ELSE n + 1)
  <2>1. CASE k = m
    BY <1>1, <1>2, <1>3, <1>5, <2>1
  <2>2. CASE k \in 1..Len(ps)
    <3>1. /\ ps[k] # <<>>
          /\ \A j \in DOMAIN ps[k] :
                /\ items[ps[k][j]] = IF j = Len(ps[k]) THEN "part" ELSE "full"
                /\ Adjacent(ps[k][j], IF j < Len(ps[k]) THEN ps[k][j + 1]
                                      ELSE IF k < Len(ps) THEN ps[k + 1][1] ELSE Begins(p, n))
      BY <1>2, <2>2 DEF PacketsRun
    <3>2. k < Len(qs) /\ qs[k + 1][1] = IF k < Len(ps) THEN ps[k + 1][1] ELSE Begins(p, n)
      <4>1. CASE k < Len(ps)
        BY <1>2, <1>3, <2>2, <4>1
      <4>2. CASE ~(k < Len(ps))
        BY <1>2, <1>3, <1>4, <2>2, <4>2
      <4>3. QED
        BY <4>1, <4>2
    <3>3. qs[k] = ps[k]
      BY <1>2, <2>2
    <3>4. QED
      BY <3>1, <3>2, <3>3
  <2>3. QED
    BY <1>2, <1>3, <2>1, <2>2
<1>7. QED
  BY <1>6 DEF PacketsRun, q, qs

\* The short segments up to n: finitely many, and one more where there is one more.
LEMMA CountShorts ==
    ASSUME NEW n \in Nat
    PROVE  /\ IsFiniteSet(Shorts(n)) /\ Cardinality(Shorts(n)) \in Nat
           /\ items[n + 1] # "part" => Shorts(n + 1) = Shorts(n)
           /\ items[n + 1] = "part" => Cardinality(Shorts(n + 1)) = Cardinality(Shorts(n)) + 1
           /\ Cardinality(Shorts(0)) = 0
<1>1. IsFiniteSet(Shorts(n)) /\ Cardinality(Shorts(n)) \in Nat
  <2>1. IsFiniteSet(1..n)
    BY FS_Interval
  <2>2. IsFiniteSet(Shorts(n))
    BY <2>1, FS_Subset DEF Shorts
  <2>3. QED
    BY <2>2, FS_CardinalityType
<1>2. \A i : i \in 1..n + 1 <=> i \in 1..n \/ i = n + 1
  OBVIOUS
<1>3. ASSUME items[n + 1] # "part" PROVE Shorts(n + 1) = Shorts(n)
  BY <1>2, <1>3 DEF Shorts
<1>4. ASSUME items[n + 1] = "part"
      PROVE  Cardinality(Shorts(n + 1)) = Cardinality(Shorts(n)) + 1
  <2>1. Shorts(n + 1) = Shorts(n) \cup {n + 1}
    BY <1>2, <1>4 DEF Shorts
  <2>2. n + 1 \notin Shorts(n)
    BY DEF Shorts
  <2>3. QED
    BY <1>1, <2>1, <2>2, FS_AddElement
<1>5. Cardinality(Shorts(0)) = 0
  <2>1. Shorts(0) = {}
    BY DEF Shorts
  <2>2. QED
    BY <2>1, FS_EmptySet
<1>6. QED
  BY <1>1, <1>3, <1>4, <1>5
-----------------------------------------------------------------------------
SampleTypeOK ==
    /\ nals \in VideoSamples /\ items \in AudioSamples
    /\ position \in Nat \ {0}
    /\ units \in Seq(Runs) /\ unit \in Runs
    /\ foundAud \in BOOLEAN /\ firstIdr \in Nat
    /\ packets \in Seq(Runs) /\ packet \in Runs
    /\ mode \in {"video", "audio", "streaming", "stopped", "failed"}
    /\ keyframeRequested \in BOOLEAN /\ owed \in BOOLEAN

\* What the video reader has taken in so far, and how far that is.
CutSoFar  == IF unit = <<>> THEN units ELSE Append(units, unit)
ReadSoFar == IF mode = "video" THEN position - 1 ELSE Len(nals)

VideoCut ==
    mode # "failed" =>
        /\ ReadSoFar <= Len(nals)
        /\ unit = <<>> => mode # "video" \/ (units = <<>> /\ ~foundAud)
        /\ mode # "video" => unit = <<>> /\ foundAud
        /\ CutsInto(CutSoFar, ReadSoFar)
        /\ IF foundAud THEN Delimited(CutSoFar)
           ELSE units = <<>> /\ \A p \in 1..ReadSoFar : nals[p] # "aud"
        /\ IdrIndexed(firstIdr, CutSoFar, ReadSoFar)

\* The k-th packet ends at the k-th short segment of the first n items.
Counted(ps, n) ==
    /\ Cardinality(Shorts(n)) = Len(ps)
    /\ \A k \in DOMAIN ps :
          /\ ps[k][Len(ps[k])] \in Shorts(n)
          /\ Cardinality(Shorts(ps[k][Len(ps[k])])) = k

AudioCut ==
    /\ mode = "video" => packets = <<>> /\ packet = <<>>
    /\ mode = "audio" =>
          /\ position <= Len(items) + 1
          /\ PacketsRun(packets, Begins(packet, position)) /\ OpenRun(packet, position)
          /\ Counted(packets, position - 1)
    /\ mode \in {"streaming", "stopped"} => PacketsCut

\* Nobody asks for keyframes while the files are read.
Answered ==
    /\ mode \in {"video", "audio"} => ~owed
    /\ firstIdr # 0 /\ ~keyframeRequested => ~owed

SampleInv == SampleTypeOK /\ VideoCut /\ AudioCut /\ Answered

\* The sample files are sequences of what their readers know.
LEMMA FilesTyped ==
    ASSUME SampleTypeOK
    PROVE  /\ nals \in Seq(NalTypes) /\ Len(nals) \in Nat /\ DOMAIN nals = 1..Len(nals)
           /\ items \in Seq(Pages \cup Segments) /\ Len(items) \in Nat
           /\ DOMAIN items = 1..Len(items)
BY SamplesAssumption DEF SampleTypeOK

\* The invariant holds before anything is read.
LEMMA SampleInitInv == SampleInit => SampleInv
<1> SUFFICES ASSUME SampleInit PROVE SampleInv
  OBVIOUS
<1>1. <<>> \in Seq(Runs) /\ <<>> \in Runs
  BY EmptySeq DEF Runs
<1>2. SampleTypeOK
  <2>1. /\ nals \in VideoSamples /\ items \in AudioSamples
        /\ units \in Seq(Runs) /\ unit \in Runs /\ packets \in Seq(Runs) /\ packet \in Runs
    BY <1>1 DEF SampleInit
  <2>2. position \in Nat \ {0} /\ firstIdr \in Nat
    BY DEF SampleInit
  <2>3. /\ foundAud \in BOOLEAN /\ keyframeRequested \in BOOLEAN /\ owed \in BOOLEAN
        /\ mode = "video"
    BY DEF SampleInit
  <2>4. QED
    BY <2>1, <2>2, <2>3, Zenon DEF SampleTypeOK
<1>3. CutSoFar = <<>> /\ ReadSoFar = 0
  BY DEF SampleInit, CutSoFar, ReadSoFar
<1>4. DOMAIN <<>> = {} /\ 1..0 = {}
  OBVIOUS
<1>5. CutsInto(<<>>, 0) /\ IdrIndexed(0, <<>>, 0)
  BY <1>4 DEF CutsInto, IdrIndexed
<1>6. VideoCut
  BY <1>2, <1>3, <1>4, <1>5, FilesTyped DEF SampleInit, VideoCut
<1>7. AudioCut /\ Answered
  BY DEF SampleInit, AudioCut, Answered
<1>8. QED
  BY <1>2, <1>6, <1>7 DEF SampleInv

\* What the video reader's part of the invariant is about, when reading is over.
LEMMA VideoKept ==
    ASSUME VideoCut, mode \notin {"video", "failed"}, mode' # "video",
           UNCHANGED <<nals, units, unit, foundAud, firstIdr>>
    PROVE  VideoCut'
<1>1. CutSoFar' = CutSoFar /\ ReadSoFar' = ReadSoFar
  BY DEF CutSoFar, ReadSoFar
<1>2. CutsInto(CutSoFar, ReadSoFar)' <=> CutsInto(CutSoFar, ReadSoFar)
  BY <1>1 DEF CutsInto
<1>3. Delimited(CutSoFar)' <=> Delimited(CutSoFar)
  BY <1>1 DEF Delimited
<1>4. IdrIndexed(firstIdr, CutSoFar, ReadSoFar)' <=> IdrIndexed(firstIdr, CutSoFar, ReadSoFar)
  BY <1>1 DEF IdrIndexed, IsIdr
<1>5. QED
  BY <1>1, <1>2, <1>3, <1>4 DEF VideoCut

\* H264AnnexBReader's loop keeps the video part of the invariant: the delimiter that
\* ends an access unit begins the next one, and every other NAL unit joins the open one.
LEMMA VideoStep ==
    ASSUME SampleTypeOK, VideoCut, ReadNal
    PROVE  VideoCut'
<1>0. PICK n \in Nat : position = n + 1
  <2>1. position - 1 \in Nat /\ position = (position - 1) + 1
    BY DEF SampleTypeOK
  <2>2. QED
    BY <2>1
<1>1. /\ n \in Nat /\ position = n + 1 /\ n + 1 \in Nat \ {0} /\ n + 1 <= Len(nals)
      /\ mode = "video" /\ mode' = "video" /\ ReadSoFar = n /\ ReadSoFar' = n + 1
      /\ nals' = nals /\ Len(nals) \in Nat
  BY <1>0, FilesTyped DEF ReadNal, ReadSoFar, files
<1>2. /\ units \in Seq(Runs) /\ unit \in Runs /\ firstIdr \in Nat /\ foundAud \in BOOLEAN
      /\ <<n + 1>> \in Runs /\ <<n + 1>> # <<>>
  BY <1>1 DEF SampleTypeOK, Runs, Positions
<1>3. /\ unit = <<>> => units = <<>> /\ ~foundAud
      /\ CutsInto(CutSoFar, n) /\ IdrIndexed(firstIdr, CutSoFar, n)
      /\ foundAud => Delimited(CutSoFar)
      /\ ~foundAud => units = <<>> /\ \A p \in 1..n : nals[p] # "aud"
  BY <1>1 DEF VideoCut
<1>4. /\ foundAud' <=> (foundAud \/ nals[n + 1] = "aud")
      /\ units' = IF EndsUnit THEN Append(units, unit) ELSE units
      /\ unit' = IF EndsUnit THEN <<n + 1>> ELSE Append(unit, n + 1)
      /\ firstIdr' = IndexAfter(firstIdr, n + 1, Len(units) + 1)
      /\ EndsUnit <=> nals[n + 1] = "aud" /\ foundAud /\ unit # <<>>
  BY <1>1 DEF ReadNal, EndsUnit, IdrIndex, IndexAfter
<1>5. unit' # <<>> /\ CutSoFar' = Append(units', unit')
  <2>1. unit' # <<>>
    BY <1>1, <1>2, <1>4, RunAppend
  <2>2. QED
    BY <2>1 DEF CutSoFar
<1>6. /\ CutsInto(CutSoFar', n + 1)
      /\ IdrIndexed(firstIdr', CutSoFar', n + 1)
      /\ IF foundAud' THEN Delimited(CutSoFar')
         ELSE units' = <<>> /\ \A p \in 1..n + 1 : nals[p] # "aud"
  <2>1. CASE EndsUnit
    <3>1. CutSoFar = Append(units, unit) /\ CutSoFar \in Seq(Runs)
      BY <1>2, <1>4, <2>1, AppendFacts DEF CutSoFar
    <3>2. CutSoFar' = Append(CutSoFar, <<n + 1>>)
      BY <1>4, <1>5, <2>1, <3>1
    <3>3. firstIdr' = IndexAfter(firstIdr, n + 1, Len(CutSoFar) + 1)
      BY <1>4, <2>1 DEF IndexAfter
    <3>4. CutsInto(Append(CutSoFar, <<n + 1>>), n + 1)
      BY <1>1, <1>3, <3>1, CutNext
    <3>5. Delimited(Append(CutSoFar, <<n + 1>>))
      BY <1>1, <1>3, <1>4, <2>1, <3>1, DelimitedNext
    <3>6. IdrIndexed(firstIdr', Append(CutSoFar, <<n + 1>>), n + 1)
      BY <1>1, <1>2, <1>3, <3>1, <3>3, IdrNext
    <3>7. QED
      BY <1>4, <2>1, <3>2, <3>4, <3>5, <3>6
  <2>2. CASE ~EndsUnit
    <3>1. units' = units /\ unit' = Append(unit, n + 1)
      BY <1>4, <2>2
    <3>2. CutSoFar' = Append(units, Append(unit, n + 1))
      BY <1>5, <3>1
    <3>3. CutsInto(CutSoFar', n + 1) /\ IdrIndexed(firstIdr', CutSoFar', n + 1)
      <4>1. CASE unit = <<>>
        <5>1. units = <<>> /\ CutSoFar = <<>> /\ Append(unit, n + 1) = <<n + 1>>
          BY <1>3, <4>1 DEF CutSoFar
        <5>2. CutsInto(Append(units, <<n + 1>>), n + 1)
          BY <1>1, <1>2, <1>3, <5>1, CutNext
        <5>3. IdrIndexed(firstIdr', Append(units, <<n + 1>>), n + 1)
          BY <1>1, <1>2, <1>3, <1>4, <5>1, IdrNext
        <5>4. QED
          BY <3>2, <5>1, <5>2, <5>3
      <4>2. CASE unit # <<>>
        <5>1. CutSoFar = Append(units, unit)
          BY <4>2 DEF CutSoFar
        <5>2. CutsInto(Append(units, Append(unit, n + 1)), n + 1)
          BY <1>1, <1>2, <1>3, <4>2, <5>1, CutGrows
        <5>3. IdrIndexed(firstIdr', Append(units, Append(unit, n + 1)), n + 1)
          BY <1>1, <1>2, <1>3, <1>4, <4>2, <5>1, IdrGrows
        <5>4. QED
          BY <3>2, <5>2, <5>3
      <4>3. QED
        BY <4>1, <4>2
    <3>4. ASSUME foundAud' PROVE Delimited(CutSoFar')
      <4>1. CASE foundAud
        <5>1. unit # <<>> /\ nals[n + 1] # "aud"
          BY <1>3, <1>4, <2>2, <4>1
        <5>2. Delimited(Append(units, unit))
          BY <1>3, <4>1, <5>1 DEF CutSoFar
        <5>3. Delimited(Append(units, Append(unit, n + 1)))
          BY <1>1, <1>2, <5>1, <5>2, DelimitedGrows
        <5>4. QED
          BY <3>2, <5>3
      <4>2. CASE ~foundAud
        <5>1. nals[n + 1] = "aud" /\ units = <<>> /\ \A p \in 1..n : nals[p] # "aud"
          BY <1>3, <1>4, <3>4, <4>2
        <5>2. \A j \in DOMAIN unit : nals[unit[j]] # "aud"
          <6>1. CASE unit = <<>>
            BY <6>1
          <6>2. CASE unit # <<>>
            <7>1. CutSoFar = <<unit>> /\ <<unit>> \in Seq(Runs)
              BY <1>2, <5>1, <6>2 DEF CutSoFar
            <7>2. Len(<<unit>>) = 1 /\ 1 \in 1..1 /\ <<unit>>[1] = unit
              OBVIOUS
            <7>3. DOMAIN unit = 1..Len(unit) /\ \A j \in 1..Len(unit) : unit[j] \in 1..n
              BY <1>1, <1>3, <7>1, <7>2, CutFacts
            <7>4. QED
              BY <5>1, <7>3
          <6>3. QED
            BY <6>1, <6>2
        <5>3. Delimited(Append(<<>>, Append(unit, n + 1)))
          BY <1>1, <1>2, <5>1, <5>2, DelimitedFirst
        <5>4. QED
          BY <3>2, <5>1, <5>3
      <4>3. QED
        BY <4>1, <4>2
    <3>5. ASSUME ~foundAud' PROVE units' = <<>> /\ \A p \in 1..n + 1 : nals[p] # "aud"
      <4>1. ~foundAud /\ nals[n + 1] # "aud"
        BY <1>4, <3>5
      <4>2. \A p \in 1..n + 1 : p = n + 1 \/ p \in 1..n
        BY <1>1
      <4>3. QED
        BY <1>3, <3>1, <4>1, <4>2
    <3>6. QED
      BY <3>3, <3>4, <3>5
  <2>3. QED
    BY <2>1, <2>2
<1>7. /\ foundAud' => Delimited(CutSoFar)'
      /\ IdrIndexed(firstIdr, CutSoFar, n + 1)'
      /\ ~foundAud' => units' = <<>> /\ \A p \in 1..n + 1 : nals'[p] # "aud"
  <2>1. foundAud' => Delimited(CutSoFar)'
    BY <1>1, <1>6 DEF Delimited
  <2>2. IdrIndexed(firstIdr, CutSoFar, n + 1)'
    BY <1>1, <1>6 DEF IdrIndexed, IsIdr
  <2>3. QED
    BY <1>1, <1>6, <2>1, <2>2
<1>8. QED
  BY <1>1, <1>5, <1>6, <1>7 DEF VideoCut

\* The end of the video file completes the last access unit.
LEMMA FinishVideoCut ==
    ASSUME SampleTypeOK, VideoCut, FinishVideo
    PROVE  VideoCut'
<1>1. /\ mode = "video" /\ ReadSoFar = Len(nals) /\ nals' = nals
      /\ foundAud' = foundAud /\ firstIdr' = firstIdr
  BY FilesTyped DEF SampleTypeOK, FinishVideo, VideoCut, ReadSoFar, files
<1>2. CASE ~foundAud
  BY <1>2 DEF FinishVideo, VideoCut
<1>3. CASE foundAud
  <2>1. unit # <<>> /\ CutSoFar = Append(units, unit)
    BY <1>1, <1>3 DEF VideoCut, CutSoFar
  <2>2. CutSoFar' = CutSoFar /\ mode' = "audio" /\ unit' = <<>>
    BY <1>3, <2>1 DEF FinishVideo, CutSoFar
  <2>3. ReadSoFar' = Len(nals)
    BY <1>1, <2>2 DEF ReadSoFar
  <2>4. /\ CutsInto(CutSoFar, Len(nals)) /\ Delimited(CutSoFar)
        /\ IdrIndexed(firstIdr, CutSoFar, Len(nals))
    BY <1>1, <1>3 DEF VideoCut
  <2>5. Delimited(CutSoFar)'
    BY <1>1, <2>2, <2>4 DEF Delimited
  <2>6. IdrIndexed(firstIdr, CutSoFar, Len(nals))'
    BY <1>1, <2>2, <2>4 DEF IdrIndexed, IsIdr
  <2>7. QED
    BY <1>1, <1>3, <2>2, <2>3, <2>4, <2>5, <2>6, FilesTyped DEF VideoCut
<1>4. QED
  BY <1>2, <1>3

\* Anything but a short segment ends no packet.
LEMMA CountedPast ==
    ASSUME NEW ps, NEW n \in Nat, Counted(ps, n), items[n + 1] # "part"
    PROVE  Counted(ps, n + 1)
BY CountShorts DEF Counted

\* A short segment ends exactly one packet.
LEMMA CountedNext ==
    ASSUME NEW ps \in Seq(Runs), NEW q \in Runs, NEW n \in Nat,
           Counted(ps, n), items[n + 1] = "part", q[Len(q)] = n + 1
    PROVE  Counted(Append(ps, q), n + 1)
<1> DEFINE qs == Append(ps, q)
<1>1. /\ DOMAIN ps = 1..Len(ps) /\ DOMAIN qs = 1..Len(ps) + 1 /\ Len(qs) = Len(ps) + 1
      /\ qs[Len(ps) + 1] = q /\ \A k \in 1..Len(ps) : qs[k] = ps[k]
  BY AppendFacts
<1>2. Len(ps) \in Nat /\ \A k \in 1..Len(ps) + 1 : k = Len(ps) + 1 \/ k \in 1..Len(ps)
  OBVIOUS
<1> HIDE DEF qs
<1>3. Cardinality(Shorts(n + 1)) = Len(ps) + 1
  BY CountShorts DEF Counted
<1>4. n + 1 \in Shorts(n + 1) /\ \A p \in Shorts(n) : p \in Shorts(n + 1)
  BY DEF Shorts
<1>5. ASSUME NEW k \in DOMAIN qs
      PROVE  /\ qs[k][Len(qs[k])] \in Shorts(n + 1)
             /\ Cardinality(Shorts(qs[k][Len(qs[k])])) = k
  <2>1. CASE k = Len(ps) + 1
    BY <1>1, <1>3, <1>4, <2>1
  <2>2. CASE k \in 1..Len(ps)
    BY <1>1, <1>4, <2>2 DEF Counted
  <2>3. QED
    BY <1>1, <1>2, <2>1, <2>2
<1>6. QED
  BY <1>1, <1>3, <1>5 DEF Counted, qs

\* The audio reader's part of the invariant, from what a step leaves.
LEMMA AudioReads ==
    ASSUME items' = items, mode' = "audio", position' <= Len(items) + 1,
           PacketsRun(packets', Begins(packet', position')), OpenRun(packet', position'),
           Counted(packets', position' - 1)
    PROVE  AudioCut'
<1>1. PacketsRun(packets, Begins(packet, position))'
  BY DEF PacketsRun, Adjacent, Begins
<1>2. OpenRun(packet, position)'
  BY DEF OpenRun, Adjacent
<1>3. Counted(packets, position - 1)'
  BY DEF Counted, Shorts
<1>4. QED
  BY <1>1, <1>2, <1>3 DEF AudioCut

\* The audio file is read from its start.
LEMMA AudioStarts ==
    ASSUME SampleTypeOK, AudioCut, FinishVideo
    PROVE  AudioCut'
<1>1. mode = "video" /\ packets' = <<>> /\ packet' = <<>> /\ items' = items
  BY DEF FinishVideo, AudioCut, audio, files
<1>2. CASE foundAud
  <2>1. mode' = "audio" /\ position' = 1 /\ position' <= Len(items) + 1 /\ position' - 1 = 0
    BY <1>2, FilesTyped DEF FinishVideo
  <2>2. DOMAIN <<>> = {} /\ Len(<<>>) = 0
    OBVIOUS
  <2>3. PacketsRun(<<>>, Begins(<<>>, 1)) /\ OpenRun(<<>>, 1)
    BY <2>2 DEF PacketsRun, OpenRun
  <2>4. Counted(<<>>, 0)
    BY <2>2, CountShorts DEF Counted
  <2>5. QED
    BY <1>1, <2>1, <2>3, <2>4, AudioReads
<1>3. CASE ~foundAud
  BY <1>3 DEF FinishVideo, AudioCut
<1>4. QED
  BY <1>2, <1>3

\* A page header keeps the audio part of the invariant.
LEMMA AudioPage ==
    ASSUME SampleTypeOK, AudioCut, ReadPage
    PROVE  AudioCut'
<1>1. CASE mode' # "audio"
  BY <1>1 DEF ReadPage, AudioCut
<1>2. CASE mode' = "audio"
  <2>1. PICK n \in Nat : position = n + 1
    <3>1. position - 1 \in Nat /\ position = (position - 1) + 1
      BY DEF SampleTypeOK
    <3>2. QED
      BY <3>1
  <2>2. /\ n + 1 <= Len(items) /\ items[n + 1] \in Pages /\ items[n + 1] # "part"
        /\ PacketsRun(packets, Begins(packet, n + 1)) /\ OpenRun(packet, n + 1)
        /\ Counted(packets, n)
    BY <2>1 DEF ReadPage, AudioCut, Pages
  <2>3. /\ items' = items /\ packets' = packets /\ packet' = packet /\ position' = n + 2
        /\ packets \in Seq(Runs) /\ packet \in Runs
    BY <2>1 DEF ReadPage, audio, files, SampleTypeOK
  <2>4. PacketsRun(packets, Begins(packet, n + 2))
    <3>1. CASE packet = <<>>
      <4>1. PacketsRun(packets, n + 1)
        BY <2>2, <3>1 DEF Begins
      <4>2. PacketsRun(packets, (n + 1) + 1)
        BY <2>2, <2>3, <4>1, PacketsPage
      <4>3. QED
        BY <3>1, <4>2 DEF Begins
    <3>2. CASE packet # <<>>
      BY <2>2, <3>2 DEF Begins
    <3>3. QED
      BY <3>1, <3>2
  <2>5. OpenRun(packet, n + 2)
    <3>1. OpenRun(packet, (n + 1) + 1)
      BY <2>2, <2>3, OpenPage
    <3>2. (n + 1) + 1 = n + 2
      OBVIOUS
    <3>3. QED
      BY <3>1, <3>2
  <2>6. Counted(packets, n + 1)
    BY <2>2, CountedPast
  <2>7. position' <= Len(items) + 1 /\ position' - 1 = n + 1
    BY <2>2, <2>3, FilesTyped
  <2>8. QED
    BY <1>2, <2>3, <2>4, <2>5, <2>6, <2>7, AudioReads
<1>3. QED
  BY <1>1, <1>2

\* A segment keeps the audio part of the invariant.
LEMMA AudioSegment ==
    ASSUME SampleTypeOK, AudioCut, ReadSegment
    PROVE  AudioCut'
<1>1. PICK n \in Nat : position = n + 1
  <2>1. position - 1 \in Nat /\ position = (position - 1) + 1
    BY DEF SampleTypeOK
  <2>2. QED
    BY <2>1
<1>2. /\ n + 1 <= Len(items) /\ items[n + 1] \in Segments
      /\ PacketsRun(packets, Begins(packet, n + 1)) /\ OpenRun(packet, n + 1)
      /\ Counted(packets, n)
  BY <1>1 DEF ReadSegment, AudioCut
<1>3. /\ items' = items /\ position' = n + 2 /\ mode' = "audio"
      /\ packets \in Seq(Runs) /\ packet \in Runs /\ n + 1 \in Nat \ {0} /\ (n + 1) + 1 = n + 2
  BY <1>1 DEF ReadSegment, files, SampleTypeOK
<1>4. position' <= Len(items) + 1 /\ position' - 1 = n + 1
  BY <1>2, <1>3, FilesTyped
<1>5. CASE items[n + 1] = "part"
  <2>1. packets' = Append(packets, Append(packet, n + 1)) /\ packet' = <<>>
    BY <1>1, <1>5 DEF ReadSegment
  <2>2. PacketsRun(packets', (n + 1) + 1)
    BY <1>2, <1>3, <1>5, <2>1, PacketCloses
  <2>3. PacketsRun(packets', Begins(packet', n + 2))
    BY <1>3, <2>1, <2>2 DEF Begins
  <2>4. OpenRun(packet', n + 2)
    BY <2>1 DEF OpenRun
  <2>5. Counted(packets', n + 1)
    <3>1. /\ Append(packet, n + 1) \in Runs
          /\ Append(packet, n + 1)[Len(Append(packet, n + 1))] = n + 1
      BY <1>3, RunAppend
    <3>2. QED
      BY <1>2, <1>3, <1>5, <2>1, <3>1, CountedNext
  <2>6. QED
    BY <1>3, <1>4, <2>3, <2>4, <2>5, AudioReads
<1>6. CASE items[n + 1] # "part"
  <2>1. items[n + 1] = "full"
    BY <1>2, <1>6 DEF Segments
  <2>2. packets' = packets /\ packet' = Append(packet, n + 1)
    BY <1>1, <1>6 DEF ReadSegment
  <2>3. Begins(packet', n + 2) = Begins(packet, n + 1)
    <3>1. packet' # <<>>
      BY <1>3, <2>2, RunAppend
    <3>2. CASE packet = <<>>
      BY <2>2, <3>1, <3>2 DEF Begins
    <3>3. CASE packet # <<>>
      <4>1. 1 \in 1..Len(packet)
        BY <1>3, <3>3, RunFacts
      <4>2. packet'[1] = packet[1]
        BY <1>3, <2>2, <4>1, RunAppend
      <4>3. QED
        BY <3>1, <3>3, <4>2 DEF Begins
    <3>4. QED
      BY <3>2, <3>3
  <2>4. OpenRun(packet', (n + 1) + 1)
    BY <1>2, <1>3, <2>1, <2>2, OpenSegment
  <2>5. Counted(packets', n + 1)
    BY <1>2, <1>6, <2>2, CountedPast
  <2>6. QED
    BY <1>2, <1>3, <1>4, <2>2, <2>3, <2>4, <2>5, AudioReads
<1>7. QED
  BY <1>5, <1>6

\* The end of the audio file: dropping the two headers leaves what follows the second
\* short segment.
LEMMA AudioEnds ==
    ASSUME SampleTypeOK, AudioCut, FinishAudio
    PROVE  AudioCut'
<1> DEFINE ps == packets
           qs == SubSeq(ps, 3, Len(ps))
           n  == Len(items) + 1
<1>1. CASE mode' = "failed"
  BY <1>1 DEF FinishAudio, AudioCut
<1>2. CASE mode' = "streaming"
  <2>1. /\ packet = <<>> /\ Len(ps) >= 3 /\ packets' = qs /\ items' = items
        /\ position > Len(items) /\ mode = "audio"
    BY <1>2 DEF FinishAudio, files
  <2>2. position = n /\ Len(items) \in Nat
    BY <2>1, FilesTyped DEF AudioCut, SampleTypeOK
  <2>3. PacketsRun(ps, n) /\ Counted(ps, Len(items))
    BY <2>1, <2>2 DEF AudioCut, Begins
  <2>4. ps \in Seq(Runs) /\ DOMAIN ps = 1..Len(ps) /\ Len(ps) \in Nat
    BY DEF SampleTypeOK
  <2>5. /\ DOMAIN qs = 1..Len(ps) - 2 /\ Len(qs) = Len(ps) - 2
        /\ \A k \in 1..Len(ps) - 2 : qs[k] = ps[k + 2]
    BY <2>1, <2>4
  <2> HIDE DEF ps, qs
  <2>6. \A k \in 1..Len(ps) - 2 :
          /\ k + 2 \in 1..Len(ps)
          /\ k < Len(ps) - 2 <=> k + 2 < Len(ps)
          /\ k < Len(ps) - 2 => k + 1 \in 1..Len(ps) - 2
          /\ (k + 1) + 2 = (k + 2) + 1
    BY <2>4
  <2>7. ASSUME NEW k \in DOMAIN qs
        PROVE  /\ qs[k] # <<>>
               /\ \A j \in DOMAIN qs[k] :
                     /\ items[qs[k][j]] = IF j = Len(qs[k]) THEN "part" ELSE "full"
                     /\ Adjacent(qs[k][j], IF j < Len(qs[k]) THEN qs[k][j + 1]
                                           ELSE IF k < Len(qs) THEN qs[k + 1][1] ELSE n)
    <3>1. /\ ps[k + 2] # <<>>
          /\ \A j \in DOMAIN ps[k + 2] :
                /\ items[ps[k + 2][j]] = IF j = Len(ps[k + 2]) THEN "part" ELSE "full"
                /\ Adjacent(ps[k + 2][j],
                            IF j < Len(ps[k + 2]) THEN ps[k + 2][j + 1]
                            ELSE IF k + 2 < Len(ps) THEN ps[(k + 2) + 1][1] ELSE n)
      BY <2>3, <2>4, <2>5, <2>6 DEF PacketsRun
    <3>2. qs[k] = ps[k + 2] /\ (k < Len(qs) <=> k + 2 < Len(ps))
      BY <2>5, <2>6
    <3>3. k < Len(qs) => qs[k + 1] = ps[(k + 2) + 1]
      BY <2>5, <2>6
    <3>4. QED
      BY <3>1, <3>2, <3>3
  <2>8. PacketsRun(qs, n)
    BY <2>7 DEF PacketsRun
  <2>9. /\ ps[2] \in Runs /\ ps[2] # <<>> /\ 2 \in DOMAIN ps
        /\ Len(ps[2]) \in DOMAIN ps[2]
    <3>1. 2 \in DOMAIN ps
      BY <2>1, <2>4
    <3>2. ps[2] \in Runs /\ ps[2] # <<>>
      BY <2>3, <2>4, <3>1, ElementOfSeq DEF PacketsRun
    <3>3. QED
      BY <3>1, <3>2, RunFacts
  <2>10. qs # <<>> /\ qs[1] = ps[3]
    <3>1. 1 \in 1..Len(ps) - 2 /\ 1 + 2 = 3
      BY <2>1, <2>4
    <3>2. QED
      BY <2>5, <3>1
  <2>11. Adjacent(ps[2][Len(ps[2])], qs[1][1])
    <3>1. 2 < Len(ps) /\ 2 + 1 = 3 /\ ~(Len(ps[2]) < Len(ps[2]))
      BY <2>1, <2>4, <2>9, RunFacts
    <3>2. QED
      BY <2>3, <2>9, <2>10, <3>1 DEF PacketsRun
  <2>12. /\ ps[2][Len(ps[2])] \in Shorts(Len(items))
         /\ Cardinality(Shorts(ps[2][Len(ps[2])])) = 2
    BY <2>3, <2>9 DEF Counted
  <2>13. PacketsCut'
    <3>1. PacketsRun(packets, Len(items) + 1)'
      BY <2>1, <2>8 DEF PacketsRun, Adjacent
    <3>2. (\E p \in Shorts(Len(items)) :
              Cardinality(Shorts(p)) = 2 /\ Adjacent(p, packets[1][1]))'
      BY <2>1, <2>11, <2>12 DEF Shorts, Adjacent
    <3>3. QED
      BY <2>1, <2>10, <3>1, <3>2 DEF PacketsCut
  <2>14. QED
    BY <1>2, <2>13 DEF AudioCut
<1>3. QED
  BY <1>1, <1>2 DEF FinishAudio

\* The stream leaves the packets alone.
LEMMA PacketsKept ==
    ASSUME AudioCut, mode \in {"streaming", "stopped"}, mode' \in {"streaming", "stopped"},
           UNCHANGED <<items, packets>>
    PROVE  AudioCut'
<1>1. PacketsRun(packets, Len(items) + 1)' <=> PacketsRun(packets, Len(items) + 1)
  BY DEF PacketsRun, Adjacent
<1>2. (\E p \in Shorts(Len(items)) :
          Cardinality(Shorts(p)) = 2 /\ Adjacent(p, packets[1][1]))'
      <=> \E p \in Shorts(Len(items)) :
             Cardinality(Shorts(p)) = 2 /\ Adjacent(p, packets[1][1])
  BY DEF Shorts, Adjacent
<1>3. PacketsCut' <=> PacketsCut
  BY <1>1, <1>2 DEF PacketsCut
<1>4. QED
  BY <1>3 DEF AudioCut

\* One step of the readers or the stream.
LEMMA SampleTypeStep ==
    ASSUME SampleTypeOK, AudioCut, SampleNext
    PROVE  SampleTypeOK'
<1> DEFINE TypedVideo == /\ units' \in Seq(Runs) /\ unit' \in Runs
                         /\ foundAud' \in BOOLEAN /\ firstIdr' \in Nat
           TypedAudio == packets' \in Seq(Runs) /\ packet' \in Runs
           TypedMode  == mode' \in {"video", "audio", "streaming", "stopped", "failed"}
           TypedAsked == keyframeRequested' \in BOOLEAN /\ owed' \in BOOLEAN
           TypedFiles == nals' \in VideoSamples /\ items' \in AudioSamples
           TypedPlace == position' \in Nat \ {0}
<1>1. /\ units \in Seq(Runs) /\ unit \in Runs /\ firstIdr \in Nat
      /\ packets \in Seq(Runs) /\ packet \in Runs /\ position \in Nat \ {0}
      /\ nals \in VideoSamples /\ items \in AudioSamples
      /\ Append(unit, position) \in Runs /\ Append(packet, position) \in Runs
      /\ <<>> \in Runs /\ <<position>> \in Runs
  <2>1. <<>> \in Runs
    BY DEF Runs
  <2>2. position \in Positions
    BY DEF SampleTypeOK, Positions
  <2>3. <<position>> \in Runs
    BY <2>2 DEF Runs
  <2>4. QED
    BY <2>1, <2>3, RunAppend DEF SampleTypeOK
<1>2. /\ Append(units, unit) \in Seq(Runs)
      /\ Append(packets, Append(packet, position)) \in Seq(Runs)
  BY <1>1, AppendFacts
<1>3. foundAud \in BOOLEAN /\ keyframeRequested \in BOOLEAN /\ owed \in BOOLEAN
  BY DEF SampleTypeOK
<1>4. mode \in {"video", "audio", "streaming", "stopped", "failed"}
  BY DEF SampleTypeOK
<1>5. Len(units) + 1 \in Nat
  BY <1>1
<1>6. CASE ReadNal
  <2>1. TypedVideo
    BY <1>1, <1>2, <1>3, <1>5, <1>6 DEF ReadNal, IdrIndex
  <2>2. TypedAudio /\ TypedFiles /\ TypedPlace /\ TypedMode
    BY <1>1, <1>4, <1>6 DEF ReadNal, audio, files
  <2>3. TypedAsked
    BY <1>3, <1>6 DEF ReadNal, request
  <2>4. QED
    BY <2>1, <2>2, <2>3 DEF SampleTypeOK
<1>7. CASE FinishVideo
  <2>1. TypedVideo
    BY <1>1, <1>2, <1>3, <1>7 DEF FinishVideo
  <2>2. TypedAudio /\ TypedFiles /\ TypedPlace /\ TypedMode
    BY <1>1, <1>4, <1>7 DEF FinishVideo, audio, files
  <2>3. TypedAsked
    BY <1>3, <1>7 DEF FinishVideo, request
  <2>4. QED
    BY <2>1, <2>2, <2>3 DEF SampleTypeOK
<1>8. CASE ReadPage
  <2>1. TypedVideo
    BY <1>1, <1>3, <1>8 DEF ReadPage, video
  <2>2. TypedAudio /\ TypedFiles /\ TypedPlace /\ TypedMode
    BY <1>1, <1>4, <1>8 DEF ReadPage, audio, files
  <2>3. TypedAsked
    BY <1>3, <1>8 DEF ReadPage, request
  <2>4. QED
    BY <2>1, <2>2, <2>3 DEF SampleTypeOK
<1>9. CASE ReadSegment
  <2>1. TypedVideo
    BY <1>1, <1>3, <1>9 DEF ReadSegment, video
  <2>2. TypedAudio /\ TypedFiles /\ TypedPlace /\ TypedMode
    BY <1>1, <1>2, <1>4, <1>9 DEF ReadSegment, files
  <2>3. TypedAsked
    BY <1>3, <1>9 DEF ReadSegment, request
  <2>4. QED
    BY <2>1, <2>2, <2>3 DEF SampleTypeOK
<1>10. CASE FinishAudio
  <2>1. TypedVideo
    BY <1>1, <1>3, <1>10 DEF FinishAudio, video
  <2>2. TypedAudio
    <3>1. SubSeq(packets, 3, Len(packets)) \in Seq(Runs)
      BY <1>1, SubSeqProperties, ElementOfSeq
    <3>2. QED
      BY <1>1, <1>10, <3>1 DEF FinishAudio
  <2>3. TypedFiles /\ TypedPlace /\ TypedMode
    BY <1>1, <1>4, <1>10 DEF FinishAudio, files
  <2>4. TypedAsked
    BY <1>3, <1>10 DEF FinishAudio, request
  <2>5. QED
    BY <2>1, <2>2, <2>3, <2>4 DEF SampleTypeOK
<1>11. CASE SendVideo \/ SendAudio \/ RequestKeyframe \/ StopStreaming
  <2>1. UNCHANGED <<files, position, video, audio>>
    BY <1>11 DEF SendVideo, SendAudio, RequestKeyframe, StopStreaming
  <2>2. TypedVideo
    BY <1>1, <1>3, <2>1 DEF video
  <2>3. TypedAudio /\ TypedFiles /\ TypedPlace
    BY <1>1, <2>1 DEF audio, files
  <2>4. TypedMode
    BY <1>4, <1>11 DEF SendVideo, SendAudio, RequestKeyframe, StopStreaming
  <2>5. TypedAsked
    BY <1>3, <1>11 DEF SendVideo, SendAudio, RequestKeyframe, StopStreaming, request
  <2>6. QED
    BY <2>2, <2>3, <2>4, <2>5 DEF SampleTypeOK
<1>12. QED
  BY <1>6, <1>7, <1>8, <1>9, <1>10, <1>11 DEF SampleNext

\* A step keeps what is known of keyframe requests: the only one that takes a request
\* sends the access unit the index names, which has an IDR picture.
LEMMA AnsweredStep ==
    ASSUME SampleTypeOK, VideoCut, Answered, SampleNext
    PROVE  Answered'
<1>1. CASE ReadNal \/ FinishVideo \/ ReadPage \/ ReadSegment \/ FinishAudio
  <2>1. owed' = owed /\ mode \in {"video", "audio"}
    BY <1>1 DEF ReadNal, FinishVideo, ReadPage, ReadSegment, FinishAudio, request
  <2>2. QED
    BY <2>1 DEF Answered
<1>2. CASE SendVideo
  <2>1. mode' = "streaming" /\ firstIdr' = firstIdr /\ mode = "streaming"
    BY <1>2 DEF SendVideo, video
  <2>2. ASSUME firstIdr # 0 PROVE ~owed'
    <3>1. CASE keyframeRequested
      <4>1. lastVideo' = units[firstIdr]
        BY <1>2, <2>2, <3>1 DEF SendVideo
      <4>2. IsIdr(units[firstIdr])
        BY <2>1, <2>2 DEF VideoCut, CutSoFar, IdrIndexed
      <4>3. IsIdr(lastVideo')
        BY <4>1, <4>2
      <4>4. QED
        BY <1>2, <4>3 DEF SendVideo
    <3>2. CASE ~keyframeRequested
      BY <1>2, <2>2, <3>2 DEF SendVideo, Answered
    <3>3. QED
      BY <3>1, <3>2
  <2>3. QED
    BY <2>1, <2>2 DEF Answered
<1>3. CASE SendAudio \/ StopStreaming
  <2>1. /\ UNCHANGED <<firstIdr, keyframeRequested, owed>>
        /\ mode' \notin {"video", "audio"}
    BY <1>3 DEF SendAudio, StopStreaming, video, request
  <2>2. QED
    BY <2>1 DEF Answered
<1>4. CASE RequestKeyframe
  BY <1>4 DEF RequestKeyframe, Answered
<1>5. QED
  BY <1>1, <1>2, <1>3, <1>4 DEF SampleNext

\* Every step keeps the invariant.
LEMMA SampleStep == SampleInv /\ [SampleNext]_sampleVars => SampleInv'
<1> SUFFICES ASSUME SampleInv, [SampleNext]_sampleVars PROVE SampleInv'
  OBVIOUS
<1>1. SampleTypeOK /\ VideoCut /\ AudioCut /\ Answered
  BY DEF SampleInv
<1>2. CASE ReadNal
  <2>1. VideoCut'
    BY <1>1, <1>2, VideoStep
  <2>2. AudioCut'
    BY <1>1, <1>2 DEF ReadNal, audio, AudioCut
  <2>3. QED
    BY <1>1, <1>2, <2>1, <2>2, SampleTypeStep, AnsweredStep DEF SampleNext, SampleInv
<1>3. CASE FinishVideo
  <2>1. VideoCut' /\ AudioCut'
    BY <1>1, <1>3, FinishVideoCut, AudioStarts
  <2>2. QED
    BY <1>1, <1>3, <2>1, SampleTypeStep, AnsweredStep DEF SampleNext, SampleInv
<1>4. CASE ReadPage \/ ReadSegment \/ FinishAudio
  <2>1. VideoCut'
    <3>1. /\ mode \notin {"video", "failed"} /\ mode' # "video"
          /\ UNCHANGED <<nals, units, unit, foundAud, firstIdr>>
      BY <1>4 DEF ReadPage, ReadSegment, FinishAudio, files, video
    <3>2. QED
      BY <1>1, <3>1, VideoKept
  <2>2. AudioCut'
    BY <1>1, <1>4, AudioPage, AudioSegment, AudioEnds
  <2>3. QED
    BY <1>1, <1>4, <2>1, <2>2, SampleTypeStep, AnsweredStep DEF SampleNext, SampleInv
<1>5. CASE SendVideo \/ SendAudio \/ RequestKeyframe \/ StopStreaming
  <2>1. /\ mode = "streaming" /\ mode' \in {"streaming", "stopped"}
        /\ UNCHANGED <<nals, units, unit, foundAud, firstIdr>>
        /\ UNCHANGED <<items, packets>>
    BY <1>5 DEF SendVideo, SendAudio, RequestKeyframe, StopStreaming, files, video, audio
  <2>2. VideoCut' /\ AudioCut'
    BY <1>1, <2>1, VideoKept, PacketsKept
  <2>3. QED
    BY <1>1, <1>5, <2>2, SampleTypeStep, AnsweredStep DEF SampleNext, SampleInv
<1>6. CASE UNCHANGED sampleVars
  <2>1. /\ UNCHANGED <<nals, items, position, units, unit, foundAud, firstIdr, packets, packet,
                       mode, keyframeRequested, owed>>
    BY <1>6 DEF sampleVars, files, video, audio, request
  <2>2. SampleTypeOK' /\ Answered'
    BY <1>1, <2>1 DEF SampleTypeOK, Answered
  <2>3. VideoCut'
    <3>1. CutSoFar' = CutSoFar /\ ReadSoFar' = ReadSoFar
      BY <2>1 DEF CutSoFar, ReadSoFar
    <3>2. Delimited(CutSoFar)' <=> Delimited(CutSoFar)
      BY <2>1, <3>1 DEF Delimited
    <3>3. IdrIndexed(firstIdr, CutSoFar, ReadSoFar)'
          <=> IdrIndexed(firstIdr, CutSoFar, ReadSoFar)
      BY <2>1, <3>1 DEF IdrIndexed, IsIdr
    <3>4. QED
      BY <1>1, <2>1, <3>1, <3>2, <3>3 DEF VideoCut
  <2>4. AudioCut'
    <3>1. CASE mode = "streaming"
      BY <1>1, <2>1, <3>1, PacketsKept
    <3>2. CASE mode = "audio"
      <4>1. /\ position' <= Len(items) + 1 /\ items' = items /\ mode' = "audio"
            /\ PacketsRun(packets', Begins(packet', position'))
            /\ OpenRun(packet', position') /\ Counted(packets', position' - 1)
        BY <1>1, <2>1, <3>2 DEF AudioCut
      <4>2. QED
        BY <4>1, AudioReads
    <3>3. CASE mode \in {"video", "failed"}
      BY <1>1, <2>1, <3>3 DEF AudioCut
    <3>4. CASE mode = "stopped"
      BY <1>1, <2>1, <3>4, PacketsKept
    <3>5. QED
      BY <1>1, <3>1, <3>2, <3>3, <3>4 DEF SampleTypeOK
  <2>5. QED
    BY <2>2, <2>3, <2>4 DEF SampleInv
<1>7. QED
  BY <1>2, <1>3, <1>4, <1>5, <1>6 DEF SampleNext

\* The readers and the stream keep their invariant, whatever the files hold.
THEOREM SampleInvariant == SampleSpec => []SampleInv
BY SampleInitInv, SampleStep, PTL DEF SampleSpec

\* For all files: what is streamed is the video file cut before its delimiters, with the
\* right IDR index, and the audio file cut after each short segment, without its headers
\* (H264AnnexBReader.cpp:61-115, OpusFileReader.cpp:117-218).
THEOREM SamplesAreCut == SampleSpec => []SamplesCut
<1>1. SampleInv => SamplesCut
  <2> SUFFICES ASSUME SampleInv, mode \in {"streaming", "stopped"}
               PROVE  AccessUnitsCut /\ PacketsCut
    BY DEF SamplesCut
  <2>1. CutSoFar = units /\ ReadSoFar = Len(nals) /\ foundAud
    BY DEF SampleInv, VideoCut, CutSoFar, ReadSoFar
  <2>2. AccessUnitsCut
    BY <2>1 DEF SampleInv, VideoCut, AccessUnitsCut
  <2>3. QED
    BY <2>2 DEF SampleInv, AudioCut
<1>2. QED
  BY <1>1, SampleInvariant, PTL

\* For all files: no keyframe request is taken without an IDR picture being sent, unless
\* the sample has none (main.cpp:1066-1087).
THEOREM KeyframeIsAnswered == SampleSpec => []TestKeyframeServed
<1>1. SampleInv => TestKeyframeServed
  BY DEF SampleInv, Answered, TestKeyframeServed
<1>2. QED
  BY <1>1, SampleInvariant, PTL
=============================================================================
