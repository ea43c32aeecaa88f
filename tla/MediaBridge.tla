----------------------------- MODULE MediaBridge -----------------------------
(***************************************************************************)
(* Video from Moonlight to WebRTC: MoonlightSession (its state word and    *)
(* its callbacks) and MoonlightMediaBridge.  Three threads act: the        *)
(* streaming thread starts and stops the connection, Moonlight's threads   *)
(* call the bridge, and WebRTC asks for keyframes.  Moonlight (external)   *)
(* delivers nothing but an IDR frame after it was told that one is needed. *)
(* submitVideo is one action: its flags are touched by no other thread,    *)
(* except moonlightIdrRequested_, which it reads once, at its end.         *)
(***************************************************************************)
EXTENDS StreamSettings

CONSTANTS
    Settings,      \* the settings a session may have been started with
    MaxRequests    \* bound: keyframe requests of the TV

ASSUME SettingsAssumption == Settings \subseteq RequestableSettings
ASSUME RequestsAssumption == MaxRequests \in Nat

Media == {"video", "audio"}

VARIABLES
    settings,
    state,             \* MoonlightSession::state_
    media,             \* activeVideoBridge_ / activeAudioBridge_ and the two flags
    frameDeadlineUs,
    idrRequested,      \* moonlightIdrRequested_
    waitingIdr,        \* waitingForMoonlightIdr_
    hdr,               \* what the HDR validation has observed
    clock,             \* hdrValidationDeadline_: not set, running or past
    stopRequested,     \* Session::stopRequested
    requests,          \* keyframe requests so far
    trackOpen,         \* external: the WebRTC video track
    awaitIdr,          \* external: Moonlight drops frames until an IDR frame
    chain,             \* history: does the TV hold every frame the next P frame needs?
    overdue            \* history: a frame was sent past the deadline without a verdict

session  == <<settings, state, stopRequested>>
keyframe == <<idrRequested, waitingIdr, requests>>
external == <<trackOpen, awaitIdr>>
history  == <<chain, overdue>>
vars == <<session, media, frameDeadlineUs, keyframe, hdr, clock, external, history>>

NoBridge == [registered |-> FALSE, configured |-> FALSE, started |-> FALSE]
NothingObserved ==
    [active |-> FALSE, rec2020 |-> FALSE, main10 |-> FALSE, complete |-> FALSE, failed |-> FALSE]

Init ==
    /\ settings \in Settings
    /\ state = "idle"
    /\ media = [m \in Media |-> NoBridge]
    /\ frameDeadlineUs = 0
    /\ idrRequested = FALSE /\ waitingIdr = FALSE /\ requests = 0
    /\ hdr = NothingObserved /\ clock = "none"
    /\ stopRequested = FALSE
    /\ trackOpen = TRUE /\ awaitIdr = TRUE
    /\ chain = "broken" /\ overdue = FALSE
-----------------------------------------------------------------------------
(***************************************************************************)
(* The streaming thread                                                    *)
(***************************************************************************)
\* Up to LiStartConnection.  Sunshine may be absent, unpaired, busy with another
\* application or fail to launch this one; an HDR session is refused by the
\* state of the host's display and codecs.
Start ==
    /\ state = "idle"
    /\ \E display \in {"unavailable", "hdr-enabled", "hdr-disabled"},
          allowed, hevcMain10, fails \in BOOLEAN :
         IF HdrAdmitted(settings, display, allowed, hevcMain10) /\ ~fails
         THEN state' = "starting" /\ UNCHANGED stopRequested
         ELSE state' = "stopped" /\ stopRequested' = TRUE
    /\ UNCHANGED <<settings, media, frameDeadlineUs, keyframe, hdr, clock, external, history>>

\* Moonlight stops and cleans up what it had set up before LiStartConnection returns
\* an error.
ConnectionFails ==
    /\ state = "starting"
    /\ state' = "stopped" /\ stopRequested' = TRUE
    /\ media' = [m \in Media |-> IF media[m].configured THEN NoBridge ELSE media[m]]
    /\ UNCHANGED <<settings, frameDeadlineUs, keyframe, hdr, clock, external, history>>

\* Nobody stops the session while start runs: both belong to the streaming thread.
Connected ==
    /\ state = "starting" /\ \A m \in Media : media[m].started
    /\ state' = "connected"
    /\ UNCHANGED <<settings, stopRequested, media, frameDeadlineUs, keyframe, hdr, clock,
                   external, history>>

Stop ==
    /\ state = "connected" /\ stopRequested
    /\ state' = "stopped"
    /\ UNCHANGED <<settings, stopRequested, media, frameDeadlineUs, keyframe, hdr, clock,
                   external, history>>
-----------------------------------------------------------------------------
(***************************************************************************)
(* Moonlight's callbacks                                                   *)
(***************************************************************************)
\* videoSetupCallback and setupVideo: format and dimensions have to be those asked for.
VideoSetup ==
    /\ state = "starting" /\ ~media["video"].registered
    /\ \E format \in VideoFormats, sameSize \in BOOLEAN :
         LET ok == format = MoonlightVideoProfile(settings).format /\ sameSize IN
           /\ media' = [media EXCEPT !["video"].registered = TRUE, !["video"].configured = ok]
           /\ frameDeadlineUs' = IF ok THEN FrameDeadlineUs(settings) ELSE frameDeadlineUs
    /\ UNCHANGED <<session, keyframe, hdr, clock, external, history>>

\* audioInitCallback and setupAudio: 48 kHz stereo Opus or nothing.
AudioInit ==
    /\ state = "starting" /\ ~media["audio"].registered
    /\ \E stereo48kHz \in BOOLEAN :
         media' = [media EXCEPT !["audio"].registered = TRUE, !["audio"].configured = stereo48kHz]
    /\ UNCHANGED <<session, frameDeadlineUs, keyframe, hdr, clock, external, history>>

\* The start callbacks; the video's starts the two seconds of the HDR validation.
MediaStart(m) ==
    /\ state = "starting" /\ media[m].configured /\ ~media[m].started
    /\ media' = [media EXCEPT ![m].started = TRUE]
    /\ clock' = IF m = "video" THEN "running" ELSE clock
    /\ UNCHANGED <<session, frameDeadlineUs, keyframe, hdr, external, history>>

\* LiStopConnection calls the stop callbacks first and the cleanup callbacks once its
\* threads have ended.
MediaStop(m) ==
    /\ state = "stopped" /\ media[m].started
    /\ media' = [media EXCEPT ![m].started = FALSE]
    /\ UNCHANGED <<session, frameDeadlineUs, keyframe, hdr, clock, external, history>>

MediaCleanup(m) ==
    /\ state = "stopped" /\ media[m].configured /\ ~media[m].started
    /\ media' = [media EXCEPT ![m] = NoBridge]
    /\ UNCHANGED <<session, frameDeadlineUs, keyframe, hdr, clock, external, history>>

ConnectionTerminated ==
    /\ state \in {"starting", "connected"}
    /\ stopRequested' = TRUE
    /\ UNCHANGED <<settings, state, media, frameDeadlineUs, keyframe, hdr, clock,
                   external, history>>

\* age counts frame intervals since the frame was received; sps says what an SPS, which
\* comes with IDR frames, promises; a decode unit whose chunks do not add up is not valid.
Frames ==
    {f \in [idr : BOOLEAN, age : {0, 2, 4}, active : BOOLEAN, rec2020 : BOOLEAN,
            sps : {"none", "main10", "other"}, valid : BOOLEAN] :
        /\ f.sps # "none" => f.idr /\ f.valid
        /\ f.active \/ f.rec2020 => f.valid}

\* Mutant: keyframes are subject to the deadline too.
LateAlsoIdr(f) ==
    /\ frameDeadlineUs > 0
    /\ (f.age * 1000000) \div settings.fps > frameDeadlineUs

Late(f) ==
    /\ frameDeadlineUs > 0 /\ ~f.idr
    /\ (f.age * 1000000) \div settings.fps > frameDeadlineUs

\* Mutant: the two seconds are only enforced once the stream claimed to be HDR.
ObserveHdrLenient(f) ==
    LET seen == [hdr EXCEPT !.active = @ \/ f.active, !.rec2020 = @ \/ f.rec2020]
    IN  IF seen.active /\ clock = "past" /\ ~hdr.complete
        THEN [seen EXCEPT !.failed = TRUE] ELSE seen

\* One frame's contribution to the HDR validation, and its verdict.
ObserveHdr(f) ==
    LET seen == [hdr EXCEPT !.active = @ \/ f.active, !.rec2020 = @ \/ f.rec2020]
        depth == IF seen.main10 THEN seen
                 ELSE IF settings.codec = "av1"
                 THEN [seen EXCEPT !.main10 = seen.active /\ seen.rec2020]
                 ELSE [seen EXCEPT !.main10 = f.sps = "main10", !.failed = f.sps = "other"]
        passed == [depth EXCEPT !.complete = @ \/ (depth.active /\ depth.rec2020 /\ depth.main10)]
    IN  [passed EXCEPT !.failed = @ \/ (~passed.complete /\ clock = "past")]

Validates == settings.hdr /\ ~hdr.failed

NeedIdr == awaitIdr' = TRUE
FrameOk(f) == awaitIdr' = (awaitIdr /\ ~f.idr)
NotSent == chain' = "broken" /\ UNCHANGED overdue

\* Mutant: an IDR frame leaves waitingForMoonlightIdr_ as it is.
ForwardKeepsWaiting(f) ==
    /\ chain' = IF f.idr THEN "whole" ELSE chain
    /\ overdue' = (overdue \/ (settings.hdr /\ clock = "past" /\ ~hdr'.complete /\ ~hdr'.failed))
    /\ waitingIdr' = (waitingIdr \/ idrRequested)
    /\ idrRequested' = FALSE
    /\ IF idrRequested THEN NeedIdr ELSE FrameOk(f)

\* The frame reaches the track; an IDR frame ends the wait for one, and a keyframe
\* request that came in is passed on with the result of this frame.
Forward(f) ==
    /\ chain' = IF f.idr THEN "whole" ELSE chain
    /\ overdue' = (overdue \/ (settings.hdr /\ clock = "past" /\ ~hdr'.complete /\ ~hdr'.failed))
    /\ waitingIdr' = ((waitingIdr /\ ~f.idr) \/ idrRequested)
    /\ idrRequested' = FALSE
    /\ IF idrRequested THEN NeedIdr ELSE FrameOk(f)

\* videoSubmitCallback.  sendFrame throws on a closed track, and so asks for an IDR frame.
SubmitVideo(f) ==
    /\ media["video"].configured
    /\ awaitIdr => f.idr
    /\ \/ /\ ~media["video"].started
          /\ NeedIdr /\ NotSent
          /\ UNCHANGED <<hdr, stopRequested, waitingIdr, idrRequested>>
       \/ /\ media["video"].started /\ Late(f)
          /\ waitingIdr' = TRUE
          /\ IF waitingIdr THEN FrameOk(f) ELSE NeedIdr
          /\ NotSent
          /\ UNCHANGED <<hdr, stopRequested, idrRequested>>
       \/ /\ media["video"].started /\ ~Late(f) /\ ~f.valid
          /\ NeedIdr /\ NotSent
          /\ UNCHANGED <<hdr, stopRequested, waitingIdr, idrRequested>>
       \/ /\ media["video"].started /\ ~Late(f) /\ f.valid
          /\ hdr' = IF Validates THEN ObserveHdr(f) ELSE hdr
          /\ stopRequested' = (stopRequested \/ (hdr'.failed /\ ~hdr.failed))
          /\ IF trackOpen
             THEN Forward(f)
             ELSE NeedIdr /\ NotSent /\ UNCHANGED <<waitingIdr, idrRequested>>
    /\ UNCHANGED <<settings, state, media, frameDeadlineUs, requests, clock, trackOpen>>
-----------------------------------------------------------------------------
(***************************************************************************)
(* WebRTC and time                                                         *)
(***************************************************************************)
\* RTCP PLI or FIR, handed to the bridge of the session.
KeyframeRequest ==
    /\ state \in {"starting", "connected"} /\ requests < MaxRequests
    /\ idrRequested' = TRUE /\ requests' = requests + 1
    /\ UNCHANGED <<session, media, frameDeadlineUs, waitingIdr, hdr, clock, external, history>>

TrackCloses ==
    /\ trackOpen
    /\ trackOpen' = FALSE /\ stopRequested' = TRUE
    /\ UNCHANGED <<settings, state, media, frameDeadlineUs, keyframe, hdr, clock, awaitIdr, history>>

DeadlinePasses ==
    /\ clock = "running" /\ clock' = "past"
    /\ UNCHANGED <<session, media, frameDeadlineUs, keyframe, hdr, external, history>>

Streaming == Start \/ ConnectionFails \/ Connected \/ Stop

Moonlight ==
    \/ VideoSetup \/ AudioInit \/ ConnectionTerminated
    \/ \E m \in Media : MediaStart(m) \/ MediaStop(m) \/ MediaCleanup(m)
    \/ \E f \in Frames : SubmitVideo(f)

Next == Streaming \/ Moonlight \/ KeyframeRequest \/ TrackCloses \/ DeadlinePasses

\* Moonlight goes on delivering the frames of the host, and answers a request for an
\* IDR frame with one.
SomeFrame == \E f \in Frames : f.valid /\ SubmitVideo(f)
SomeIdr   == \E f \in Frames : f.valid /\ f.idr /\ awaitIdr /\ SubmitVideo(f)

Spec == Init /\ [][Next]_vars
FairSpec == Spec /\ WF_vars(SomeFrame) /\ WF_vars(SomeIdr) /\ WF_vars(Streaming)
-----------------------------------------------------------------------------
\* Every variable keeps to its range.
TypeOK ==
    /\ settings \in Settings
    /\ state \in {"idle", "starting", "connected", "stopped"}
    /\ media \in [Media -> [registered : BOOLEAN, configured : BOOLEAN, started : BOOLEAN]]
    /\ frameDeadlineUs \in Nat
    /\ idrRequested \in BOOLEAN /\ waitingIdr \in BOOLEAN
    /\ requests \in 0..MaxRequests
    /\ hdr \in [active : BOOLEAN, rec2020 : BOOLEAN, main10 : BOOLEAN,
                complete : BOOLEAN, failed : BOOLEAN]
    /\ clock \in {"none", "running", "past"}
    /\ stopRequested \in BOOLEAN /\ trackOpen \in BOOLEAN /\ awaitIdr \in BOOLEAN
    /\ chain \in {"whole", "broken"} /\ overdue \in BOOLEAN

\* Once the Gateway has withheld a frame from the TV, no P frame is forwarded before an
\* IDR frame: whenever Moonlight may deliver a P frame, the TV holds what it refers to.
\* waitingForMoonlightIdr_ silences the second of two late frames and must not do so
\* after Moonlight has stopped waiting (MoonlightMediaBridge.cpp:292, 418, 570).
ReferencesWhole == ~awaitIdr => chain = "whole"

\* The HDR validation reaches one verdict, a failed one ends the stream, and no frame is
\* sent past the two seconds without a verdict (MoonlightMediaBridge.cpp:389-413).
HdrVerdict ==
    /\ ~(hdr.complete /\ hdr.failed)
    /\ hdr.failed => stopRequested
    /\ ~overdue

\* A keyframe request of the TV is answered with an IDR frame, unless the stream ends:
\* the request flag is taken by the next frame and no late keyframe is dropped.
KeyframeServed ==
    (state = "connected" /\ (idrRequested \/ waitingIdr)) ~>
        (stopRequested \/ (~idrRequested /\ ~waitingIdr /\ chain = "whole"))
=============================================================================
