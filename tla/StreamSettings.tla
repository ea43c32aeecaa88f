--------------------------- MODULE StreamSettings ---------------------------
(***************************************************************************)
(* The settings of a stream and what is derived from them:                 *)
(* src/src/session/StreamSettings, moonlight/MoonlightVideoProfile.cpp and *)
(* the configuration a Moonlight connection is asked for.                  *)
(***************************************************************************)
EXTENDS Integers, Sequences

VideoCodecs  == {"h264", "hevc", "av1"}
LatencyModes == {"lowest_latency", "balanced", "smoothest"}

Mode(w, h, fps, codecs, default, kbps, hdr) ==
    [width |-> w, height |-> h, fps |-> fps, codecs |-> codecs,
     default |-> default, kbps |-> kbps, hdr |-> hdr]

NoH264 == VideoCodecs \ {"h264"}

SupportedVideoModes == {
    Mode(1280,  720,  60, VideoCodecs, "h264", 12000, FALSE),
    Mode(1920, 1080,  60, VideoCodecs, "h264", 20000, TRUE),
    Mode(2560, 1440,  60, VideoCodecs, "hevc", 30000, TRUE),
    Mode(3840, 2160,  60, NoH264,      "hevc", 50000, TRUE),
    Mode(1280,  720,  30, VideoCodecs, "h264", 10000, FALSE),
    Mode(1920, 1080,  30, VideoCodecs, "h264", 15000, TRUE),
    Mode(2560, 1440,  30, VideoCodecs, "hevc", 20000, TRUE),
    Mode(3840, 2160,  30, NoH264,      "hevc", 30000, TRUE),
    Mode(1280,  720, 120, VideoCodecs, "h264", 20000, FALSE),
    Mode(1920, 1080, 120, VideoCodecs, "hevc", 40000, TRUE),
    Mode(2560, 1440, 120, VideoCodecs, "hevc", 50000, TRUE),
    Mode(3840, 2160, 120, NoH264,      "hevc", 70000, TRUE)}

SupportedBitratesKbps == {10000, 12000, 15000, 20000, 25000, 30000, 40000, 50000,
                          60000, 70000, 80000, 90000, 100000}

\* findVideoMode, as the set of the modes that match: empty or a singleton.
FindVideoMode(w, h, fps) ==
    {m \in SupportedVideoModes : m.width = w /\ m.height = h /\ m.fps = fps}

ModeSupportsHdr(m, codec) == m.hdr /\ codec \in NoH264

ModeSettings(m, codec, hdr, latency) ==
    [width |-> m.width, height |-> m.height, fps |-> m.fps, kbps |-> m.kbps,
     codec |-> codec, hdr |-> hdr, latency |-> latency, channels |-> 2]

ValidSettings(s) ==
    /\ \E m \in FindVideoMode(s.width, s.height, s.fps) :
          /\ s.codec \in m.codecs
          /\ s.hdr => ModeSupportsHdr(m, s.codec)
    /\ s.channels = 2
    /\ s.kbps \in SupportedBitratesKbps

\* The settings a client can have asked for with a mode's own bitrate.
RequestableSettings ==
    {s \in {ModeSettings(m, codec, hdr, latency) : m \in SupportedVideoModes,
              codec \in VideoCodecs, hdr \in BOOLEAN, latency \in LatencyModes} :
        ValidSettings(s)}
-----------------------------------------------------------------------------
VideoFormats == {"h264", "hevc-main", "hevc-main10", "av1-main8", "av1-main10"}

MoonlightVideoProfile(s) ==
    LET sdr(f) == [format |-> f, colorSpace |-> "rec709",  depth |-> 8,  hdr |-> FALSE]
        hdr(f) == [format |-> f, colorSpace |-> "rec2020", depth |-> 10, hdr |-> TRUE]
    IN  CASE s.codec = "h264" -> sdr("h264")
          [] s.codec = "av1"  -> IF s.hdr THEN hdr("av1-main10") ELSE sdr("av1-main8")
          [] s.codec = "hevc" -> IF s.hdr THEN hdr("hevc-main10") ELSE sdr("hevc-main")

\* createStreamConfiguration; the session keys are random bytes.
StreamConfiguration(s) ==
    [width |-> s.width, height |-> s.height, fps |-> s.fps, kbps |-> s.kbps,
     format |-> MoonlightVideoProfile(s).format,
     colorSpace |-> MoonlightVideoProfile(s).colorSpace,
     refreshX100 |-> s.fps * 100]

\* Mutant: no deadline is minus one.
FrameDeadlineSigned(s) ==
    CASE s.latency = "lowest_latency" -> 1500000 \div s.fps
      [] s.latency = "balanced"       -> 3000000 \div s.fps
      [] s.latency = "smoothest"      -> -1

\* frameDeadlineUs_: one and a half or three frame intervals; 0 never drops.
FrameDeadlineUs(s) ==
    CASE s.latency = "lowest_latency" -> 1500000 \div s.fps
      [] s.latency = "balanced"       -> 3000000 \div s.fps
      [] s.latency = "smoothest"      -> 0

\* isHdrHostDisplayAcceptable and the codec check of MoonlightSession::start.
HdrAdmitted(s, display, allowUnavailable, hostHasHevcMain10) ==
    s.hdr => /\ \/ display = "unavailable" /\ allowUnavailable
                \/ display = "hdr-enabled"
             /\ hostHasHevcMain10
=============================================================================
