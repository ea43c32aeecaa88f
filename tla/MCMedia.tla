------------------------------ MODULE MCMedia ------------------------------
(***************************************************************************)
(* The media side of a session for TLC.  The four components share no      *)
(* state, so focus names the one a behaviour is about and the others keep  *)
(* their first state: the state spaces add up instead of multiplying.  The *)
(* two sample files are varied one at a time for the same reason.          *)
(***************************************************************************)
EXTENDS MediaBridge, BufferPool, Telemetry, TestMedia

CONSTANTS MaxNals, MaxPages, MaxSegments

VARIABLE focus

HD60  == Mode(1280,  720, 60, VideoCodecs, "h264", 12000, FALSE)
UHD60 == Mode(3840, 2160, 60, NoH264, "hevc", 50000, TRUE)

\* Every latency mode, and HDR in both codecs that carry it.
MCSettings ==
    {ModeSettings(HD60, "h264", FALSE, latency) : latency \in LatencyModes}
    \cup {ModeSettings(UHD60, codec, TRUE, "lowest_latency") : codec \in {"hevc", "av1"}}

SeqsUpTo(S, n) == UNION {[1..k -> S] : k \in 1..n}

\* One page: its header, and up to MaxSegments segments.
OnePage == {<<page>> : page \in Pages}
           \cup {<<page>> \o s : page \in Pages, s \in SeqsUpTo(Segments, MaxSegments)}

MCVideoSamples == SeqsUpTo(NalTypes, MaxNals)
MCAudioSamples == {FlattenSeq(s) : s \in SeqsUpTo(OnePage, MaxPages)}

\* 20 ms packets, and 180 ms ones, which the reader refuses.
MCEncodings == {<<31, 1>>, <<3, 3>>}

allVars == <<focus, vars, poolVars, logVars, sampleVars>>

MCInit ==
    /\ focus \in {"bridge", "pool", "log", "video", "audio"}
    /\ focus # "bridge" => settings = CHOOSE s \in Settings : TRUE
    /\ focus # "video" => nals = <<"aud", "idr">>
    /\ focus # "audio" =>
          items = <<"page", "part", "page", "part", "part">> /\ encoding = <<31, 1>>
    /\ Init /\ PoolInit /\ LogInit /\ SampleInit

MCNext ==
    \/ focus = "bridge" /\ Next /\ UNCHANGED <<focus, poolVars, logVars, sampleVars>>
    \/ focus = "pool" /\ PoolNext /\ UNCHANGED <<focus, vars, logVars, sampleVars>>
    \/ focus = "log" /\ LogNext /\ UNCHANGED <<focus, vars, poolVars, sampleVars>>
    \/ focus \in {"video", "audio"} /\ SampleNext /\ UNCHANGED <<focus, vars, poolVars, logVars>>

\* The fairness of MediaBridge, in the behaviours that are about it.
MCSpec ==
    /\ MCInit /\ [][MCNext]_allVars
    /\ WF_vars(focus = "bridge" /\ SomeFrame)
    /\ WF_vars(focus = "bridge" /\ SomeIdr)
    /\ WF_vars(focus = "bridge" /\ Streaming)
=============================================================================
