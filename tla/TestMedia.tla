------------------------------ MODULE TestMedia ------------------------------
(***************************************************************************)
(* The sample files and their stream: H264AnnexBReader.cpp,                *)
(* OpusFileReader.cpp and streamTestMedia of main.cpp.  A file is the      *)
(* sequence of what its reader's loop meets: NAL unit types, or Ogg page   *)
(* headers, each followed by the segments of its page.  What a reader      *)
(* copies out is kept as positions in the file.                            *)
(***************************************************************************)
EXTENDS Naturals, Sequences, FiniteSets

CONSTANTS
    VideoSamples, AudioSamples,   \* what the sample files may hold
    Encodings,     \* how the audio may be encoded: configuration and frames of its packets
    MaxSent        \* bound: video frames and audio packets sent

NalTypes == {"aud", "idr", "other"}
Pages    == {"page", "continued"}   \* a page header, by its continued-packet flag
Segments == {"full", "part"}        \* 255 bytes, or fewer: the last of its packet

\* No file is empty, and an Ogg file starts with a page.
ASSUME SamplesAssumption ==
    /\ VideoSamples \subseteq Seq(NalTypes) \ {<<>>}
    /\ AudioSamples \subseteq {s \in Seq(Pages \cup Segments) : s # <<>> /\ s[1] \in Pages}
    /\ Encodings \subseteq (0..31) \X (0..63)
    /\ MaxSent \in Nat

\* A packet's duration in tenths of a millisecond, as its TOC byte and frame count give
\* it; 0 stands for one that is refused: longer than 120 ms, or of no frames.
PacketDuration(configuration, frames) ==
    LET tenths == CASE configuration >= 16 -> 25 * 2 ^ (configuration % 4)
                    [] configuration \in 12..15 -> 100 * 2 ^ (configuration % 2)
                    [] configuration < 12 /\ configuration % 4 = 3 -> 600
                    [] OTHER -> 100 * 2 ^ (configuration % 4)
    IN  IF tenths * frames > 1200 THEN 0 ELSE tenths * frames

VARIABLES
    nals, items, encoding,   \* external: the sample files
    position,          \* startCode, offset: what the reader's loop comes to next
    units, unit,       \* accessUnits_, currentAccessUnit
    foundAud,
    firstIdr,          \* firstIdrAccessUnitIndex_ from 1, 0 for none
    packets, packet,   \* oggPackets, later packets_; currentPacket
    mode,              \* reading the "video" or "audio" file, streaming, stopped, or failed
    videoFrames, audioElapsed, audioPackets,
    videoIndex,        \* videoFrameIndex, from 1
    keyframeRequested, \* Session::videoKeyframeRequested
    owed,              \* history: a keyframe was requested and none was sent since
    lastVideo          \* the access unit sent last

files      == <<nals, items, encoding>>
video      == <<units, unit, foundAud, firstIdr>>
audio      == <<packets, packet>>
sent       == <<videoFrames, audioElapsed, audioPackets, lastVideo>>
request    == <<keyframeRequested, owed>>
sampleVars == <<files, position, video, audio, mode, sent, videoIndex, request>>

SampleInit ==
    /\ nals \in VideoSamples /\ items \in AudioSamples /\ encoding \in Encodings
    /\ position = 1
    /\ units = <<>> /\ unit = <<>> /\ foundAud = FALSE /\ firstIdr = 0
    /\ packets = <<>> /\ packet = <<>>
    /\ mode = "video"
    /\ videoFrames = 0 /\ audioElapsed = 0 /\ audioPackets = 0 /\ lastVideo = <<>>
    /\ videoIndex = 1
    /\ keyframeRequested = FALSE /\ owed = FALSE
-----------------------------------------------------------------------------
(***************************************************************************)
(* H264AnnexBReader                                                        *)
(***************************************************************************)

\* The delimiter that ends an access unit: the first one ends none.
EndsUnit == nals[position] = "aud" /\ foundAud /\ unit # <<>>

\* Mutant: the IDR index names the access unit that ended last.
IdrIndexLast ==
    IF nals[position] = "idr" /\ firstIdr = 0 THEN Len(units) ELSE firstIdr

IdrIndex ==
    IF nals[position] = "idr" /\ firstIdr = 0 THEN Len(units) + 1 ELSE firstIdr

ReadNal ==
    /\ mode = "video" /\ position <= Len(nals)
    /\ firstIdr' = IdrIndex
    /\ units' = IF EndsUnit THEN Append(units, unit) ELSE units
    /\ unit' = IF EndsUnit THEN <<position>> ELSE Append(unit, position)
    /\ foundAud' = (foundAud \/ nals[position] = "aud")
    /\ position' = position + 1
    /\ UNCHANGED <<files, audio, mode, sent, videoIndex, request>>

\* The end of the video file; the audio reader is constructed next.
FinishVideo ==
    /\ mode = "video" /\ position > Len(nals)
    /\ mode' = IF foundAud THEN "audio" ELSE "failed"
    /\ units' = IF foundAud /\ unit # <<>> THEN Append(units, unit) ELSE units
    /\ unit' = <<>>
    /\ position' = 1
    /\ UNCHANGED <<files, foundAud, firstIdr, audio, sent, videoIndex, request>>
-----------------------------------------------------------------------------
(***************************************************************************)
(* OpusFileReader                                                          *)
(***************************************************************************)

\* A page header: its continued flag has to say whether a packet is open.
ReadPage ==
    /\ mode = "audio" /\ position <= Len(items) /\ items[position] \in Pages
    /\ mode' = IF items[position] = "continued" <=> packet # <<>> THEN mode ELSE "failed"
    /\ position' = position + 1
    /\ UNCHANGED <<files, video, audio, sent, videoIndex, request>>

\* A segment of fewer than 255 bytes ends its packet.
ReadSegment ==
    /\ mode = "audio" /\ position <= Len(items) /\ items[position] \in Segments
    /\ LET packet1 == Append(packet, position)
           ends == items[position] = "part"
       IN  /\ packets' = IF ends THEN Append(packets, packet1) ELSE packets
           /\ packet' = IF ends THEN <<>> ELSE packet1
    /\ position' = position + 1
    /\ UNCHANGED <<files, video, mode, sent, videoIndex, request>>

PacketTenths == PacketDuration(encoding[1], encoding[2])

\* The end of the audio file; the first two packets are the Opus headers.
FinishAudio ==
    /\ mode = "audio" /\ position > Len(items)
    /\ IF packet = <<>> /\ Len(packets) >= 3 /\ PacketTenths # 0
       THEN mode' = "streaming" /\ packets' = SubSeq(packets, 3, Len(packets))
       ELSE mode' = "failed" /\ UNCHANGED packets
    /\ UNCHANGED <<files, position, video, packet, sent, videoIndex, request>>
-----------------------------------------------------------------------------
(***************************************************************************)
(* streamTestMedia                                                         *)
(***************************************************************************)

\* Sixty frames per second against the audio that was sent, compared in thirds of a
\* tenth of a millisecond to be exact.
VideoDue == 500 * videoFrames <= 3 * audioElapsed

IsIdr(u) == \E i \in DOMAIN u : nals[u[i]] = "idr"

\* Mutant: the request is taken, the rewind to the IDR frame is missing.
SendVideoPlain ==
    /\ mode = "streaming" /\ VideoDue /\ videoFrames < MaxSent
    /\ lastVideo' = units[videoIndex]
    /\ keyframeRequested' = FALSE
    /\ owed' = (owed /\ ~IsIdr(lastVideo'))
    /\ videoFrames' = videoFrames + 1
    /\ videoIndex' = (videoIndex % Len(units)) + 1
    /\ UNCHANGED <<files, position, video, audio, mode, audioElapsed, audioPackets>>

\* The video step: a keyframe request rewinds to the first IDR frame.
SendVideo ==
    /\ mode = "streaming" /\ VideoDue /\ videoFrames < MaxSent
    /\ LET index == IF keyframeRequested /\ firstIdr # 0 THEN firstIdr ELSE videoIndex IN
         /\ lastVideo' = units[index]
         /\ videoIndex' = (index % Len(units)) + 1
    /\ keyframeRequested' = FALSE
    /\ owed' = (owed /\ ~IsIdr(lastVideo'))
    /\ videoFrames' = videoFrames + 1
    /\ UNCHANGED <<files, position, video, audio, mode, audioElapsed, audioPackets>>

SendAudio ==
    /\ mode = "streaming" /\ ~VideoDue /\ audioPackets < MaxSent
    /\ audioPackets' = audioPackets + 1
    /\ audioElapsed' = audioElapsed + PacketTenths
    /\ UNCHANGED <<files, position, video, audio, mode, videoFrames, lastVideo,
                   videoIndex, request>>

\* The PLI handler, on a WebRTC thread.
RequestKeyframe ==
    /\ mode = "streaming"
    /\ keyframeRequested' = TRUE /\ owed' = TRUE
    /\ UNCHANGED <<files, position, video, audio, mode, sent, videoIndex>>

\* The session ends, or sending throws.
StopStreaming ==
    /\ mode = "streaming" /\ mode' = "stopped"
    /\ UNCHANGED <<files, position, video, audio, sent, videoIndex, request>>

SampleNext ==
    \/ ReadNal \/ FinishVideo
    \/ ReadPage \/ ReadSegment \/ FinishAudio
    \/ SendVideo \/ SendAudio \/ RequestKeyframe \/ StopStreaming

SampleSpec == SampleInit /\ [][SampleNext]_sampleVars
-----------------------------------------------------------------------------
\* us takes in the positions 1..n in order, each in one of its sequences.
CutsInto(us, n) ==
    /\ \A k \in DOMAIN us :
          /\ us[k] # <<>>
          /\ \A j \in DOMAIN us[k] : us[k][j] \in 1..n /\ us[k][j] = us[k][1] + j - 1
          /\ us[k][1] + Len(us[k]) = IF k = Len(us) THEN n + 1 ELSE us[k + 1][1]
    /\ IF us = <<>> THEN n = 0 ELSE us[1][1] = 1

\* The delimiters of an access unit: exactly one, and at its start unless it is the first.
Delimited(us) ==
    \A k \in DOMAIN us : \E i \in DOMAIN us[k] :
        /\ k > 1 => i = 1
        /\ \A j \in DOMAIN us[k] : nals[us[k][j]] = "aud" <=> j = i

\* The index names the first access unit with an IDR picture, if there is one in 1..n.
IdrIndexed(index, us, n) ==
    IF index = 0 THEN \A p \in 1..n : nals[p] # "idr"
    ELSE /\ index \in DOMAIN us /\ IsIdr(us[index])
         /\ \A k \in 1..index - 1 : ~IsIdr(us[k])

\* Nothing but page headers between the positions p and q of the audio file.
Adjacent(p, q) == p < q /\ \A i \in p + 1..q - 1 : items[i] \in Pages

\* Each packet is an unbroken run of segments of which the last, and only the last, is
\* short; the next packet, or position n, follows.
PacketsRun(ps, n) ==
    \A k \in DOMAIN ps :
        /\ ps[k] # <<>>
        /\ \A j \in DOMAIN ps[k] :
              /\ items[ps[k][j]] = IF j = Len(ps[k]) THEN "part" ELSE "full"
              /\ Adjacent(ps[k][j], IF j < Len(ps[k]) THEN ps[k][j + 1]
                                    ELSE IF k < Len(ps) THEN ps[k + 1][1] ELSE n)

Shorts(n) == {i \in 1..n : items[i] = "part"}

AccessUnitsCut ==
    /\ CutsInto(units, Len(nals)) /\ Delimited(units)
    /\ IdrIndexed(firstIdr, units, Len(nals))

PacketsCut ==
    /\ packets # <<>> /\ PacketsRun(packets, Len(items) + 1)
    /\ \E p \in Shorts(Len(items)) :
          Cardinality(Shorts(p)) = 2 /\ Adjacent(p, packets[1][1])

\* The readers lose nothing: the access units are the whole sample cut before delimiters,
\* the IDR index names the first unit with an IDR picture, and the audio packets are all
\* segments after the second packet of the file, cut after each short one
\* (H264AnnexBReader.cpp:61-115, OpusFileReader.cpp:117-218).
SamplesCut == mode \in {"streaming", "stopped"} => AccessUnitsCut /\ PacketsCut

\* A keyframe request that has been taken is answered: whenever none is pending and the
\* sample has an IDR frame, one was sent since the last request (main.cpp:1066-1087).
TestKeyframeServed ==
    mode = "streaming" /\ firstIdr # 0 /\ ~keyframeRequested => ~owed
=============================================================================
