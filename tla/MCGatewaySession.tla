-------------------------- MODULE MCGatewaySession --------------------------
\* Small instances of GatewaySession for TLC.
EXTENDS GatewaySession

MCCodecs == {"av1", "hevc"}
MCOneCodec == {"av1"}
\* Both tracks open together; the other callbacks act like "lost" or only send.
MCKinds == {"connected", "videoOpen", "audioOpen", "lost"}
=============================================================================
