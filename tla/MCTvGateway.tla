---------------------------- MODULE MCTvGateway ----------------------------
\* Small instances of TvGateway for TLC.
EXTENDS TvGateway

CONSTANTS a1, a2   \* applications

MCCodecs == {"av1", "hevc"}
MCAv1    == {"av1"}
MCHevc   == {"hevc"}
=============================================================================
