---------------------------- MODULE MCPeerRegistry ----------------------------
\* Instances of PeerRegistry for TLC.
EXTENDS PeerRegistry, TLC

CONSTANTS here, there, peer, static

HomeHere    == peer :> here
StaticThere == static :> there
=============================================================================
