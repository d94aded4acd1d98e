---------------------------- MODULE MCPeerLinks ----------------------------
(* Two players' clients; enough identities that none ever runs out.          *)
EXTENDS PeerLinks

MCIds    == 1..6
MCOffers == 1..4
=============================================================================
