-------------------------- MODULE MCPicoNetworkData --------------------------
(***************************************************************************)
(* PicoNetworkData on the layouts of MCPicoNetwork.                        *)
(***************************************************************************)
EXTENDS MCPicoNetwork, PicoNetworkData
=============================================================================
