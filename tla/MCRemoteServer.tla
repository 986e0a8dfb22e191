--------------------------- MODULE MCRemoteServer ---------------------------
(* Instances of RemoteServer for TLC. *)
EXTENDS RemoteServer
=============================================================================
