---------------------------- MODULE MCRemoteClient ----------------------------
(* Instances of RemoteClient for TLC: the state space is finite as it is, so *)
(* the limits keep the values of the code.                                   *)
EXTENDS RemoteClient
=============================================================================
