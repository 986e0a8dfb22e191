--------------------------- MODULE MCChannelClient ---------------------------
(* Small instances of ChannelClient. *)
EXTENDS ChannelClient

Sends(cn, cr, sn, sr) ==
    [p \in Peers |-> IF p = "client"
                     THEN [notification |-> cn, request |-> cr]
                     ELSE [notification |-> sn, request |-> sr]]

FaultSends == Sends(0, 1, 1, 0)
OneOutageSends == Sends(1, 2, 2, 0)
TwoOutageSends == Sends(0, 1, 2, 0)
=============================================================================
