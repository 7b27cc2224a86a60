---------------------------- MODULE MCForwarding ----------------------------
(* Two requests at a time, one after the other without end, over backends of *)
(* which one may have no connector.  Thresholds of two give every counter of *)
(* a breaker a middle value.                                                 *)
EXTENDS Forwarding
=============================================================================
