------------------------------- MODULE MCUplink --------------------------------
(* Instance of Uplink for TLC: its constants are in MCUplink.cfg.          *)
EXTENDS Uplink
================================================================================
