------------------------------ MODULE MCDownlink -------------------------------
(* Instance of Downlink for TLC: its constants are in MCDownlink.cfg.      *)
EXTENDS Downlink
================================================================================
