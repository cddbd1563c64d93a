------------------------------- MODULE MCManager -------------------------------
(* Instance of Manager for TLC.                                            *)
EXTENDS Manager, TLC
================================================================================
