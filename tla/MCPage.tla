-------------------------------- MODULE MCPage --------------------------------
(* Instances of Page for TLC.                                              *)
EXTENDS Page

F(type, id, n) == [type |-> type, id |-> id, n |-> n]

\* Two streams that are opened, used together, overfilled and closed.
MCMessages ==
    { << F("open", 1, 1), F("data", 1, 2) >>,
      << F("open", 2, 1) >>,
      << F("data", 1, 1), F("data", 2, 2) >>,
      << F("data", 1, 2), F("data", 1, 1), F("window", 1, 1) >>,
      << F("data", 2, 1), F("close", 1, 1) >>,
      << F("pong", 0, 1) >> }
================================================================================
