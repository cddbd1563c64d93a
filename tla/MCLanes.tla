-------------------------------- MODULE MCLanes --------------------------------
(* Instances of Lanes for TLC.                                             *)
EXTENDS Lanes, TLC

\* https-lanes: a stream opens, or sends and is closed at once; PONG is for
\* lane zero.
MCLaneBatches == { << "open" >>, << "data", "close" >>, << "pong" >> }

\* The requests are interchangeable.
RequestSymmetry == Permutations(Requests)

\* websocket-lanes: a stream opens with data and is closed.
MCSocketBatches == { << "open", "data" >>, << "close" >> }
================================================================================
