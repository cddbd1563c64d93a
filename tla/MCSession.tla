------------------------------- MODULE MCSession -------------------------------
(* Instances of Session for TLC.                                           *)
EXTENDS Session

F(type, id, n) == [type |-> type, id |-> id, n |-> n]

\* Two streams: open, send past a chunk, grant credit, close, late frames.
MCBatches ==
    { << F("open", 1, 0), F("data", 1, 2), F("data", 1, 1) >>,
      << F("pong", 0, 0), F("open", 2, 0), F("window", 2, 2) >>,
      << F("data", 2, 2), F("close", 1, 0), F("data", 1, 1) >>,
      << F("data", 1, 1), F("data", 2, 1) >>,
      << F("ping", 1, 0) >> }
\* Two streams that mostly receive. Two frames of DATA for stream 1 earn it two
\* WINDOWs, which share one queued frame or, when the sum passes MaxUint32,
\* need a second (queueFrameLocked); stream 2 gets credit for what it sent, in
\* the batch that closes stream 1, and may be opened once more.
MCDownBatches ==
    { << F("open", 1, 0), F("data", 1, 2) >>,
      << F("data", 1, 2), F("open", 2, 0) >>,
      << F("close", 1, 0), F("window", 2, 2) >> }

\* Streams that come and go, with late frames after a CLOSE.
MCRingBatches ==
    { << F("open", 1, 0), F("data", 1, 1) >>,
      << F("open", 2, 0), F("data", 2, 1) >>,
      << F("close", 1, 0) >>,
      << F("close", 2, 0), F("data", 1, 1) >> }
================================================================================
