----------------------------- MODULE MCSerialRx -----------------------------
(* Instance of SerialRx for TLC: a small fifo that overruns and wraps      *)
(* around twice.                                                           *)
EXTENDS SerialRx
=============================================================================
