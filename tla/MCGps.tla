------------------------------- MODULE MCGps -------------------------------
(* An instance of Gps for TLC. As in the code the array is larger than what *)
(* count can number; lines may be longer than both.                        *)
EXTENDS Gps
=============================================================================
