---------------------------- MODULE MCA9gSocket ----------------------------
(* Instances of A9gSocket for TLC: socket 2 has an event bit of its own    *)
(* and shares one with socket 0.                                           *)
EXTENDS A9gSocket
=============================================================================
