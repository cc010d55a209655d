---------------------------- MODULE MCA9gDevice ----------------------------
(* Instances of A9gDevice for TLC.                                         *)
EXTENDS A9gDevice
=============================================================================
