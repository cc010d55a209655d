--------------------------- MODULE MCA9gTransfer ---------------------------
(* Instance of A9gTransfer for TLC: two sends of up to two packets, or a   *)
(* send and a resolve, with one report of the module in between.           *)
EXTENDS A9gTransfer
=============================================================================
