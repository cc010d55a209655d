---------------------------- MODULE MCAtSocket ----------------------------
(* Instances of AtSocket for TLC: one user is the firmware as it is built  *)
(* (the "a9g" console command owns the only descriptor), two users are the *)
(* smallest case in which both links are open at once.                     *)
EXTENDS AtSocket
=============================================================================
