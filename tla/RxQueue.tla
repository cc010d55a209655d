------------------------------ MODULE RxQueue ------------------------------
(***************************************************************************)
(* What the serial driver promises its reader: a bounded queue of the      *)
(* bytes received, in the order they came, that makes room by dropping the *)
(* oldest.  A byte is named by the position at which it was received.      *)
(***************************************************************************)
EXTENDS Naturals, Sequences

VARIABLES
    capacity, \* how many bytes the queue holds; 0 until the device is opened
    arrived,  \* how many bytes have been received
    queue,    \* the ones that wait to be read
    read      \* the byte read last, 0 before the first

vars == <<capacity, arrived, queue, read>>

Init == capacity = 0 /\ arrived = 0 /\ queue = << >> /\ read = 0

Open ==
    /\ capacity = 0
    /\ capacity' \in Nat \ {0}
    /\ UNCHANGED <<arrived, queue, read>>

\* The newest c elements of s.
Newest(s, c) == IF Len(s) <= c THEN s ELSE SubSeq(s, Len(s) - c + 1, Len(s))

Put(n) ==
    /\ capacity # 0
    /\ arrived' = arrived + n
    /\ queue' = Newest(queue \o [i \in 1..n |-> arrived + i], capacity)
    /\ UNCHANGED <<capacity, read>>

Get ==
    /\ queue # << >>
    /\ read' = Head(queue)
    /\ queue' = Tail(queue)
    /\ UNCHANGED <<capacity, arrived>>

Next == Open \/ Get \/ \E n \in 1..capacity + 1 : Put(n)

Spec == Init /\ [][Next]_vars
=============================================================================
