-------------------------------- MODULE Gps --------------------------------
(***************************************************************************)
(* The GPS receiver thread: bytes come in by interrupt, the thread waits   *)
(* for them on an event, puts a line together in data_read and analyses it.*)
(*                                                                         *)
(* Code: applications/gps.c, second half. What GPS_Analysis computes is    *)
(* the matter of Nmea.                                                     *)
(***************************************************************************)
EXTENDS Integers, Sequences

CONSTANTS
    BuffLen,   \* GPS_DEVICE_RECV_BUFF_LEN: size of the array line (512)
    CountMod,  \* number of values of data_read's count, a rt_uint8_t (2^8)
    RxCap,     \* bytes that the serial driver keeps; the oldest ones are dropped
    Text       \* the bytes other than newline and NUL

ASSUME SizesAssumption ==
    /\ BuffLen \in Nat \ {0} /\ CountMod \in Nat \ {0}
    /\ RxCap \in Nat \ {0} /\ CountMod < BuffLen

ASSUME TextAssumption == {"newline", "NUL"} \cap Text = {}

NUL     == "NUL"
Newline == "newline"
Bytes   == Text \cup {Newline}

VARIABLES
    rx,      \* bytes received and not read
    event,   \* UART_RX_EVENT is set
    pc,      \* the receiver thread
    count,   \* data_read's count
    buff,    \* the array line
    inline,  \* history: the bytes of this line, as many as count can number
    lost     \* history: the serial driver has dropped a byte

vars == <<rx, event, pc, count, buff, inline, lost>>

Init ==
    /\ rx = << >>
    /\ event = FALSE
    /\ pc = "read"
    /\ count = 0
    /\ buff \in [0..(BuffLen - 1) -> Bytes \cup {NUL}]   \* an uninitialized array
    /\ inline = << >>
    /\ lost = FALSE

-----------------------------------------------------------------------------
\* A suspended thread takes the event it waits for and goes on.
SendEvent ==
    IF pc = "suspend" THEN pc' = "read" /\ event' = FALSE ELSE event' = TRUE /\ UNCHANGED pc

\* Mutant: the driver's buffer has no limit.
InputUnlimited(c) ==
    /\ rx' = Append(rx, c)
    /\ SendEvent
    /\ UNCHANGED <<count, buff, inline, lost>>

\* The module sends a byte; the interrupt handler stores it, in place of the
\* oldest one when there is no room, and calls uart_intput.
uart_intput(c) ==
    /\ rx' = Append(IF Len(rx) < RxCap THEN rx ELSE Tail(rx), c)
    /\ lost' = (lost \/ Len(rx) = RxCap)
    /\ SendEvent
    /\ UNCHANGED <<count, buff, inline>>

-----------------------------------------------------------------------------
(* data_read, uart_getchar                                                  *)

\* Mutant: count is as wide as len.
BumpWide(n) == n + 1

Bump(n) == (n + 1) % CountMod

\* Mutant: the newline does not end the line.
EndsAtLength(c, n) == n > BuffLen

\* The condition of the loop.
EndsLine(c, n) == c = Newline \/ n > BuffLen

\* A byte is there: it is stored, and the string is ended after the last one.
Read ==
    /\ pc = "read"
    /\ rx # << >>
    /\ LET c == Head(rx)
           n == Bump(count)
       IN /\ buff' = IF EndsLine(c, n) THEN [buff EXCEPT ![count] = c, ![n] = NUL]
                     ELSE [buff EXCEPT ![count] = c]
          /\ count' = n
          /\ inline' = IF Len(inline) < CountMod THEN Append(inline, c) ELSE inline
          /\ pc' = IF EndsLine(c, n) THEN "parse" ELSE "read"
    /\ rx' = Tail(rx)
    /\ UNCHANGED <<event, lost>>

ReadNothing ==
    /\ pc = "read"
    /\ rx = << >>
    /\ pc' = "wait"
    /\ UNCHANGED <<rx, event, count, buff, inline, lost>>

\* Mutant: an event that is already set is discarded before waiting.
WaitResets ==
    /\ pc = "wait"
    /\ event' = FALSE
    /\ pc' = "suspend"
    /\ UNCHANGED <<rx, count, buff, inline, lost>>

Wait ==
    /\ pc = "wait"
    /\ event' = FALSE
    /\ pc' = IF event THEN "read" ELSE "suspend"
    /\ UNCHANGED <<rx, count, buff, inline, lost>>

\* Mutant: the next line goes on where the last one ended.
AnalysisKeepsCount ==
    /\ pc = "parse"
    /\ pc' = "read"
    /\ inline' = << >>
    /\ UNCHANGED <<rx, event, count, buff, lost>>

\* gps_thread_entry: the line is analysed, and the next one is read.
Analysis ==
    /\ pc = "parse"
    /\ pc' = "read"
    /\ count' = 0
    /\ inline' = << >>
    /\ UNCHANGED <<rx, event, buff, lost>>

Thread == Read \/ ReadNothing \/ Wait \/ Analysis

Next == Thread \/ \E c \in Bytes : uart_intput(c)

\* The thread (priority 8, the highest of the application) is scheduled.
Spec == Init /\ [][Next]_vars /\ WF_vars(Thread)

-----------------------------------------------------------------------------
TypeOK ==
    /\ rx \in Seq(Bytes) /\ Len(rx) <= RxCap
    /\ event \in BOOLEAN
    /\ pc \in {"read", "wait", "suspend", "parse"}
    /\ count \in Nat
    /\ buff \in [0..(BuffLen - 1) -> Bytes \cup {NUL}]
    /\ inline \in Seq(Bytes)
    /\ lost \in BOOLEAN

\* No lost wakeup: whenever the thread sleeps, no byte waits to be read, although
\* bytes come between its look at the driver and its wait.
NoStrandedByte == pc = "suspend" => rx = << >>

\* Every byte and the final NUL of a line are written inside the array, also when
\* a line is longer than the array: count <= len alone would not ensure it.
InBounds == count < BuffLen

\* A line that fits into count is given to GPS_Analysis byte for byte, ended, and
\* without leftovers of the line before.
LineIntact ==
    pc = "parse" /\ Len(inline) < CountMod =>
      /\ \A k \in 1..Len(inline) : buff[k - 1] = inline[k]
      /\ buff[Len(inline)] = NUL

\* A line that has come in completely is analysed, unless the driver drops bytes.
LineAnalysed == (\E k \in 1..Len(rx) : rx[k] = Newline) ~> (pc = "parse" \/ lost)
=============================================================================
