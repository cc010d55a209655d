----------------------------- MODULE GpsProofs -----------------------------
(***************************************************************************)
(* Proofs about Gps for every size of the array, of count and of the       *)
(* driver's buffer.                                                        *)
(***************************************************************************)
EXTENDS Gps, TLAPS

\* TypeOK with the range of count.
Types ==
    /\ rx \in Seq(Bytes) /\ Len(rx) <= RxCap
    /\ event \in BOOLEAN
    /\ pc \in {"read", "wait", "suspend", "parse"}
    /\ count \in 0..(CountMod - 1)
    /\ buff \in [0..(BuffLen - 1) -> Bytes \cup {NUL}]
    /\ inline \in Seq(Bytes) /\ Len(inline) <= CountMod
    /\ lost \in BOOLEAN

\* Between its look at the driver and its wait the thread relies on the event.
Wakeup ==
    /\ pc = "suspend" => rx = << >>
    /\ pc = "wait" /\ rx # << >> => event

\* While the line fits into count, count numbers its bytes and they are stored.
Stored ==
    Len(inline) < CountMod =>
      /\ pc # "parse" => count = Len(inline)
      /\ \A k \in 1..Len(inline) : buff[k - 1] = inline[k]
      /\ pc = "parse" => buff[Len(inline)] = NUL

IInv == Types /\ Wakeup /\ Stored

\* The initial state satisfies the invariant.
LEMMA InitIInv == Init => IInv
  <1> SUFFICES ASSUME Init PROVE IInv
    OBVIOUS
  <1>1. Types
    <2>1. rx \in Seq(Bytes) /\ Len(rx) <= RxCap /\ inline \in Seq(Bytes) /\ Len(inline) <= CountMod
      BY SizesAssumption DEF Init
    <2>2. count \in 0..(CountMod - 1)
      BY SizesAssumption DEF Init
    <2> QED
      BY <2>1, <2>2 DEF Init, Types
  <1>2. Wakeup
    BY DEF Init, Wakeup
  <1>3. Stored
    BY SizesAssumption DEF Init, Stored
  <1> QED
    BY <1>1, <1>2, <1>3 DEF IInv

\* A byte that comes in, with or without room for it.
LEMMA InputStep ==
    ASSUME IInv, NEW c \in Bytes, uart_intput(c)
    PROVE  IInv'
  <1> DEFINE kept == IF Len(rx) < RxCap THEN rx ELSE Tail(rx)
  <1>1. kept \in Seq(Bytes) /\ Len(kept) < RxCap
    BY SizesAssumption DEF IInv, Types
  <1>2. Types'
    <2>1. rx' \in Seq(Bytes) /\ Len(rx') <= RxCap
      BY <1>1, SizesAssumption DEF uart_intput
    <2>2. lost' \in BOOLEAN
      BY DEF uart_intput, IInv, Types
    <2> QED
      BY <2>1, <2>2 DEF uart_intput, SendEvent, IInv, Types
  <1>3. Wakeup'
    BY DEF uart_intput, SendEvent, IInv, Wakeup, Types
  <1>4. Stored'
    BY DEF uart_intput, SendEvent, IInv, Stored, Types
  <1> QED
    BY <1>2, <1>3, <1>4 DEF IInv

\* The byte goes to its place; the wrap of count only concerns lines that do not fit.
LEMMA ReadStep == IInv /\ Read => IInv'
  <1> SUFFICES ASSUME IInv, Read PROVE IInv'
    OBVIOUS
  <1> DEFINE c == Head(rx)
             n == Bump(count)
  <1>1. c \in Bytes /\ Tail(rx) \in Seq(Bytes) /\ Len(Tail(rx)) < Len(rx)
    BY DEF Read, IInv, Types
  <1>2. /\ n \in 0..(CountMod - 1)
        /\ count < CountMod - 1 => n = count + 1
    <2>1. CASE count + 1 < CountMod
      BY <2>1, SizesAssumption DEF Bump, IInv, Types
    <2>2. CASE count + 1 = CountMod
      BY <2>2, SizesAssumption DEF Bump, IInv, Types
    <2> QED
      BY <2>1, <2>2, SizesAssumption DEF IInv, Types
  <1>3. EndsLine(c, n) <=> c = Newline
    BY <1>2, SizesAssumption DEF EndsLine
  <1>4. Types'
    <2>1. buff' \in [0..(BuffLen - 1) -> Bytes \cup {NUL}]
      BY <1>1, <1>2 DEF Read, IInv, Types
    <2>2. inline' \in Seq(Bytes) /\ Len(inline') <= CountMod
      BY <1>1, SizesAssumption DEF Read, IInv, Types
    <2>3. rx' \in Seq(Bytes) /\ Len(rx') <= RxCap
      BY <1>1, SizesAssumption DEF Read, IInv, Types
    <2> QED
      BY <1>2, <2>1, <2>2, <2>3 DEF Read, IInv, Types
  <1>5. Wakeup'
    BY DEF Read, Wakeup
  <1>6. Stored'
    <2> SUFFICES ASSUME Len(inline') < CountMod
                 PROVE  /\ pc' # "parse" => count' = Len(inline')
                        /\ \A k \in 1..Len(inline') : buff'[k - 1] = inline'[k]
                        /\ pc' = "parse" => buff'[Len(inline')] = NUL
      BY DEF Stored
    <2>1. /\ inline' = Append(inline, c)
          /\ Len(inline') = Len(inline) + 1
          /\ Len(inline) < CountMod - 1
      BY <1>1, SizesAssumption DEF Read, IInv, Types
    <2>2. count = Len(inline) /\ n = count + 1
      BY <2>1, <1>2, SizesAssumption DEF Read, IInv, Stored, Types
    <2>3. count' = Len(inline')
      BY <2>1, <2>2 DEF Read
    <2>4. buff'[count] = c /\ \A j \in 0..(count - 1) : buff'[j] = buff[j]
      BY <1>2, <2>2, SizesAssumption DEF Read, IInv, Types
    <2>5. ASSUME NEW k \in 1..Len(inline') PROVE buff'[k - 1] = inline'[k]
      <3>1. CASE k = Len(inline')
        BY <3>1, <2>1, <2>2, <2>4, <1>1 DEF IInv, Types
      <3>2. CASE k \in 1..Len(inline)
        <4>1. inline'[k] = inline[k]
          BY <3>2, <2>1, <1>1 DEF IInv, Types
        <4>2. buff'[k - 1] = buff[k - 1]
          BY <3>2, <2>2, <2>4 DEF IInv, Types
        <4>3. buff[k - 1] = inline[k]
          BY <3>2, <2>1, SizesAssumption DEF IInv, Types, Stored
        <4> QED
          BY <4>1, <4>2, <4>3
      <3> QED
        BY <3>1, <3>2, <2>1 DEF IInv, Types
    <2>6. pc' = "parse" => buff'[n] = NUL
      BY <1>2, <2>2, SizesAssumption DEF Read, IInv, Types
    <2> QED
      BY <2>1, <2>2, <2>3, <2>5, <2>6
  <1> QED
    BY <1>4, <1>5, <1>6 DEF IInv

\* The other steps of the thread leave the line alone, or start a new one.
LEMMA ThreadStep == IInv /\ (ReadNothing \/ Wait \/ Analysis) => IInv'
  <1> SUFFICES ASSUME IInv, ReadNothing \/ Wait \/ Analysis PROVE IInv'
    OBVIOUS
  <1>1. CASE ReadNothing
    BY <1>1 DEF ReadNothing, IInv, Types, Wakeup, Stored
  <1>2. CASE Wait
    BY <1>2 DEF Wait, IInv, Types, Wakeup, Stored
  <1>3. CASE Analysis
    BY <1>3, SizesAssumption DEF Analysis, IInv, Types, Wakeup, Stored
  <1> QED
    BY <1>1, <1>2, <1>3

\* The inductive invariant of the receiver.
THEOREM Invariance == Spec => []IInv
  <1>1. IInv /\ [Next]_vars => IInv'
    <2> SUFFICES ASSUME IInv, [Next]_vars PROVE IInv'
      OBVIOUS
    <2>1. CASE Read
      BY <2>1, ReadStep
    <2>2. CASE ReadNothing \/ Wait \/ Analysis
      BY <2>2, ThreadStep
    <2>3. CASE \E c \in Bytes : uart_intput(c)
      BY <2>3, InputStep
    <2>4. CASE UNCHANGED vars
      BY <2>4 DEF vars, IInv, Types, Wakeup, Stored
    <2> QED
      BY <2>1, <2>2, <2>3, <2>4 DEF Next, Thread
  <1> QED
    BY InitIInv, <1>1, PTL DEF Spec

\* The types of the receiver's state, the driver's limit included.
THEOREM TypeCorrect == Spec => []TypeOK
  <1>1. IInv => TypeOK
    BY SizesAssumption DEF IInv, Types, TypeOK
  <1> QED
    BY <1>1, Invariance, PTL

\* uart_getchar never sleeps while a byte waits to be read.
THEOREM NoByteStranded == Spec => []NoStrandedByte
  <1>1. IInv => NoStrandedByte
    BY DEF IInv, Wakeup, NoStrandedByte
  <1> QED
    BY <1>1, Invariance, PTL

\* data_read writes inside the array, however long the line is.
THEOREM WritesInBounds == Spec => []InBounds
  <1>1. IInv => InBounds
    BY SizesAssumption DEF IInv, Types, InBounds
  <1> QED
    BY <1>1, Invariance, PTL

\* A line that fits reaches GPS_Analysis byte for byte and ended.
THEOREM LinesIntact == Spec => []LineIntact
  <1>1. IInv => LineIntact
    BY DEF IInv, Stored, LineIntact
  <1> QED
    BY <1>1, Invariance, PTL
=============================================================================
