----------------------------- MODULE NmeaProofs -----------------------------
(***************************************************************************)
(* Proofs about the field parser of Nmea, for sentences of every length    *)
(* and content.  The first half shows where NMEA_Comma_Pos stops and which *)
(* characters NMEA_Str2num looks at; the second what its three loops       *)
(* compute, and what becomes of the number in a speed and a coordinate.    *)
(***************************************************************************)
EXTENDS Nmea, FiniteSetTheorems, SequenceTheorems, TLAPS

\* The loops that follow the first one, and the end.
Counted == {"whole", "decimals", "done"}

TypeOK ==
    /\ buf \in Sentences /\ want \in Fields
    /\ pc \in {"search", "none", "scan"} \cup Counted
    /\ cx \in 0..want /\ pos \in 0..Len(buf) - 1
    /\ str \in [at : Nat, ilen : Nat, flen : Nat, minus : BOOLEAN, frac : BOOLEAN]
    /\ sum \in [i : Nat, ires : Int, fres : Int]
    /\ num \in [num : Int, dx : 0..5]
    /\ seen \in Nat

\* The search is past want - cx commas and nothing that ends a sentence.
Searched ==
    /\ Printable(pos) /\ CommasTo(pos) = want - cx
    /\ want > 0 /\ cx = 0 => pos > 0 /\ buf[pos] = COMMA
    /\ pc \notin {"search", "none"} => cx = 0
    /\ pc = "none" => cx > 0 /\ ~Printable(pos + 1)

\* The sums start from nothing and keep within the table of powers.
Bounded ==
    /\ pc \in {"search", "scan"} => sum = [i |-> 0, ires |-> 0, fres |-> 0]
    /\ pc \in Counted => str.ilen + Cut(str.flen) <= MaxDigits
    /\ pc = "whole" => sum.i <= str.ilen /\ sum.fres = 0
    /\ pc \in {"decimals", "done"} => str.flen <= 5
    /\ pc = "decimals" => sum.i <= str.flen

One(b) == IF b THEN 1 ELSE 0

\* The characters from pos on that have been taken for a sign, a digit or the point.
Used == One(str.minus) + str.ilen + One(str.frac) + str.flen

\* Whatever is counted has been looked at, and the cursor is in the sentence.
Cursor ==
    /\ pc \in {"search", "none"} => seen = 0
    /\ pc = "search" => str = [at |-> 0, ilen |-> 0, flen |-> 0, minus |-> FALSE, frac |-> FALSE]
    /\ pc = "scan" => pos + Used <= str.at /\ str.at < Len(buf) /\ seen <= str.at
    /\ pc \in Counted => pos + Used < seen /\ seen <= Len(buf)
    /\ str.flen > 0 => str.frac

\* The field found ends at e, and not in a point.
EndsField(e) ==
    /\ e \in pos + 1..Len(buf) /\ buf[e] \in {COMMA, STAR}
    /\ ~(e > pos + 1 /\ buf[e - 1] = DOT)
    /\ \A j \in pos + 1..e - 1 : buf[j] \notin {COMMA, STAR}

\* The cursor does not leave the field.
Local ==
    \A e \in 1..Len(buf) : EndsField(e) =>
      /\ pc = "scan" => str.at < e
      /\ pc \in Counted => seen <= e

\* The first loop is at the start of the number, among its digits or among its decimals.
Scanned(s, w, f) ==
    \/ /\ str.at = pos /\ str.ilen = 0 /\ str.flen = 0 /\ ~str.minus /\ ~str.frac
    \/ /\ str.ilen \in 1..w /\ str.flen = 0 /\ ~str.frac /\ One(str.minus) = s
       /\ str.at = pos + s + str.ilen
    \/ /\ str.ilen = w /\ str.flen \in 1..f /\ str.frac /\ One(str.minus) = s
       /\ str.at = pos + s + w + 1 + str.flen

\* The second loop has the first i digits, times the weight of the i-th.
SummedWhole(s, w, f) ==
    /\ str.flen = f
    /\ sum.ires = IF sum.i = 0 THEN 0
                  ELSE NMEA_Pow(w - sum.i) * Value(Numeral(s, w, Kept(f)), sum.i)

\* The third loop has the first i decimals besides, times the weight of the i-th.
SummedDecimals(s, w, f) ==
    /\ str.flen = Kept(f) /\ sum.ires \in Nat /\ sum.fres \in Nat
    /\ sum.ires * NMEA_Pow(Kept(f)) + sum.fres
         = NMEA_Pow(Kept(f) - sum.i) * Value(Numeral(s, w, Kept(f)), w + sum.i)

Read(s, w, f) ==
    LET v == Value(Numeral(s, w, Kept(f)), w + Kept(f))
    IN num = [num |-> IF s = 1 THEN -v ELSE v, dx |-> Kept(f)]

\* What the three loops have of a well formed number.
Number ==
    \A s \in 0..1, w, f \in Lengths : Spells(s, w, f) =>
         /\ pc = "scan" => Scanned(s, w, f)
         /\ pc \in Counted => str.ilen = w /\ One(str.minus) = s
         /\ pc = "whole" => SummedWhole(s, w, f)
         /\ pc = "decimals" => SummedDecimals(s, w, f)
         /\ pc = "done" => Read(s, w, f)

IInv == TypeOK /\ Searched /\ Bounded /\ Cursor /\ Local /\ Number

-----------------------------------------------------------------------------
(* Facts about the constants and the tables                                 *)

\* A sentence has at least two characters, ends in a NUL, and has no point before it.
LEMMA Sentence ==
    ASSUME buf \in Sentences
    PROVE  /\ Len(buf) \in Nat /\ Len(buf) >= 2
           /\ \A j \in 1..Len(buf) : buf[j] \in 0..255
           /\ buf[Len(buf)] = 0 /\ buf[Len(buf) - 1] # DOT
  <1>1. buf \in Seq(0..255) /\ Len(buf) \in 2..255 /\ buf[Len(buf)] = 0 /\ buf[Len(buf) - 1] # DOT
    BY SentencesAssumption, Zenon
  <1>2. \A j \in 1..Len(buf) : buf[j] \in 0..255
    BY <1>1, ElementOfSeq
  <1>3. \A n \in 2..255 : n \in Nat /\ n >= 2
    OBVIOUS
  <1>4. Len(buf) \in Nat /\ Len(buf) >= 2
    BY <1>1, <1>3, Zenon
  <1> QED BY <1>1, <1>2, <1>4

\* Each power of ten of the table is ten times the one before.
LEMMA PowStep ==
    /\ NMEA_Pow(0) = 1
    /\ \A n \in 0..9 : NMEA_Pow(n) \in Nat /\ NMEA_Pow(n) > 0
    /\ \A n \in 0..8 : NMEA_Pow(n + 1) = 10 * NMEA_Pow(n)
  BY DEF NMEA_Pow, Powers

-----------------------------------------------------------------------------
(* Types, the search and the cursor                                         *)

\* TypeOK and Bounded hold in the initial states.
LEMMA InitTyped == Init => TypeOK /\ Bounded
  <1> SUFFICES ASSUME Init PROVE TypeOK /\ Bounded
    OBVIOUS
  <1>1. Len(buf) \in Nat /\ Len(buf) >= 2 /\ want \in 0..255
    BY Sentence, FieldsAssumption DEF Init
  <1>2. /\ str \in [at : Nat, ilen : Nat, flen : Nat, minus : BOOLEAN, frac : BOOLEAN]
        /\ sum \in [i : Nat, ires : Int, fres : Int] /\ num \in [num : Int, dx : 0..5]
    BY DEF Init
  <1>3. cx = want /\ pos = 0 /\ seen = 0
    BY DEF Init
  <1>4. cx \in 0..want /\ pos \in 0..Len(buf) - 1 /\ seen \in Nat
    BY <1>1, <1>3
  <1>5. TypeOK
    BY <1>2, <1>4, Zenon DEF Init, TypeOK
  <1>6. Bounded
    BY DEF Init, Bounded, Counted
  <1> QED BY <1>5, <1>6

\* The character that an iteration of the first loop decides on.
Looked == IF buf[str.at + 1] = MINUS THEN str.at + 2 ELSE str.at + 1

\* An iteration of the first loop, component by component.
LEMMA ScanStep ==
    ASSUME TypeOK, Scan
    PROVE  /\ pc = "scan" /\ Looked \in Nat /\ seen' = Looked
           /\ str' \in [at : Nat, ilen : Nat, flen : Nat, minus : BOOLEAN, frac : BOOLEAN]
           /\ One(str'.minus) = IF buf[str.at + 1] = MINUS THEN 1 ELSE One(str.minus)
           /\ \/ /\ buf[Looked] \in {COMMA, STAR} /\ pc' = "whole"
                 /\ str'.ilen = str.ilen /\ str'.flen = str.flen /\ str'.frac = str.frac
                 /\ str'.ilen + Cut(str'.flen) <= MaxDigits
              \/ /\ buf[Looked] \notin {COMMA, STAR, DOT} \cup Digits /\ pc' = "whole"
                 /\ str'.ilen = 0 /\ str'.flen = 0 /\ str'.frac = str.frac
                 /\ str'.ilen + Cut(str'.flen) <= MaxDigits
              \/ /\ buf[Looked] = DOT /\ pc' = "scan" /\ str'.at = Looked + 1
                 /\ str'.ilen = str.ilen /\ str'.flen = str.flen + 1 /\ str'.frac
              \/ /\ buf[Looked] \in Digits /\ pc' = "scan" /\ str'.at = Looked
                 /\ str.frac /\ str'.frac /\ str'.ilen = str.ilen /\ str'.flen = str.flen + 1
              \/ /\ buf[Looked] \in Digits /\ pc' = "scan" /\ str'.at = Looked
                 /\ ~str.frac /\ ~str'.frac /\ str'.ilen = str.ilen + 1 /\ str'.flen = str.flen
  <1> DEFINE p     == IF buf[str.at + 1] = MINUS THEN str.at + 2 ELSE str.at + 1
             minus == str.minus \/ buf[str.at + 1] = MINUS
             frac  == str.frac \/ buf[p] = DOT
             a == [str EXCEPT !.minus = minus]
             b == [str EXCEPT !.ilen = 0, !.flen = 0, !.minus = minus]
             c == [at |-> IF buf[p] = DOT THEN p + 1 ELSE p, minus |-> minus, frac |-> frac,
                   ilen |-> IF frac THEN str.ilen ELSE str.ilen + 1,
                   flen |-> IF frac THEN str.flen + 1 ELSE str.flen]
             T == [at : Nat, ilen : Nat, flen : Nat, minus : BOOLEAN, frac : BOOLEAN]
  <1>1. str \in T /\ minus \in BOOLEAN /\ frac \in BOOLEAN /\ p \in Nat /\ p = Looked
    BY DEF TypeOK, Looked
  <1>2. /\ pc = "scan" /\ seen' = p
        /\ \/ buf[p] \in {COMMA, STAR} /\ Leave(a)
           \/ buf[p] \notin {COMMA, STAR, DOT} \cup Digits /\ Leave(b)
           \/ buf[p] \in {DOT} \cup Digits /\ pc' = pc /\ str' = c
    BY DEF Scan
  <1>3. One(minus) = IF buf[str.at + 1] = MINUS THEN 1 ELSE One(str.minus)
    BY DEF One
  <1>4. DOT \notin Digits
    BY DEF DOT, Digits
  <1> HIDE DEF minus, p
  <1>5. CASE buf[p] \in {COMMA, STAR} /\ Leave(a)
    <2>1. a \in T /\ a.minus = minus /\ a.ilen = str.ilen /\ a.flen = str.flen /\ a.frac = str.frac
      BY <1>1
    <2>2. pc' = "whole" /\ str' = a /\ a.ilen + Cut(a.flen) <= MaxDigits
      BY <1>5 DEF Leave
    <2> HIDE DEF a
    <2> QED BY <1>1, <1>2, <1>3, <1>5, <2>1, <2>2
  <1>6. CASE buf[p] \notin {COMMA, STAR, DOT} \cup Digits /\ Leave(b)
    <2>1. b \in T /\ b.minus = minus /\ b.ilen = 0 /\ b.flen = 0 /\ b.frac = str.frac
      BY <1>1
    <2>2. pc' = "whole" /\ str' = b /\ b.ilen + Cut(b.flen) <= MaxDigits
      BY <1>6 DEF Leave
    <2> HIDE DEF b
    <2> QED BY <1>1, <1>2, <1>3, <1>6, <2>1, <2>2
  <1>7. CASE buf[p] \in {DOT} \cup Digits /\ pc' = pc /\ str' = c
    <2>1. /\ c \in T /\ c.minus = minus /\ c.frac = frac
          /\ c.at = IF buf[p] = DOT THEN p + 1 ELSE p
          /\ c.ilen = IF frac THEN str.ilen ELSE str.ilen + 1
          /\ c.flen = IF frac THEN str.flen + 1 ELSE str.flen
      BY <1>1
    <2> HIDE DEF c
    <2>2. CASE buf[p] = DOT
      BY <1>1, <1>2, <1>3, <1>4, <1>7, <2>1, <2>2
    <2>3. CASE buf[p] # DOT
      BY <1>1, <1>2, <1>3, <1>7, <2>1, <2>3
    <2> QED BY <2>2, <2>3
  <1> QED BY <1>2, <1>5, <1>6, <1>7

\* The sums only look at characters that the first loop has looked at.
LEMMA Inside ==
    ASSUME TypeOK, Bounded, Cursor
    PROVE  /\ pc = "whole" /\ sum.i < str.ilen =>
                /\ Start + sum.i + 1 \in 1..Len(buf) /\ Later(Start + sum.i + 1) = seen
                /\ str.ilen - 1 - sum.i \in 0..9
           /\ pc = "decimals" /\ sum.i < str.flen =>
                /\ Start + str.ilen + 1 + sum.i + 1 \in 1..Len(buf)
                /\ Later(Start + str.ilen + 1 + sum.i + 1) = seen
                /\ str.flen - 1 - sum.i \in 0..4
  <1>1. Len(buf) \in Nat /\ Len(buf) >= 2
    BY Sentence DEF TypeOK
  <1>2. pos \in Nat /\ seen \in Nat /\ str.ilen \in Nat /\ str.flen \in Nat /\ sum.i \in Nat
    BY <1>1 DEF TypeOK
  <1>3. One(str.minus) \in Nat /\ Start = pos + One(str.minus)
    BY <1>2 DEF Start, One
  <1>4. str.flen > 0 => One(str.frac) = 1
    BY DEF Cursor, One
  <1>5. One(str.frac) \in Nat
    BY <1>2 DEF One
  <1> HIDE DEF One
  <1>6. ASSUME pc = "whole", sum.i < str.ilen
        PROVE  /\ Start + sum.i + 1 \in 1..Len(buf) /\ Later(Start + sum.i + 1) = seen
               /\ str.ilen - 1 - sum.i \in 0..9
    <2>1. pos + Used < seen /\ seen <= Len(buf)
      BY <1>6 DEF Cursor, Counted
    <2> DEFINE k == Start + sum.i + 1
    <2>2. k \in Nat /\ k >= 1
      BY <1>2, <1>3
    <2>3. k < seen
      <3>1. pos + One(str.minus) + str.ilen + One(str.frac) + str.flen < seen
        <4>1. pos + Used < seen
          BY <2>1
        <4> QED BY <1>2, <1>3, <1>5, <4>1 DEF Used
      <3> QED BY <1>2, <1>3, <1>5, <1>6, <3>1
    <2>4. str.ilen <= 10
      BY <1>2, <1>6 DEF Bounded, Counted, Cut, MaxDigits
    <2> HIDE DEF k
    <2>5. k \in 1..Len(buf) /\ Later(k) = seen
      BY <1>1, <1>2, <2>1, <2>2, <2>3 DEF Later
    <2>6. str.ilen - 1 - sum.i \in 0..9
      BY <1>2, <1>6, <2>4
    <2> QED BY <2>5, <2>6 DEF k
  <1>7. ASSUME pc = "decimals", sum.i < str.flen
        PROVE  /\ Start + str.ilen + 1 + sum.i + 1 \in 1..Len(buf)
               /\ Later(Start + str.ilen + 1 + sum.i + 1) = seen
               /\ str.flen - 1 - sum.i \in 0..4
    <2>1. pos + Used < seen /\ seen <= Len(buf)
      BY <1>7 DEF Cursor, Counted
    <2>2. pos + One(str.minus) + str.ilen + 1 + str.flen < seen
      BY <1>2, <1>3, <1>4, <1>7, <2>1 DEF Used
    <2> DEFINE k == Start + str.ilen + 1 + sum.i + 1
    <2>3. k \in Nat /\ k >= 1
      BY <1>2, <1>3
    <2>4. k < seen
      BY <1>2, <1>3, <1>7, <2>2
    <2>5. str.flen <= 5
      BY <1>7 DEF Bounded
    <2> HIDE DEF k
    <2>6. k \in 1..Len(buf) /\ Later(k) = seen
      BY <1>1, <1>2, <2>1, <2>3, <2>4 DEF Later
    <2>7. str.flen - 1 - sum.i \in 0..4
      BY <1>2, <1>7, <2>5
    <2> QED BY <2>6, <2>7 DEF k
  <1> QED BY <1>6, <1>7

\* Every step keeps the types, and the sums within the table of powers.
LEMMA TypedStep ==
    ASSUME TypeOK, Bounded, Cursor, [Next]_vars
    PROVE  TypeOK' /\ Bounded'
  <1> DEFINE Str == [at : Nat, ilen : Nat, flen : Nat, minus : BOOLEAN, frac : BOOLEAN]
             Sum == [i : Nat, ires : Int, fres : Int]
             Num == [num : Int, dx : 0..5]
  <1> SUFFICES ASSUME Next PROVE TypeOK' /\ Bounded'
    <2> SUFFICES ASSUME UNCHANGED vars PROVE TypeOK' /\ Bounded'
      OBVIOUS
    <2> QED BY DEF vars, TypeOK, Bounded
  <1>0. /\ Len(buf) \in Nat /\ Len(buf) >= 2 /\ buf[Len(buf)] = 0 /\ want \in 0..255
        /\ \A j \in 1..Len(buf) : buf[j] \in 0..255
    BY Sentence, FieldsAssumption DEF TypeOK
  <1>1. CASE CommaNone
    <2>1. TypeOK'
      BY <1>1, Zenon DEF CommaNone, TypeOK
    <2>2. Bounded'
      BY <1>1 DEF CommaNone, Bounded, Counted
    <2> QED BY <2>1, <2>2
  <1>2. CASE CommaNext
    <2>1. buf[pos + 1] # 0
      BY <1>2 DEF CommaNext, Ends
    <2>2. pos' \in 0..Len(buf) - 1 /\ cx' \in 0..want
      BY <1>0, <1>2, <2>1 DEF CommaNext, TypeOK
    <2>3. TypeOK'
      BY <1>2, <2>2, Zenon DEF CommaNext, TypeOK
    <2>4. Bounded'
      BY <1>2 DEF CommaNext, Bounded, Counted
    <2> QED BY <2>3, <2>4
  <1>3. CASE CommaHere
    <2>1. str' \in Str /\ pc' = "scan" /\ pos \in Nat
      <3>1. str \in Str /\ pos \in Nat
        BY <1>0 DEF TypeOK
      <3>2. str' = [str EXCEPT !.at = pos] /\ pc' = "scan"
        BY <1>3 DEF CommaHere
      <3> QED BY <3>1, <3>2
    <2>2. TypeOK'
      BY <1>3, <2>1, Zenon DEF CommaHere, TypeOK
    <2>3. Bounded'
      BY <1>3 DEF CommaHere, Bounded, Counted
    <2> QED BY <2>2, <2>3
  <1>4. CASE Scan
    <2>1. /\ pc = "scan" /\ pc' \in {"scan", "whole"} /\ str' \in Str /\ seen' \in Nat
          /\ pc' = "whole" => str'.ilen + Cut(str'.flen) <= MaxDigits
      BY <1>4, ScanStep
    <2>2. TypeOK'
      BY <1>4, <2>1, Zenon DEF Scan, TypeOK, Counted
    <2>3. sum' = [i |-> 0, ires |-> 0, fres |-> 0]
      BY <1>4 DEF Scan, Bounded
    <2>4. str'.ilen \in Nat
      BY <2>1
    <2>5. Bounded'
      BY <2>1, <2>3, <2>4 DEF Bounded, Counted
    <2> QED BY <2>2, <2>5
  <1>5. CASE SumWhole
    <2> DEFINE x == NMEA_Pow(str.ilen - 1 - sum.i)
               c == buf[Start + sum.i + 1]
    <2>1. pc = "whole" /\ sum.i < str.ilen /\ seen' = seen
      BY <1>5, Inside DEF SumWhole
    <2>2. x \in Nat
      BY <2>1, Inside, PowStep
    <2>3. c \in 0..255
      BY <1>0, <2>1, Inside
    <2>4. x \in Nat /\ c \in 0..255
      BY <2>2, <2>3
    <2> DEFINE z == sum.i + 1
               y == sum.ires + x * (c - ZERO)
    <2>5. sum' = [sum EXCEPT !.ires = y, !.i = z]
      BY <1>5 DEF SumWhole
    <2> HIDE DEF x, c
    <2>6. sum \in Sum /\ y \in Int /\ z \in Nat
      BY <2>4 DEF ZERO, TypeOK
    <2> HIDE DEF y, z
    <2>7. sum' \in Sum /\ sum'.i = z /\ sum'.fres = sum.fres
      BY <2>5, <2>6
    <2>8. TypeOK'
      BY <1>5, <2>1, <2>7, Zenon DEF SumWhole, TypeOK
    <2>9. sum.i \in Nat /\ str.ilen \in Nat
      BY DEF TypeOK
    <2>10. Bounded'
      BY <1>5, <2>1, <2>7, <2>9 DEF z, SumWhole, Bounded, Counted
    <2> QED BY <2>8, <2>10
  <1>6. CASE WholeDone
    <2>1. /\ str.ilen \in Nat /\ str.flen \in Nat /\ Cut(str.flen) \in 0..5
          /\ Cut(Cut(str.flen)) = Cut(str.flen)
      BY DEF TypeOK, Cut
    <2>2. str' \in Str /\ str'.ilen = str.ilen /\ str'.flen = Cut(str.flen)
      BY <1>6, <2>1 DEF WholeDone, TypeOK
    <2>3. sum' \in Sum /\ sum'.i = 0
      BY <1>6 DEF WholeDone, TypeOK
    <2>4. TypeOK'
      BY <1>6, <2>2, <2>3, Zenon DEF WholeDone, TypeOK, Counted
    <2>5. Bounded'
      BY <1>6, <2>1, <2>2, <2>3 DEF WholeDone, Bounded, Counted
    <2> QED BY <2>4, <2>5
  <1>7. CASE SumDecimals
    <2> DEFINE x == NMEA_Pow(str.flen - 1 - sum.i)
               c == buf[Start + str.ilen + 1 + sum.i + 1]
    <2>1. pc = "decimals" /\ sum.i < str.flen /\ seen' = seen
      BY <1>7, Inside DEF SumDecimals
    <2>2. str.flen - 1 - sum.i \in 0..9
      BY <2>1, Inside
    <2>3. x \in Nat
      BY <2>2, PowStep
    <2>4. c \in 0..255
      BY <1>0, <2>1, Inside
    <2>5. x \in Nat /\ c \in 0..255
      BY <2>4, <2>3
    <2> DEFINE z == sum.i + 1
               y == sum.fres + x * (c - ZERO)
    <2>6. sum' = [sum EXCEPT !.fres = y, !.i = z]
      BY <1>7 DEF SumDecimals
    <2> HIDE DEF x, c
    <2>7. sum \in Sum /\ y \in Int /\ z \in Nat
      BY <2>5 DEF ZERO, TypeOK
    <2> HIDE DEF y, z
    <2>8. sum' \in Sum /\ sum'.i = z
      BY <2>6, <2>7
    <2>9. TypeOK'
      BY <1>7, <2>1, <2>8, Zenon DEF SumDecimals, TypeOK
    <2>10. sum.i \in Nat /\ str.flen \in Nat
      BY DEF TypeOK
    <2>11. Bounded'
      BY <1>7, <2>1, <2>8, <2>10 DEF z, SumDecimals, Bounded, Counted
    <2> QED BY <2>9, <2>11
  <1>8. CASE Str2numReturn
    <2> DEFINE res == sum.ires * NMEA_Pow(str.flen) + sum.fres
    <2>1. str.flen \in 0..5 /\ sum.ires \in Int /\ sum.fres \in Int
      BY <1>8 DEF Str2numReturn, Bounded, TypeOK
    <2>2. NMEA_Pow(str.flen) \in Nat
      BY <2>1, PowStep
    <2>3. res \in Int
      BY <2>1, <2>2
    <2>4. num' = [num |-> IF str.minus THEN -res ELSE res, dx |-> str.flen]
      BY <1>8 DEF Str2numReturn
    <2> HIDE DEF res
    <2>5. num' \in Num
      BY <2>1, <2>3, <2>4
    <2>6. TypeOK'
      BY <1>8, <2>5, Zenon DEF Str2numReturn, TypeOK, Counted
    <2>7. Bounded'
      BY <1>8 DEF Str2numReturn, Bounded, Counted
    <2> QED BY <2>6, <2>7
  <1> QED BY <1>1, <1>2, <1>3, <1>4, <1>5, <1>6, <1>7, <1>8 DEF Next

\* The commas up to the next character are one more exactly when it is a comma.
LEMMA CommasNext ==
    /\ CommasTo(0) = 0
    /\ \A i \in Nat : /\ CommasTo(i) \in Nat
                      /\ CommasTo(i + 1) = IF buf[i + 1] = COMMA THEN CommasTo(i) + 1 ELSE CommasTo(i)
  <1> DEFINE S(i) == {j \in 1..i : buf[j] = COMMA}
  <1>1. S(0) = {}
    OBVIOUS
  <1>2. CommasTo(0) = 0
    BY <1>1, FS_EmptySet DEF CommasTo
  <1>3. ASSUME NEW i \in Nat
        PROVE  /\ CommasTo(i) \in Nat
               /\ CommasTo(i + 1) = IF buf[i + 1] = COMMA THEN CommasTo(i) + 1 ELSE CommasTo(i)
    <2>1. IsFiniteSet(1..i)
      BY FS_Interval
    <2>2. IsFiniteSet(S(i))
      BY <2>1, FS_Subset
    <2>3. Cardinality(S(i)) \in Nat
      BY <2>2, FS_CardinalityType
    <2>4. CASE buf[i + 1] = COMMA
      <3>1. S(i + 1) = S(i) \cup {i + 1} /\ i + 1 \notin S(i)
        BY <2>4
      <3>2. Cardinality(S(i + 1)) = Cardinality(S(i)) + 1
        BY <2>2, <3>1, FS_AddElement
      <3> QED BY <2>3, <2>4, <3>2 DEF CommasTo
    <2>5. CASE buf[i + 1] # COMMA
      <3>1. S(i + 1) = S(i)
        BY <2>5
      <3> QED BY <2>3, <2>5, <3>1 DEF CommasTo
    <2> QED BY <2>4, <2>5
  <1> QED BY <1>2, <1>3

\* The characters up to the next one are printable when it does not end the sentence.
LEMMA PrintableNext ==
    ASSUME TypeOK, Printable(pos)
    PROVE  Printable(pos + 1) <=> ~Ends(buf[pos + 1])
  <1>1. Len(buf) \in Nat /\ Len(buf) >= 2 /\ \A j \in 1..Len(buf) : buf[j] \in 0..255
    BY Sentence DEF TypeOK
  <1>2. pos \in Nat /\ pos < Len(buf)
    BY <1>1 DEF TypeOK
  <1>3. pos + 1 \in 1..Len(buf) /\ buf[pos + 1] \in 0..255
    BY <1>1, <1>2
  <1>4. Ends(buf[pos + 1]) <=> ~(buf[pos + 1] \in 32..122 /\ buf[pos + 1] # STAR)
    <2>1. \A c \in 0..255 : Ends(c) <=> ~(c \in 32..122 /\ c # STAR)
      BY DEF Ends, STAR
    <2> QED BY <1>3, <2>1
  <1>5. \A j \in 1..pos + 1 : j \in 1..pos \/ j = pos + 1
    BY <1>2
  <1>6. pos + 1 \in 1..pos + 1
    BY <1>2
  <1> QED BY <1>4, <1>5, <1>6 DEF Printable

\* Where the search is.
LEMMA InitSearched == Init => Searched
  <1> SUFFICES ASSUME Init PROVE Searched
    OBVIOUS
  <1>1. pos = 0 /\ cx = want /\ want \in 0..255 /\ pc = "search"
    BY FieldsAssumption DEF Init
  <1>2. Printable(0)
    BY DEF Printable
  <1> QED BY <1>1, <1>2, CommasNext DEF Searched

LEMMA SearchedStep ==
    ASSUME TypeOK, Searched, [Next]_vars
    PROVE  Searched'
  <1>0. Len(buf) \in Nat /\ want \in 0..255 /\ pos \in Nat /\ cx \in Nat
    BY Sentence, FieldsAssumption DEF TypeOK
  <1>1. CASE CommaNone
    <2>1. ~Printable(pos + 1)
      BY <1>1, PrintableNext DEF CommaNone, Searched
    <2> QED BY <1>1, <2>1 DEF CommaNone, Searched, Printable, CommasTo
  <1>2. CASE CommaNext
    <2>1. /\ pc = "search" /\ pc' = "search" /\ buf' = buf /\ want' = want /\ cx > 0
          /\ pos' = pos + 1 /\ cx' = IF buf[pos + 1] = COMMA THEN cx - 1 ELSE cx
      BY <1>2 DEF CommaNext
    <2>2. Printable(pos + 1)
      BY <1>2, PrintableNext DEF CommaNext, Searched
    <2>3. CommasTo(pos) = want - cx
      BY DEF Searched
    <2>4. CommasTo(pos + 1) = want - cx'
      <3>1. /\ CommasTo(pos) \in Nat
            /\ CommasTo(pos + 1) = IF buf[pos + 1] = COMMA THEN CommasTo(pos) + 1 ELSE CommasTo(pos)
        BY <1>0, CommasNext
      <3> QED BY <1>0, <2>1, <2>3, <3>1
    <2>5. Printable(pos)' /\ CommasTo(pos)' = want' - cx'
      BY <2>1, <2>2, <2>4 DEF Printable, CommasTo
    <2>6. (want > 0 /\ cx = 0 => pos > 0 /\ buf[pos] = COMMA)'
      BY <1>0, <2>1
    <2> QED BY <2>1, <2>5, <2>6 DEF Searched
  <1>3. CASE CommaHere
    BY <1>3 DEF CommaHere, Searched, Printable, CommasTo
  <1>4. ASSUME pc \notin {"search", "none"}, pc' \notin {"search", "none"},
               UNCHANGED <<buf, want, cx, pos>>
        PROVE  Searched'
    BY <1>4 DEF Searched, Printable, CommasTo
  <1>5. CASE Scan
    BY <1>4, <1>5, ScanStep DEF Scan
  <1>6. CASE SumWhole \/ WholeDone \/ SumDecimals \/ Str2numReturn
    BY <1>4, <1>6 DEF SumWhole, WholeDone, SumDecimals, Str2numReturn
  <1>7. CASE UNCHANGED vars
    BY <1>7 DEF vars, Searched, Printable, CommasTo
  <1> QED BY <1>1, <1>2, <1>3, <1>5, <1>6, <1>7 DEF Next

\* Where the cursor is at the start.
LEMMA InitCursor == Init => Cursor /\ Local
  BY DEF Init, Cursor, Local, Counted

\* An iteration of the first loop stays within the sentence and within the field.
LEMMA ScanCursor ==
    ASSUME TypeOK, Cursor, Local, Scan
    PROVE  Cursor' /\ Local'
  <1>1. /\ Len(buf) \in Nat /\ Len(buf) >= 2
        /\ buf[Len(buf)] = 0 /\ buf[Len(buf) - 1] # DOT
    BY Sentence DEF TypeOK
  <1>2. /\ pos \in Nat /\ str.at \in Nat /\ str.ilen \in Nat /\ str.flen \in Nat
        /\ str'.at \in Nat /\ str'.ilen \in Nat /\ str'.flen \in Nat
    BY <1>1, ScanStep DEF TypeOK
  <1>3. pc = "scan" /\ seen' = Looked /\ UNCHANGED <<buf, pos>> /\ pc' \in {"scan", "whole"}
    BY ScanStep DEF Scan
  <1>4. pos + Used <= str.at /\ str.at < Len(buf) /\ (str.flen > 0 => str.frac)
    BY <1>3 DEF Cursor
  <1>5. Looked \in Nat /\ Looked >= str.at + 1 /\ Looked <= Len(buf)
    <2>1. CASE buf[str.at + 1] = MINUS
      <3>1. str.at + 1 # Len(buf)
        BY <1>1, <2>1 DEF MINUS
      <3>2. Looked = str.at + 2
        BY <2>1 DEF Looked
      <3>3. str.at < Len(buf)
        BY <1>4
      <3> QED BY <1>1, <1>2, <3>1, <3>2, <3>3
    <2>2. CASE buf[str.at + 1] # MINUS
      <3>1. Looked = str.at + 1
        BY <2>2 DEF Looked
      <3>2. str.at < Len(buf)
        BY <1>4
      <3> QED BY <1>1, <1>2, <3>1, <3>2
    <2> QED BY <2>1, <2>2
  <1>6. /\ One(str.minus) \in Nat /\ One(str.minus) <= 1
        /\ One(str.frac) \in Nat /\ One(str.frac) <= 1
    BY DEF One
  <1>7. One(str'.minus) + str.at + 1 <= One(str.minus) + Looked
    BY <1>2, <1>6, ScanStep DEF Looked
  <1>8. \A e \in 1..Len(buf) : EndsField(e) => Looked <= e /\ str.at < e
    <2> SUFFICES ASSUME NEW e \in 1..Len(buf), EndsField(e) PROVE Looked <= e /\ str.at < e
      OBVIOUS
    <2>1. str.at < e /\ buf[e] # MINUS
      BY <1>3 DEF Local, EndsField, COMMA, STAR, MINUS
    <2>2. e \in Nat
      BY <1>1
    <2> QED BY <1>2, <2>1, <2>2 DEF Looked
  <1>9. \A e : EndsField(e)' <=> EndsField(e)
    BY <1>3 DEF EndsField
  <1>10. Looked \in Nat
    BY <1>5
  <1>11. pos + One(str.minus) + str.ilen + One(str.frac) + str.flen <= str.at
    <2>1. pos + Used <= str.at
      BY <1>4
    <2> QED BY <1>2, <1>6, <2>1 DEF Used
  <1>12. CASE pc' = "whole"
    <2>0. str'.frac = str.frac
      BY <1>12, ScanStep
    <2>1. str'.ilen <= str.ilen /\ str'.flen <= str.flen
      BY <1>2, <1>12, ScanStep
    <2>2. Used' = One(str'.minus) + str'.ilen + One(str.frac) + str'.flen
      BY <2>0 DEF Used
    <2>3. One(str'.minus) \in Nat
      BY DEF One
    <2>4. pos' + Used' < seen'
      <3>1. pos + One(str'.minus) + str'.ilen + One(str.frac) + str'.flen < Looked
        BY <1>2, <1>6, <1>7, <1>11, <1>10, <2>1, <2>3
      <3> QED BY <1>2, <1>3, <1>6, <2>2, <2>3, <3>1
    <2>5. Cursor'
      BY <1>2, <1>3, <1>4, <1>5, <1>12, <2>0, <2>1, <2>4 DEF Cursor, Counted
    <2>6. Local'
      BY <1>3, <1>8, <1>9, <1>12 DEF Local
    <2> QED BY <2>5, <2>6
  <1>13. CASE pc' = "scan"
    <2> DEFINE dot == IF buf[Looked] = DOT THEN 1 ELSE 0
    <2>1. /\ buf[Looked] \in {DOT} \cup Digits /\ str'.at = Looked + dot
          /\ str'.ilen + str'.flen = str.ilen + str.flen + 1
          /\ str'.flen > 0 => str'.frac
          /\ One(str'.frac) <= One(str.frac) + dot
      <3>1. CASE buf[Looked] = DOT
        <4>1. /\ str'.at = Looked + 1 /\ str'.ilen = str.ilen /\ str'.flen = str.flen + 1 /\ str'.frac
          BY <1>13, <3>1, ScanStep DEF DOT, Digits
        <4> QED BY <1>2, <1>6, <3>1, <4>1 DEF One
      <3>2. CASE buf[Looked] # DOT /\ str.frac
        <4>1. /\ buf[Looked] \in Digits /\ str'.at = Looked /\ str'.frac
              /\ str'.ilen = str.ilen /\ str'.flen = str.flen + 1
          BY <1>13, <3>2, ScanStep
        <4>2. dot = 0 /\ One(str'.frac) = 1 /\ One(str.frac) = 1
          BY <3>2, <4>1 DEF One
        <4>3. str'.ilen + str'.flen = str.ilen + str.flen + 1
          BY <1>2, <4>1
        <4>4. str'.at = Looked + dot /\ One(str'.frac) <= One(str.frac) + dot
          <5> HIDE DEF dot
          <5>1. dot = 0 /\ str'.at = Looked
            BY <4>1, <4>2
          <5> QED BY <1>10, <4>2, <5>1
        <4> QED BY <4>1, <4>3, <4>4
      <3>3. CASE buf[Looked] # DOT /\ ~str.frac
        <4>1. /\ buf[Looked] \in Digits /\ str'.at = Looked /\ ~str'.frac
              /\ str'.ilen = str.ilen + 1 /\ str'.flen = str.flen
          BY <1>13, <3>3, ScanStep
        <4> QED BY <1>2, <1>4, <1>5, <3>3, <4>1 DEF One
      <3> QED BY <3>1, <3>2, <3>3
    <2>2. str'.at < Len(buf)
      BY <1>1, <1>5, <2>1 DEF DOT, Digits
    <2>3. One(str'.minus) \in Nat /\ One(str'.frac) \in Nat /\ dot \in Nat
      BY DEF One
    <2>4. Used' = One(str'.minus) + str'.ilen + One(str'.frac) + str'.flen
      BY DEF Used
    <2>5. pos' + Used' <= str'.at
      <3>1. pos + One(str'.minus) + str'.ilen + One(str'.frac) + str'.flen <= Looked + dot
        <4>1. /\ str'.ilen + str'.flen = str.ilen + str.flen + 1
              /\ One(str'.frac) <= One(str.frac) + dot
          BY <2>1
        <4> QED BY <1>2, <1>6, <1>7, <1>11, <1>10, <2>3, <4>1
      <3> QED BY <1>2, <1>3, <2>1, <2>3, <2>4, <3>1
    <2>6. seen' <= str'.at
      BY <1>3, <1>5, <2>1
    <2>7. Cursor'
      BY <1>3, <1>13, <2>1, <2>2, <2>5, <2>6 DEF Cursor, Counted
    <2>8. ASSUME NEW e \in 1..Len(buf), EndsField(e)
          PROVE  str'.at < e
      <3>1. e \in Nat /\ Looked <= e /\ buf[e] \in {COMMA, STAR} /\ ~(e > pos + 1 /\ buf[e - 1] = DOT)
        BY <1>1, <1>8, <2>8 DEF EndsField
      <3>2. Looked # e
        BY <2>1, <3>1 DEF DOT, Digits, COMMA, STAR
      <3>3. Looked > pos
        <4>1. str.at >= pos
          BY <1>2, <1>6, <1>11
        <4>2. Looked >= str.at + 1
          BY <1>5
        <4> QED BY <1>2, <1>10, <4>1, <4>2
      <3> QED BY <1>2, <1>5, <2>1, <3>1, <3>2, <3>3
    <2>9. Local'
      BY <1>3, <1>9, <1>13, <2>8 DEF Local, Counted
    <2> QED BY <2>7, <2>9
  <1> QED BY <1>3, <1>12, <1>13

\* Every step keeps the cursor in the sentence and in the field.
LEMMA CursorStep ==
    ASSUME TypeOK, Searched, Bounded, Cursor, Local, [Next]_vars
    PROVE  Cursor' /\ Local'
  <1>0. Len(buf) \in Nat /\ pos \in Nat /\ pos < Len(buf) /\ str.ilen \in Nat /\ str.flen \in Nat
    BY Sentence DEF TypeOK
  <1>1. CASE CommaNone
    BY <1>1 DEF CommaNone, Cursor, Local, Counted
  <1>2. CASE CommaNext
    BY <1>2 DEF CommaNext, Cursor, Local, Counted
  <1>3. CASE CommaHere
    <2>1. str' = [at |-> pos, ilen |-> 0, flen |-> 0, minus |-> FALSE, frac |-> FALSE]
      <3>1. str = [at |-> 0, ilen |-> 0, flen |-> 0, minus |-> FALSE, frac |-> FALSE]
        BY <1>3 DEF CommaHere, Cursor
      <3>2. str' = [str EXCEPT !.at = pos]
        BY <1>3 DEF CommaHere
      <3> QED BY <3>1, <3>2
    <2>2. Used' = 0
      BY <2>1 DEF Used, One
    <2>3. pc' = "scan" /\ seen' = 0 /\ UNCHANGED <<buf, pos>>
      BY <1>3 DEF CommaHere, Cursor
    <2>4. Cursor'
      BY <1>0, <2>1, <2>2, <2>3 DEF Cursor, Counted
    <2>5. Local'
      BY <1>0, <2>1, <2>3 DEF Local, Counted, EndsField
    <2> QED BY <2>4, <2>5
  <1>4. CASE Scan
    BY <1>4, ScanCursor
  <1>5. ASSUME pc \in Counted, pc' \in Counted, UNCHANGED <<buf, pos, seen>>,
               str'.minus = str.minus, str'.frac = str.frac, str'.ilen = str.ilen,
               str'.flen \in Nat, str'.flen <= str.flen
        PROVE  Cursor' /\ Local'
    <2>1. pos + Used < seen /\ seen <= Len(buf) /\ (str.flen > 0 => str.frac)
      BY <1>5 DEF Cursor
    <2>2. Used' = One(str.minus) + str.ilen + One(str.frac) + str'.flen
      BY <1>5 DEF Used
    <2>3. One(str.minus) \in Nat /\ One(str.frac) \in Nat /\ seen \in Nat
      BY DEF One, TypeOK
    <2>4. pos' + Used' < seen'
      BY <1>0, <1>5, <2>1, <2>2, <2>3 DEF Used
    <2>5. Cursor'
      BY <1>0, <1>5, <2>1, <2>4 DEF Cursor, Counted
    <2>6. Local'
      BY <1>5 DEF Local, EndsField, Counted
    <2> QED BY <2>5, <2>6
  <1>6. CASE SumWhole
    BY <1>0, <1>5, <1>6, Inside DEF SumWhole, Counted
  <1>7. CASE SumDecimals
    BY <1>0, <1>5, <1>7, Inside DEF SumDecimals, Counted
  <1>8. CASE Str2numReturn
    BY <1>0, <1>5, <1>8 DEF Str2numReturn, Counted
  <1>9. CASE WholeDone
    <2>1. Cut(str.flen) \in Nat /\ Cut(str.flen) <= str.flen
      BY <1>0 DEF Cut
    <2>2. /\ str'.minus = str.minus /\ str'.frac = str.frac
          /\ str'.ilen = str.ilen /\ str'.flen = Cut(str.flen)
      BY <1>9 DEF WholeDone, TypeOK
    <2> QED BY <1>5, <1>9, <2>1, <2>2 DEF WholeDone, Counted
  <1>10. CASE UNCHANGED vars
    BY <1>10 DEF vars, Cursor, Local, Used, EndsField
  <1> QED BY <1>1, <1>2, <1>3, <1>4, <1>6, <1>7, <1>8, <1>9, <1>10 DEF Next

-----------------------------------------------------------------------------
(* What the three loops compute                                             *)

\* The characters that steer the parser are different ones, and none is a digit.
LEMMA Kinds ==
    /\ MINUS \notin {COMMA, STAR, DOT} \cup Digits
    /\ DOT \notin {COMMA, STAR} \cup Digits
    /\ COMMA \notin Digits /\ STAR \notin Digits
  BY DEF MINUS, COMMA, STAR, DOT, Digits

\* Reading one more digit multiplies by ten and adds it.
LEMMA Horner ==
    ASSUME NEW digits, NEW n \in 0..9, \A j \in 1..n + 1 : digits[j] \in Int
    PROVE  Value(digits, n) \in Int /\ Value(digits, n + 1) = 10 * Value(digits, n) + digits[n + 1]
  <1>1. \A k \in 0..8 : /\ FromRight(digits, n + 1, k + 1) = FromRight(digits, n, k)
                        /\ FromRight(digits, n, k) \in Int
    BY DEF FromRight
  <1>2. FromRight(digits, n, 9) = 0 /\ FromRight(digits, n + 1, 0) = digits[n + 1]
    BY DEF FromRight
  <1> QED BY <1>1, <1>2 DEF Value

\* A numeral stands for an integer, of digits for a natural number.
LEMMA ValueType ==
    ASSUME NEW digits, NEW n \in Nat
    PROVE  /\ (\A j \in 1..n : digits[j] \in Int) => Value(digits, n) \in Int
           /\ (\A j \in 1..n : digits[j] \in 0..9) => Value(digits, n) \in Nat
  <1>1. ASSUME \A j \in 1..n : digits[j] \in Int PROVE Value(digits, n) \in Int
    <2>1. \A k \in 0..9 : FromRight(digits, n, k) \in Int
      BY <1>1 DEF FromRight
    <2> QED BY <2>1 DEF Value
  <1>2. ASSUME \A j \in 1..n : digits[j] \in 0..9 PROVE Value(digits, n) \in Nat
    <2>1. \A k \in 0..9 : FromRight(digits, n, k) \in Nat
      BY <1>2 DEF FromRight
    <2> QED BY <2>1 DEF Value
  <1> QED BY <1>1, <1>2

\* No digit stands for 0.
LEMMA NoDigit == \A digits : Value(digits, 0) = 0
  BY DEF Value, FromRight

\* One more digit d under the weight x, in the sum and in what it stands for.
LEMMA OneMore ==
    ASSUME NEW x \in Int, NEW v \in Int, NEW d \in Int, NEW a \in Int, a = (10 * x) * v
    PROVE  a + x * d = x * (10 * v + d)
  OBVIOUS

\* The characters of a well formed number, as NMEA_Str2num meets them.
LEMMA Characters ==
    ASSUME TypeOK, NEW s \in 0..1, NEW w \in Lengths, NEW f \in Lengths, Spells(s, w, f)
    PROVE  /\ pos \in Nat /\ w \in Nat /\ f \in Nat /\ s \in Nat
           /\ \A j \in 1..w : buf[pos + s + j] \in Digits
           /\ f = 0 => buf[pos + s + w + 1] \in {COMMA, STAR}
           /\ f > 0 => /\ buf[pos + s + w + 1] = DOT
                       /\ \A j \in 1..f : buf[pos + s + w + 1 + j] \in Digits
                       /\ buf[pos + s + w + 1 + f + 1] \in {COMMA, STAR}
           /\ s = 1 => buf[pos + 1] = MINUS
  <1>1. Len(buf) \in Nat
    BY Sentence DEF TypeOK
  <1>2. pos \in Nat /\ w \in Nat /\ f \in Nat /\ s \in Nat
    BY <1>1 DEF TypeOK, Lengths
  <1>3. CASE f = 0
    <2>1. ~(f > 0)
      BY <1>3
    <2> QED BY <1>2, <1>3, <2>1, Zenon DEF Spells
  <1>4. CASE f > 0
    <2>1. f # 0
      BY <1>2, <1>4
    <2> QED BY <1>2, <1>4, <2>1, Zenon DEF Spells
  <1> QED BY <1>2, <1>3, <1>4

\* The k-th digit is the one that the loops read.
LEMMA Digit ==
    ASSUME TypeOK, NEW s \in 0..1, NEW w \in Lengths, NEW f \in Lengths, Spells(s, w, f)
    PROVE  LET N == Numeral(s, w, Kept(f)) IN
           /\ Kept(f) \in Nat /\ Kept(f) <= 5 /\ Kept(f) <= f
           /\ \A j \in 1..w + Kept(f) : N[j] \in 0..9
           /\ \A i \in Nat : i < w => N[i + 1] = buf[pos + s + i + 1] - ZERO
           /\ \A i \in Nat : i < Kept(f) => N[w + i + 1] = buf[pos + s + w + 1 + i + 1] - ZERO
  <1> DEFINE N == Numeral(s, w, Kept(f))
             c(j) == IF j <= w THEN pos + s + j ELSE pos + s + 1 + j
  <1>1. pos \in Nat /\ w \in Nat /\ f \in Nat /\ s \in Nat
    BY Characters
  <1>2. Kept(f) \in Nat /\ Kept(f) <= 5 /\ Kept(f) <= f
    BY <1>1 DEF Kept
  <1>3. \A j \in 1..w + Kept(f) : N[j] = buf[c(j)] - ZERO
    BY DEF Numeral
  <1>4. \A i \in Nat : i < w => N[i + 1] = buf[pos + s + i + 1] - ZERO
    <2> SUFFICES ASSUME NEW i \in Nat, i < w PROVE N[i + 1] = buf[pos + s + i + 1] - ZERO
      OBVIOUS
    <2>1. i + 1 \in 1..w + Kept(f) /\ c(i + 1) = pos + s + i + 1
      BY <1>1, <1>2
    <2> QED BY <1>3, <2>1
  <1>5. \A i \in Nat : i < Kept(f) => N[w + i + 1] = buf[pos + s + w + 1 + i + 1] - ZERO
    <2> SUFFICES ASSUME NEW i \in Nat, i < Kept(f)
                 PROVE  N[w + i + 1] = buf[pos + s + w + 1 + i + 1] - ZERO
      OBVIOUS
    <2>1. w + i + 1 \in 1..w + Kept(f) /\ c(w + i + 1) = pos + s + w + 1 + i + 1
      BY <1>1, <1>2
    <2> QED BY <1>3, <2>1
  <1>6. \A j \in 1..w + Kept(f) : N[j] \in 0..9
    <2> SUFFICES ASSUME NEW j \in 1..w + Kept(f) PROVE N[j] \in 0..9
      OBVIOUS
    <2>1. \A b \in Digits : b - ZERO \in 0..9
      BY DEF Digits, ZERO
    <2>2. CASE j <= w
      <3>1. j \in 1..w /\ c(j) = pos + s + j
        BY <1>1, <1>2, <2>2
      <3>2. buf[c(j)] \in Digits
        BY <3>1, Characters
      <3> QED BY <1>3, <2>1, <3>2
    <2>3. CASE ~(j <= w)
      <3>1. j - w \in 1..f /\ f > 0 /\ c(j) = pos + s + w + 1 + (j - w)
        BY <1>1, <1>2, <2>3
      <3>2. buf[c(j)] \in Digits
        BY <3>1, Characters
      <3> QED BY <1>3, <2>1, <3>2
    <2> QED BY <2>2, <2>3
  <1> QED BY <1>2, <1>4, <1>5, <1>6

\* The first loop on a well formed number: it counts its digits and its decimals.
LEMMA ScanNumber ==
    ASSUME TypeOK, Scan, NEW s \in 0..1, NEW w \in Lengths, NEW f \in Lengths, Spells(s, w, f),
           Scanned(s, w, f)
    PROVE  /\ pc' = "scan" => Scanned(s, w, f)'
           /\ pc' = "whole" => str'.ilen = w /\ str'.flen = f /\ One(str'.minus) = s
  <1>1. pos \in Nat /\ w \in Nat /\ f \in Nat /\ s \in Nat /\ s <= 1
    BY Characters
  <1>2. /\ str.at \in Nat /\ str.ilen \in Nat /\ str.flen \in Nat
        /\ str'.at \in Nat /\ str'.ilen \in Nat /\ str'.flen \in Nat
    BY ScanStep DEF TypeOK
  <1>3. pos' = pos
    BY DEF Scan
  <1> DEFINE Digit1 == /\ buf[Looked] \in Digits /\ Looked = pos + s + str.ilen + 1
                       /\ str.ilen < w /\ str.flen = 0 /\ ~str.frac
             Point  == /\ buf[Looked] = DOT /\ Looked = pos + s + w + 1
                       /\ str.ilen = w /\ str.flen = 0 /\ f > 0
             Digit2 == /\ buf[Looked] \in Digits /\ Looked = pos + s + w + 1 + str.flen + 1
                       /\ str.ilen = w /\ str.flen \in 1..f - 1 /\ str.frac
             End    == buf[Looked] \in {COMMA, STAR} /\ str.ilen = w /\ str.flen = f
  <1>4. One(str'.minus) = s /\ (Digit1 \/ Point \/ Digit2 \/ End)
    <2>1. CASE str.at = pos /\ str.ilen = 0 /\ str.flen = 0 /\ ~str.minus /\ ~str.frac
      <3>1. One(str.minus) = 0
        BY <2>1 DEF One
      <3>2. s = 0 => buf[pos + 1] # MINUS
        <4>1. CASE w > 0
          BY <1>1, <4>1, Characters, Kinds
        <4>2. CASE w = 0 /\ f > 0
          BY <1>1, <4>2, Characters, Kinds
        <4>3. CASE w = 0 /\ f = 0
          BY <1>1, <4>3, Characters, Kinds
        <4> QED BY <1>1, <4>1, <4>2, <4>3
      <3>3. Looked = pos + s + 1 /\ One(str'.minus) = s
        BY <1>1, <2>1, <3>1, <3>2, Characters, ScanStep DEF Looked
      <3>4. CASE w > 0
        BY <1>1, <2>1, <3>3, <3>4, Characters
      <3>5. CASE w = 0 /\ f > 0
        BY <1>1, <2>1, <3>3, <3>5, Characters
      <3>6. CASE w = 0 /\ f = 0
        BY <1>1, <2>1, <3>3, <3>6, Characters
      <3> QED BY <1>1, <3>3, <3>4, <3>5, <3>6
    <2>2. CASE /\ str.ilen \in 1..w /\ str.flen = 0 /\ ~str.frac /\ One(str.minus) = s
               /\ str.at = pos + s + str.ilen
      <3>1. CASE str.ilen < w
        <4>1. buf[str.at + 1] \in Digits
          <5>1. str.ilen + 1 \in 1..w /\ str.at + 1 = pos + s + (str.ilen + 1)
            BY <1>1, <1>2, <2>2, <3>1
          <5> QED BY <5>1, Characters
        <4>2. Looked = str.at + 1 /\ One(str'.minus) = s
          BY <2>2, <4>1, Kinds, ScanStep DEF Looked
        <4> QED BY <1>1, <1>2, <2>2, <3>1, <4>1, <4>2
      <3>2. CASE str.ilen = w /\ f > 0
        <4>1. buf[str.at + 1] = DOT
          BY <1>1, <2>2, <3>2, Characters
        <4>2. Looked = str.at + 1 /\ One(str'.minus) = s
          BY <2>2, <4>1, Kinds, ScanStep DEF Looked
        <4> QED BY <1>1, <1>2, <2>2, <3>2, <4>1, <4>2
      <3>3. CASE str.ilen = w /\ f = 0
        <4>1. buf[str.at + 1] \in {COMMA, STAR}
          BY <1>1, <2>2, <3>3, Characters
        <4>2. Looked = str.at + 1 /\ One(str'.minus) = s
          BY <2>2, <4>1, Kinds, ScanStep DEF Looked
        <4> QED BY <1>1, <1>2, <2>2, <3>3, <4>1, <4>2
      <3> QED BY <1>1, <1>2, <2>2, <3>1, <3>2, <3>3
    <2>3. CASE /\ str.ilen = w /\ str.flen \in 1..f /\ str.frac /\ One(str.minus) = s
               /\ str.at = pos + s + w + 1 + str.flen
      <3>1. CASE str.flen < f
        <4>1. buf[str.at + 1] \in Digits
          <5>1. f > 0 /\ str.flen + 1 \in 1..f /\ str.at + 1 = pos + s + w + 1 + (str.flen + 1)
            BY <1>1, <1>2, <2>3, <3>1
          <5> QED BY <5>1, Characters
        <4>2. Looked = str.at + 1 /\ One(str'.minus) = s
          BY <2>3, <4>1, Kinds, ScanStep DEF Looked
        <4> QED BY <1>1, <1>2, <2>3, <3>1, <4>1, <4>2
      <3>2. CASE str.flen = f
        <4>1. buf[str.at + 1] \in {COMMA, STAR}
          BY <1>1, <2>3, <3>2, Characters
        <4>2. Looked = str.at + 1 /\ One(str'.minus) = s
          BY <2>3, <4>1, Kinds, ScanStep DEF Looked
        <4> QED BY <1>1, <1>2, <2>3, <3>2, <4>1, <4>2
      <3> QED BY <1>1, <1>2, <2>3, <3>1, <3>2
    <2> QED BY <2>1, <2>2, <2>3 DEF Scanned
  <1>5. CASE Digit1
    <2>1. /\ pc' = "scan" /\ str'.at = Looked /\ ~str'.frac
          /\ str'.ilen = str.ilen + 1 /\ str'.flen = 0
      BY <1>5, ScanStep, Kinds
    <2> QED BY <1>1, <1>2, <1>3, <1>4, <1>5, <2>1 DEF Scanned
  <1>6. CASE Point
    <2>1. /\ pc' = "scan" /\ str'.at = Looked + 1 /\ str'.frac
          /\ str'.ilen = w /\ str'.flen = 1
      BY <1>6, ScanStep, Kinds
    <2> QED BY <1>1, <1>2, <1>3, <1>4, <1>6, <2>1 DEF Scanned
  <1>7. CASE Digit2
    <2>1. /\ pc' = "scan" /\ str'.at = Looked /\ str'.frac
          /\ str'.ilen = w /\ str'.flen = str.flen + 1
      BY <1>7, ScanStep, Kinds
    <2> QED BY <1>1, <1>2, <1>3, <1>4, <1>7, <2>1 DEF Scanned
  <1>8. CASE End
    <2>1. pc' = "whole" /\ str'.ilen = w /\ str'.flen = f
      BY <1>8, ScanStep, Kinds
    <2> QED BY <1>4, <2>1
  <1> QED BY <1>4, <1>5, <1>6, <1>7, <1>8

\* One round of the second loop.
LEMMA WholeNumber ==
    ASSUME TypeOK, Bounded, Cursor, SumWhole,
           NEW s \in 0..1, NEW w \in Lengths, NEW f \in Lengths, Spells(s, w, f),
           str.ilen = w, One(str.minus) = s, SummedWhole(s, w, f)
    PROVE  SummedWhole(s, w, f)'
  <1> DEFINE N == Numeral(s, w, Kept(f))
             i == sum.i
             x == NMEA_Pow(w - 1 - i)
             d == N[i + 1]
  <1>1. pos \in Nat /\ w \in Nat /\ s \in Nat /\ s <= 1
    BY Characters
  <1>2. pc = "whole" /\ i \in Nat /\ i < w /\ w - 1 - i \in 0..9 /\ w <= 10
    <2>1. pc = "whole" /\ i \in Nat /\ i < w /\ w - 1 - i \in 0..9
      BY Inside DEF SumWhole, TypeOK
    <2>2. str.flen \in Nat /\ str.ilen + Cut(str.flen) <= 10
      BY <2>1 DEF Bounded, Counted, TypeOK, MaxDigits
    <2> QED BY <1>1, <2>1, <2>2 DEF Cut
  <1>3. N' = N /\ str' = str
    BY DEF SumWhole, Numeral
  <1>4. Start = pos + s
    BY <1>1 DEF Start, One
  <1>5. /\ \A j \in 1..w + Kept(f) : N[j] \in 0..9
        /\ Kept(f) \in Nat
        /\ d = buf[Start + i + 1] - ZERO
    BY <1>2, <1>4, Digit
  <1>6. x \in Nat /\ (i > 0 => NMEA_Pow(w - i) = 10 * x)
    <2>1. x \in Nat
      BY <1>2, PowStep
    <2>2. ASSUME i > 0 PROVE NMEA_Pow(w - i) = 10 * x
      <3>1. w - 1 - i \in 0..8 /\ (w - 1 - i) + 1 = w - i
        BY <1>1, <1>2, <2>2
      <3> QED BY <3>1, PowStep
    <2> QED BY <2>1, <2>2
  <1>7. sum'.i = i + 1 /\ sum'.ires = sum.ires + x * d
    BY <1>5 DEF SumWhole, TypeOK
  <1>8. Value(N, i) \in Int /\ Value(N, i + 1) = 10 * Value(N, i) + d
    <2>1. i \in 0..9 /\ \A j \in 1..i + 1 : N[j] \in Int
      BY <1>1, <1>2, <1>5
    <2> HIDE DEF N
    <2> QED BY <2>1, Horner
  <1>9. d \in Int
    BY <1>1, <1>2, <1>5
  <1>10. sum.ires = (10 * x) * Value(N, i) /\ sum.ires \in Int
    <2>1. sum.ires \in Int
      BY DEF TypeOK
    <2>2. CASE i = 0
      <3>1. Value(N, i) = 0 /\ sum.ires = 0
        BY <2>2, NoDigit DEF SummedWhole
      <3> QED BY <1>6, <2>1, <3>1
    <2>3. CASE i > 0
      BY <1>6, <2>1, <2>3 DEF SummedWhole
    <2> QED BY <1>2, <2>2, <2>3
  <1> HIDE DEF N, x, d
  <1>11. sum.ires + x * d = x * Value(N, i + 1)
    BY <1>6, <1>8, <1>9, <1>10, OneMore
  <1>12. sum'.ires = NMEA_Pow(w - (i + 1)) * Value(N, i + 1)
    <2>1. w - (i + 1) = w - 1 - i
      BY <1>1, <1>2
    <2> QED BY <1>7, <1>11, <2>1 DEF x
  <1>13. sum'.ires = IF sum'.i = 0 THEN 0 ELSE NMEA_Pow(w - sum'.i) * Value(N', sum'.i)
    BY <1>2, <1>3, <1>7, <1>12
  <1>14. str'.flen = f
    BY <1>3 DEF SummedWhole
  <1> QED BY <1>13, <1>14 DEF SummedWhole, N

\* The second loop ends with the whole digits.
LEMMA WholeEnds ==
    ASSUME TypeOK, Bounded, WholeDone,
           NEW s \in 0..1, NEW w \in Lengths, NEW f \in Lengths, Spells(s, w, f),
           str.ilen = w, SummedWhole(s, w, f)
    PROVE  SummedDecimals(s, w, f)'
  <1> DEFINE N == Numeral(s, w, Kept(f))
  <1>1. w \in Nat /\ f \in Nat /\ sum.i \in Nat
    BY Characters DEF TypeOK
  <1>2. sum.i = w /\ sum.fres = 0 /\ str.flen = f
    BY <1>1 DEF WholeDone, Bounded, SummedWhole
  <1>3. N' = N
    BY DEF WholeDone, Numeral
  <1>4. str'.flen = Kept(f) /\ sum'.i = 0 /\ sum'.ires = sum.ires /\ sum'.fres = 0
    BY <1>1, <1>2 DEF WholeDone, TypeOK, Cut, Kept
  <1>5. Value(N, w) \in Nat
    <2>1. \A j \in 1..w + Kept(f) : N[j] \in 0..9
      BY Digit
    <2>2. Kept(f) \in Nat
      BY <1>1 DEF Kept
    <2>3. \A j \in 1..w : N[j] \in 0..9
      BY <1>1, <2>1, <2>2
    <2> HIDE DEF N
    <2> QED BY <1>1, <2>3, ValueType
  <1>6. sum.ires = Value(N, w)
    <2>1. CASE w = 0
      BY <1>2, <2>1, NoDigit DEF SummedWhole
    <2>2. CASE w # 0
      <3>1. sum.ires = NMEA_Pow(w - w) * Value(N, w)
        BY <1>2, <2>2 DEF SummedWhole
      <3>2. w - w = 0
        BY <1>1
      <3> HIDE DEF N
      <3> QED BY <1>5, <3>1, <3>2, PowStep
    <2> QED BY <2>1, <2>2
  <1>7. Kept(f) \in 0..5 /\ NMEA_Pow(Kept(f)) \in Nat
    <2>1. Kept(f) \in 0..5 /\ Kept(f) \in 0..9
      BY <1>1 DEF Kept
    <2> QED BY <2>1, PowStep
  <1>8. Kept(f) - 0 = Kept(f) /\ w + 0 = w
    BY <1>1, <1>7
  <1> HIDE DEF N
  <1>9. sum'.ires * NMEA_Pow(Kept(f)) + sum'.fres = NMEA_Pow(Kept(f)) * Value(N, w)
    BY <1>4, <1>5, <1>6, <1>7
  <1>10. sum'.ires * NMEA_Pow(Kept(f)) + sum'.fres = NMEA_Pow(Kept(f) - sum'.i) * Value(N', w + sum'.i)
    BY <1>3, <1>4, <1>8, <1>9
  <1>11. sum'.ires \in Nat /\ sum'.fres \in Nat
    BY <1>4, <1>5, <1>6
  <1> QED BY <1>4, <1>10, <1>11 DEF SummedDecimals, N

\* One round of the third loop.
LEMMA DecimalsNumber ==
    ASSUME TypeOK, Bounded, Cursor, SumDecimals,
           NEW s \in 0..1, NEW w \in Lengths, NEW f \in Lengths, Spells(s, w, f),
           str.ilen = w, One(str.minus) = s, SummedDecimals(s, w, f)
    PROVE  SummedDecimals(s, w, f)'
  <1> DEFINE K == Kept(f)
             N == Numeral(s, w, K)
             i == sum.i
             x == NMEA_Pow(K - 1 - i)
             d == N[w + i + 1]
             a == sum.ires * NMEA_Pow(K) + sum.fres
  <1>1. pos \in Nat /\ w \in Nat /\ s \in Nat /\ s <= 1 /\ f \in Nat /\ K \in Nat /\ K <= 5
    BY Characters, Digit
  <1>2. pc = "decimals" /\ i \in Nat /\ i < K /\ str.flen = K
    BY DEF SumDecimals, SummedDecimals, TypeOK
  <1>3. w + K <= 10
    <2>1. w + Cut(str.flen) <= 10
      BY <1>2 DEF Bounded, Counted, MaxDigits
    <2>2. Cut(str.flen) = K
      BY <1>1, <1>2 DEF Cut
    <2> QED BY <2>1, <2>2
  <1>4. N' = N /\ str' = str
    BY DEF SumDecimals, Numeral
  <1>5. Start = pos + s
    BY <1>1 DEF Start, One
  <1>6. /\ \A j \in 1..w + K : N[j] \in 0..9
        /\ d = buf[Start + w + 1 + i + 1] - ZERO
    BY <1>2, <1>5, Digit
  <1>7. x \in Nat /\ NMEA_Pow(K - i) = 10 * x /\ NMEA_Pow(K) \in Nat
    <2>1. K - 1 - i \in 0..8 /\ (K - 1 - i) + 1 = K - i /\ K \in 0..9
      BY <1>1, <1>2
    <2> HIDE DEF K
    <2> QED BY <2>1, PowStep
  <1>8. sum'.i = i + 1 /\ sum'.ires = sum.ires /\ sum'.fres = sum.fres + x * d
    <2>1. sum' = [sum EXCEPT !.fres = @ + x * d, !.i = @ + 1]
      BY <1>2, <1>6 DEF SumDecimals
    <2> HIDE DEF x, d
    <2> QED BY <2>1 DEF TypeOK
  <1>9. Value(N, w + i) \in Int /\ Value(N, w + i + 1) = 10 * Value(N, w + i) + d
    <2>1. w + i \in 0..9 /\ \A j \in 1..(w + i) + 1 : N[j] \in Int
      BY <1>1, <1>2, <1>3, <1>6
    <2> HIDE DEF N
    <2> QED BY <2>1, Horner
  <1>10. d \in Nat
    BY <1>1, <1>2, <1>6
  <1>11. a = (10 * x) * Value(N, w + i) /\ a \in Int /\ sum.ires \in Int /\ sum.fres \in Int
    <2>1. sum.ires \in Int /\ sum.fres \in Int
      BY DEF TypeOK
    <2>2. a \in Int
      BY <1>7, <2>1
    <2> QED BY <1>7, <2>1, <2>2 DEF SummedDecimals
  <1>12. sum'.ires * NMEA_Pow(K) + sum'.fres = a + x * d
    <2> HIDE DEF x, d, K
    <2> QED BY <1>7, <1>8, <1>10, <1>11
  <1> HIDE DEF N, x, d, a, K
  <1>13. a + x * d = x * Value(N, w + i + 1)
    BY <1>7, <1>9, <1>10, <1>11, OneMore
  <1>14. K - sum'.i = K - 1 - i /\ w + sum'.i = w + i + 1
    BY <1>1, <1>2, <1>8
  <1>15. sum'.ires * NMEA_Pow(K) + sum'.fres = NMEA_Pow(K - sum'.i) * Value(N', w + sum'.i)
    BY <1>4, <1>12, <1>13, <1>14 DEF x
  <1>16. str'.flen = K
    BY <1>2, <1>4
  <1>17. sum'.ires \in Nat /\ sum'.fres \in Nat
    <2>1. sum.ires \in Nat /\ sum.fres \in Nat
      BY DEF SummedDecimals
    <2> QED BY <1>7, <1>8, <1>10, <2>1
  <1> QED BY <1>15, <1>16, <1>17 DEF SummedDecimals, N, K

\* What is returned.
LEMMA ReturnNumber ==
    ASSUME TypeOK, Bounded, Str2numReturn,
           NEW s \in 0..1, NEW w \in Lengths, NEW f \in Lengths, Spells(s, w, f),
           One(str.minus) = s, SummedDecimals(s, w, f)
    PROVE  Read(s, w, f)'
  <1> DEFINE K == Kept(f)
             N == Numeral(s, w, K)
             v == Value(N, w + K)
             res == sum.ires * NMEA_Pow(K) + sum.fres
  <1>1. w \in Nat /\ K \in Nat /\ sum.i \in Nat /\ \A j \in 1..w + K : N[j] \in 0..9
    BY Characters, Digit DEF TypeOK
  <1>2. str.flen = K /\ sum.i = K
    BY <1>1 DEF Str2numReturn, Bounded, SummedDecimals
  <1>3. N' = N
    BY DEF Str2numReturn, Numeral
  <1>4. v \in Nat
    <2> HIDE DEF N, K
    <2> QED BY <1>1, ValueType
  <1>5. res = v
    <2>1. res = NMEA_Pow(K - K) * v
      BY <1>2 DEF SummedDecimals
    <2>2. K - K = 0
      BY <1>1
    <2> HIDE DEF v
    <2> QED BY <1>4, <2>1, <2>2, PowStep
  <1>6. num' = [num |-> IF str.minus THEN -v ELSE v, dx |-> K]
    BY <1>2, <1>5 DEF Str2numReturn
  <1>7. str.minus <=> s = 1
    BY DEF One
  <1> HIDE DEF v, K, N
  <1>8. num' = [num |-> IF s = 1 THEN -v ELSE v, dx |-> K]
    BY <1>6, <1>7
  <1> QED BY <1>3, <1>8 DEF Read, v, K, N

\* What is known of a well formed number at the start, and after every step.
LEMMA InitNumber == Init => Number
  BY DEF Init, Number, Counted

LEMMA NumberStep ==
    ASSUME TypeOK, Bounded, Cursor, Number, [Next]_vars
    PROVE  Number'
  <1> SUFFICES ASSUME NEW s \in 0..1, NEW w \in Lengths', NEW f \in Lengths', Spells(s, w, f)'
               PROVE  /\ pc' = "scan" => Scanned(s, w, f)'
                      /\ pc' \in Counted => str'.ilen = w /\ One(str'.minus) = s
                      /\ pc' = "whole" => SummedWhole(s, w, f)'
                      /\ pc' = "decimals" => SummedDecimals(s, w, f)'
                      /\ pc' = "done" => Read(s, w, f)'
    BY DEF Number
  <1>1. CASE CommaNone
    BY <1>1 DEF CommaNone, Counted
  <1>2. CASE CommaNext
    BY <1>2 DEF CommaNext, Counted
  <1>3. CASE CommaHere
    <2>1. str' = [at |-> pos, ilen |-> 0, flen |-> 0, minus |-> FALSE, frac |-> FALSE]
      <3>1. str = [at |-> 0, ilen |-> 0, flen |-> 0, minus |-> FALSE, frac |-> FALSE]
        BY <1>3 DEF CommaHere, Cursor
      <3>2. str' = [str EXCEPT !.at = pos]
        BY <1>3 DEF CommaHere
      <3> QED BY <3>1, <3>2
    <2>2. pc' = "scan" /\ pos' = pos
      BY <1>3 DEF CommaHere
    <2> QED BY <2>1, <2>2 DEF Scanned, Counted
  <1>4. ASSUME UNCHANGED <<buf, pos>>
        PROVE  /\ w \in Lengths /\ f \in Lengths /\ Spells(s, w, f)
               /\ pc = "scan" => Scanned(s, w, f)
               /\ pc \in Counted => str.ilen = w /\ One(str.minus) = s
               /\ pc = "whole" => SummedWhole(s, w, f)
               /\ pc = "decimals" => SummedDecimals(s, w, f)
               /\ pc = "done" => Read(s, w, f)
    <2>1. w \in Lengths /\ f \in Lengths /\ Spells(s, w, f)
      BY <1>4 DEF Lengths, Spells
    <2> QED BY <2>1 DEF Number
  <1>5. CASE Scan
    <2>1. pc = "scan" /\ pc' \in {"scan", "whole"}
      BY <1>5, ScanStep
    <2>2. /\ pc' = "scan" => Scanned(s, w, f)'
          /\ pc' = "whole" => str'.ilen = w /\ str'.flen = f /\ One(str'.minus) = s
      BY <1>4, <1>5, <2>1, ScanNumber DEF Scan
    <2>3. sum'.i = 0 /\ sum'.ires = 0
      BY <1>5, <2>1 DEF Scan, Bounded
    <2>4. pc' = "whole" => SummedWhole(s, w, f)'
      BY <2>2, <2>3 DEF SummedWhole
    <2> QED BY <2>1, <2>2, <2>4 DEF Counted
  <1>6. CASE SumWhole
    <2>1. pc = "whole" /\ pc' = "whole" /\ str' = str /\ UNCHANGED <<buf, pos>>
      BY <1>6 DEF SumWhole
    <2>2. str.ilen = w /\ One(str.minus) = s
      BY <1>4, <2>1 DEF Counted
    <2>3. SummedWhole(s, w, f)'
      BY <1>4, <1>6, <2>1, <2>2, WholeNumber
    <2> QED BY <2>1, <2>2, <2>3
  <1>7. CASE WholeDone
    <2>1. pc = "whole" /\ pc' = "decimals" /\ UNCHANGED <<buf, pos>>
      BY <1>7 DEF WholeDone
    <2>2. str.ilen = w /\ One(str.minus) = s
      BY <1>4, <2>1 DEF Counted
    <2>3. str'.ilen = str.ilen /\ str'.minus = str.minus
      BY <1>7 DEF WholeDone, TypeOK
    <2>4. SummedDecimals(s, w, f)'
      BY <1>4, <1>7, <2>1, <2>2, WholeEnds
    <2> QED BY <2>1, <2>2, <2>3, <2>4
  <1>8. CASE SumDecimals
    <2>1. pc = "decimals" /\ pc' = "decimals" /\ str' = str /\ UNCHANGED <<buf, pos>>
      BY <1>8 DEF SumDecimals
    <2>2. str.ilen = w /\ One(str.minus) = s
      BY <1>4, <2>1 DEF Counted
    <2>3. SummedDecimals(s, w, f)'
      BY <1>4, <1>8, <2>1, <2>2, DecimalsNumber
    <2> QED BY <2>1, <2>2, <2>3
  <1>9. CASE Str2numReturn
    <2>1. pc = "decimals" /\ pc' = "done" /\ str' = str /\ UNCHANGED <<buf, pos>>
      BY <1>9 DEF Str2numReturn
    <2>2. str.ilen = w /\ One(str.minus) = s
      BY <1>4, <2>1 DEF Counted
    <2>3. Read(s, w, f)'
      BY <1>4, <1>9, <2>1, <2>2, ReturnNumber
    <2> QED BY <2>1, <2>2, <2>3
  <1>10. CASE UNCHANGED vars
    <2>1. UNCHANGED <<buf, pc, pos, str, sum, num>>
      BY <1>10 DEF vars
    <2> QED BY <1>4, <2>1 DEF Scanned, SummedWhole, SummedDecimals, Read, Numeral
  <1> QED BY <1>1, <1>2, <1>3, <1>5, <1>6, <1>7, <1>8, <1>9, <1>10 DEF Next

-----------------------------------------------------------------------------
(* The invariant, and what follows from it                                  *)

\* The invariant holds from the start and every step keeps it.
THEOREM Invariance == Spec => []IInv
  <1>1. Init => IInv
    BY InitTyped, InitSearched, InitCursor, InitNumber DEF IInv
  <1>2. IInv /\ [Next]_vars => IInv'
    BY TypedStep, SearchedStep, CursorStep, NumberStep DEF IInv
  <1> QED BY <1>1, <1>2, PTL DEF Spec

\* NMEA_Str2num returns the value of every well formed number of up to ten digits: its
\* three loops, one round each, keep the number that they have read so far.
THEOREM NumberReadInvariant == Spec => []NumberRead
  <1>1. IInv => NumberRead
    BY DEF IInv, Number, NumberRead, Read
  <1> QED BY <1>1, Invariance, PTL

\* NMEA_Str2num looks at nothing behind the field it is given, unless the field ends in a
\* point, and never past the NUL, whatever the sentence holds.
THEOREM FieldLocalInvariant == Spec => []FieldLocal
  <1> SUFFICES ASSUME IInv PROVE FieldLocal
    BY Invariance, PTL
  <1>1. Len(buf) \in Nat /\ pos \in Nat /\ seen \in Nat /\ str.at \in Nat
    BY Sentence DEF IInv, TypeOK
  <1>2. pc \in {"search", "none", "scan"} \cup Counted
    BY DEF IInv, TypeOK
  <1>3. seen <= Len(buf)
    BY <1>1, <1>2 DEF IInv, Cursor
  <1>4. ASSUME NEW e \in pos + 1..Len(buf), pc # "search", EndsField(e)
        PROVE  seen <= e
    <2>1. e \in Nat /\ e \in 1..Len(buf)
      BY <1>1
    <2>2. (pc = "scan" => str.at < e) /\ (pc \in Counted => seen <= e)
      BY <1>4, <2>1 DEF IInv, Local
    <2> QED BY <1>1, <1>2, <1>4, <2>1, <2>2 DEF IInv, Cursor
  <1> QED BY <1>3, <1>4 DEF FieldLocal, EndsField

\* NMEA_Comma_Pos stops behind the comma that it is asked for, and gives up only where the
\* sentence ends before it.
THEOREM CommaFoundInvariant == Spec => []CommaFound
  <1> SUFFICES ASSUME IInv PROVE CommaFound
    BY Invariance, PTL
  <1>1. Len(buf) \in Nat /\ pos \in Nat /\ pos < Len(buf) /\ want \in Nat /\ cx \in Nat
    BY Sentence, FieldsAssumption DEF IInv, TypeOK
  <1>2. ASSUME pc \notin {"search", "none"}
        PROVE  /\ pos < Len(buf) /\ Printable(pos) /\ CommasTo(pos) = want
               /\ want > 0 => pos > 0 /\ buf[pos] = COMMA
    BY <1>1, <1>2 DEF IInv, Searched
  <1>3. ASSUME pc = "none"
        PROVE  \E i \in 0..Len(buf) - 1 : Printable(i) /\ ~Printable(i + 1) /\ CommasTo(i) < want
    <2>1. pos \in 0..Len(buf) - 1
      BY <1>1
    <2>2. Printable(pos) /\ ~Printable(pos + 1) /\ CommasTo(pos) = want - cx /\ cx > 0
      BY <1>3 DEF IInv, Searched
    <2>3. want - cx < want
      BY <1>1, <2>2
    <2> QED BY <2>1, <2>2, <2>3
  <1> QED BY <1>2, <1>3 DEF CommaFound

\* A speed below 65.536 km/h is stored as it is.
LEMMA SpeedExact ==
    ASSUME NEW v \in Nat, NEW f \in 0..3, v * Powers[4 - f] < Uint16
    PROVE  speed([num |-> v, dx |-> f]) = v * Powers[4 - f]
  <1> DEFINE x == Powers[4 - f]
  <1>1. Uint16 \in Nat /\ \A y \in Nat : y < Uint16 => y % Uint16 = y
    BY SMT DEF Uint16
  <1>2. x \in Nat /\ x >= 1 /\ (f = 3 => x = 1)
    BY SMT DEF Powers
  <1>3. NMEA_Pow(3 - f) = x
    <2>1. (3 - f) + 1 = 4 - f
      OBVIOUS
    <2>2. \A n : NMEA_Pow(n) = Powers[n + 1]
      BY DEF NMEA_Pow
    <2> QED BY <2>1, <2>2
  <1>4. v * x < Uint16
    OBVIOUS
  <1> HIDE DEF x
  <1>5. v * x \in Nat /\ v < Uint16
    BY <1>1, <1>2, <1>4, SMT
  <1>6. v % Uint16 = v /\ (v * x) % Uint16 = v * x
    BY <1>1, <1>4, <1>5
  <1>7. CASE f < 3
    <2>1. speed([num |-> v, dx |-> f]) = ((v % Uint16) * NMEA_Pow(3 - f)) % Uint16
      BY <1>7 DEF speed
    <2> QED BY <1>3, <1>6, <2>1 DEF x
  <1>8. CASE f = 3
    <2>1. speed([num |-> v, dx |-> f]) = v % Uint16
      BY <1>8 DEF speed
    <2>2. v * x = v
      BY <1>2, <1>8
    <2> QED BY <1>6, <2>1, <2>2 DEF x
  <1> QED BY <1>7, <1>8

\* The number of a field that spells one, when it has been read.
LEMMA Done ==
    ASSUME IInv, pc = "done", NEW w \in Lengths, NEW f \in 0..5, Spells(0, w, f)
    PROVE  LET N == Numeral(0, w, f)
               v == Value(N, w + f)
           IN /\ w \in Nat /\ v \in Nat /\ num = [num |-> v, dx |-> f]
              /\ \A j \in 1..w + f : N[j] \in 0..9
  <1> DEFINE N == Numeral(0, w, f)
             v == Value(N, w + f)
  <1>0. 0 \in 0..1 /\ TypeOK /\ Number
    BY DEF IInv
  <1>1. Len(buf) \in Nat /\ Len(buf) >= 2 /\ pos \in Nat /\ w \in Nat
    BY <1>0, Sentence DEF TypeOK, Lengths
  <1>2. f \in Lengths
    <2>1. f = 0 \/ pos + 0 + w + 1 + f + 1 <= Len(buf)
      BY DEF Spells
    <2> QED BY <1>1, <2>1 DEF Lengths
  <1>3. Kept(f) = f
    BY DEF Kept
  <1>4. \A j \in 1..w + f : N[j] \in 0..9
    BY <1>0, <1>2, <1>3, Digit
  <1>5. v \in Nat
    <2> HIDE DEF N
    <2> QED BY <1>1, <1>4, ValueType
  <1>6. Read(0, w, f)
    BY <1>0, <1>2 DEF Number, Counted
  <1>7. num = [num |-> v, dx |-> f]
    BY <1>3, <1>6 DEF Read
  <1> QED BY <1>1, <1>4, <1>5, <1>7

\* NMEA_GNVTG_Analysis stores every speed up to 65.535 km/h in thousandths.
THEOREM SpeedInvariant == Spec => []SpeedInThousandths
  <1>1. ASSUME IInv, pc = "done", NEW w \in Lengths, NEW f \in 0..3, Spells(0, w, f),
               Thousandths(w, f) < Uint16
        PROVE  speed(num) = Thousandths(w, f)
    <2> DEFINE v == Value(Numeral(0, w, f), w + f)
    <2>1. f \in 0..5
      OBVIOUS
    <2>2. v \in Nat /\ num = [num |-> v, dx |-> f]
      BY <1>1, <2>1, Done, Zenon
    <2>3. v * Powers[4 - f] < Uint16
      BY <1>1, Zenon DEF Thousandths
    <2> HIDE DEF v
    <2>4. speed([num |-> v, dx |-> f]) = v * Powers[4 - f]
      BY <2>2, <2>3, SpeedExact
    <2>5. speed(num) = v * Powers[4 - f]
      BY <2>2, <2>4
    <2> QED BY <2>5, Zenon DEF v, Thousandths
  <1>2. IInv => SpeedInThousandths
    BY <1>1, Zenon DEF SpeedInThousandths
  <1> QED BY <1>2, Invariance, PTL

-----------------------------------------------------------------------------
(* Arithmetic of the coordinates                                            *)

\* The quotient and the remainder of a division.
LEMMA DivMod ==
    ASSUME NEW n \in Nat, NEW d \in Nat, d > 0
    PROVE  n = d * (n \div d) + (n % d) /\ n % d \in 0..d - 1 /\ n \div d \in Nat
  <1> DEFINE q == n \div d
             t == n - d * q
  <1>1. q \in Nat /\ d * q <= n /\ n < d * q + d
    BY SMT
  <1> HIDE DEF q
  <1>2. t \in 0..d - 1 /\ n = d * q + t
    BY <1>1, SMT
  <1> HIDE DEF t
  <1>3. t = n % d
    BY <1>1, <1>2, SMT
  <1>4. n = d * q + (n % d) /\ n % d \in 0..d - 1 /\ q \in Nat
    BY <1>1, <1>2, <1>3, Zenon
  <1> QED BY <1>4, Zenon DEF q

\* They are the only ones.
LEMMA DivModUnique ==
    ASSUME NEW n \in Nat, NEW d \in Nat, d > 0, NEW q \in Nat, NEW t \in 0..d - 1, n = d * q + t
    PROVE  n \div d = q /\ n % d = t
  BY SMT

\* What lies between two multiples of d is rounded to something between the factors.
LEMMA RoundBetween ==
    ASSUME NEW n \in Nat, NEW d \in Nat, d > 0, NEW a \in Nat, NEW b \in Nat, a * d <= n, n <= b * d
    PROVE  RoundHalfEven(n, d) \in a..b
  <1> DEFINE q == n \div d
             r == n % d
  <1>1. n = d * q + r /\ r \in 0..d - 1 /\ q \in Nat
    BY DivMod
  <1> HIDE DEF q, r
  <1>2. a <= q
    BY <1>1, SMT
  <1>3. q <= b /\ (q = b => r = 0)
    BY <1>1, SMT
  <1>4. RoundHalfEven(n, d) = IF 2 * r > d \/ (2 * r = d /\ q % 2 = 1) THEN q + 1 ELSE q
    BY DEF RoundHalfEven, q, r
  <1> QED BY <1>1, <1>2, <1>3, <1>4, SMT

\* What is less than half of d above a multiple is rounded down.
LEMMA RoundDown ==
    ASSUME NEW n \in Nat, NEW d \in Nat, d > 0, NEW q \in Nat, NEW r \in Nat,
           n = d * q + r, 2 * r < d
    PROVE  RoundHalfEven(n, d) = q
  <1>1. r \in 0..d - 1
    OBVIOUS
  <1>2. n \div d = q /\ n % d = r
    BY <1>1, DivModUnique
  <1> QED BY <1>2 DEF RoundHalfEven

\* The powers of two of the table.
LEMMA TwoFacts ==
    /\ \A b \in 0..25 : Two(b) \in Nat /\ Two(b) > 0
    /\ \A b \in 0..24 : Two(b + 1) = 2 * Two(b)
    /\ \A a, b \in 0..25 : a <= b => Two(a) <= Two(b)
    /\ \A a \in 0..24, b \in 0..7 : a + b <= 24 => Two(a + b) = Two(a) * Two(b)
  <1>1. \A b \in 0..25 : Two(b) \in Nat /\ Two(b) > 0
    BY SMT DEF Two, Pow2
  <1>2. \A b \in 0..24 : Two(b + 1) = 2 * Two(b)
    BY SMT DEF Two, Pow2
  <1>3. \A a, b \in 0..25 : a <= b => Two(a) <= Two(b)
    BY SMT DEF Two, Pow2
  <1>4. \A a \in 0..24, b \in 0..7 : a + b <= 24 => Two(a + b) = Two(a) * Two(b)
    BY SMT DEF Two, Pow2
  <1> QED BY <1>1, <1>2, <1>3, <1>4

\* BitLen is the number of bits.
LEMMA Bits ==
    ASSUME NEW x \in Nat, x < Two(25)
    PROVE  /\ BitLen(x) \in 0..25 /\ x < Two(BitLen(x))
           /\ BitLen(x) > 0 => x >= Two(BitLen(x) - 1)
  <1>1. \E b \in 0..25 : x < Two(b) /\ (b > 0 => x >= Two(b - 1))
    BY SMT DEF Two, Pow2
  <1> QED BY <1>1 DEF BitLen

\* A larger number has no fewer bits.
LEMMA BitsMonotonic ==
    ASSUME NEW x \in Nat, NEW y \in Nat, x <= y, y < Two(25)
    PROVE  BitLen(x) <= BitLen(y)
  <1> DEFINE a == BitLen(x)
             b == BitLen(y)
  <1>1. x < Two(25)
    BY TwoFacts
  <1>2. a \in 0..25 /\ b \in 0..25 /\ y < Two(b) /\ (a > 0 => x >= Two(a - 1))
    BY <1>1, Bits
  <1> HIDE DEF a, b
  <1>3. ASSUME a > b PROVE FALSE
    <2>1. a - 1 \in 0..25 /\ b <= a - 1 /\ a > 0
      BY <1>2, <1>3
    <2>2. Two(b) <= Two(a - 1) /\ Two(b) \in Nat /\ Two(a - 1) \in Nat
      BY <1>2, <2>1, TwoFacts
    <2> QED BY <1>2, <2>1, <2>2
  <1>4. a <= b
    BY <1>2, <1>3
  <1> QED BY <1>4 DEF a, b

\* The quotient of the minutes, rounded to 24 bits, stays between the integers next to it.
LEMMA QuotientBetween ==
    ASSUME NEW q \in Nat, NEW t \in 0..59, NEW C \in Nat, C >= 60
    PROVE  /\ RoundHalfEven((60 * q + t) * C, 60) \in Nat
           /\ q * C <= RoundHalfEven((60 * q + t) * C, 60)
           /\ RoundHalfEven((60 * q + t) * C, 60) <= (q + 1) * C - 1
  <1> DEFINE n == (60 * q + t) * C
             x == q * C
             y == t * C
             b == (q + 1) * C - 1
  <1>1. x \in Nat /\ y \in Nat /\ n = 60 * x + y /\ b = x + C - 1 /\ b \in Nat
    BY SMT
  <1>2. y <= 59 * C
    BY SMT
  <1> HIDE DEF n, x, y, b
  <1>3. x * 60 <= n /\ n <= b * 60 /\ n \in Nat
    BY <1>1, <1>2, SMT
  <1>4. RoundHalfEven(n, 60) \in x..b
    BY <1>1, <1>3, RoundBetween
  <1>5. RoundHalfEven(n, 60) \in Nat /\ x <= RoundHalfEven(n, 60) /\ RoundHalfEven(n, 60) <= b
    BY <1>1, <1>4
  <1> QED BY <1>5 DEF n, x, b

\* Cut to the places that the sum has, it is q or q + 1.
LEMMA CutBetween ==
    ASSUME NEW q \in Nat, NEW v \in Nat, NEW D \in Nat, NEW E \in Nat, D > 0, E > 0,
           q * (D * E) <= v, v <= (q + 1) * (D * E)
    PROVE  RoundHalfEven(v, D) \div E \in q..q + 1
  <1> DEFINE a == q * E
             b == (q + 1) * E
             u == RoundHalfEven(v, D)
  <1>1. a \in Nat /\ b \in Nat /\ b = a + E /\ a * D <= v /\ v <= b * D
    BY SMT
  <1>2. u \in a..b
    <2> HIDE DEF a, b
    <2> QED BY <1>1, RoundBetween
  <1>3. u \in Nat /\ q * E <= u /\ u <= q * E + E
    BY <1>1, <1>2
  <1> HIDE DEF u
  <1>4. u \div E \in Nat /\ u = E * (u \div E) + (u % E) /\ u % E \in 0..E - 1
    BY <1>3, DivMod
  <1> DEFINE x == u \div E
             y == u % E
  <1>5. x \in Nat /\ u = E * x + y /\ y \in 0..E - 1
    BY <1>4
  <1> HIDE DEF x, y
  <1>6. q <= x /\ x <= q + 1
    BY <1>3, <1>5, SMT
  <1>7. x \in q..q + 1
    BY <1>5, <1>6
  <1> QED BY <1>7 DEF x, u

\* Where the sum has no place for odd numbers, it is the next even number.
LEMMA EvenBetween ==
    ASSUME NEW q \in Nat, NEW v \in Nat, NEW C \in Nat, C > 0, q * C <= v, v <= (q + 1) * C - 1
    PROVE  /\ RoundHalfEven(v, 2 * C) \in Nat
           /\ q - 1 <= 2 * RoundHalfEven(v, 2 * C) /\ 2 * RoundHalfEven(v, 2 * C) <= q + 1
  <1> DEFINE p == q \div 2
             u == RoundHalfEven(v, 2 * C)
  <1>0. 2 * C \in Nat /\ 2 * C > 0 /\ p \in Nat
    BY SMT
  <1>1. CASE q = 2 * p
    <2> DEFINE r == v - p * (2 * C)
    <2>1. r \in Nat /\ v = (2 * C) * p + r /\ 2 * r < 2 * C
      <3> DEFINE x == p * C
      <3>1. x \in Nat /\ q * C = 2 * x /\ (q + 1) * C = 2 * x + C
            /\ p * (2 * C) = 2 * x /\ (2 * C) * p = 2 * x
        <4> HIDE DEF p
        <4> QED BY <1>0, <1>1, SMT
      <3> HIDE DEF x, p
      <3> QED BY <3>1, SMT
    <2>2. u = p
      BY <1>0, <2>1, RoundDown
    <2> QED BY <1>0, <1>1, <2>2
  <1>2. CASE q = 2 * p + 1
    <2>1. p * (2 * C) <= v /\ v <= (p + 1) * (2 * C)
      <3> DEFINE x == p * C
      <3>1. x \in Nat /\ q * C = 2 * x + C /\ (q + 1) * C = 2 * x + 2 * C
            /\ p * (2 * C) = 2 * x /\ (p + 1) * (2 * C) = 2 * x + 2 * C
        <4> HIDE DEF p
        <4> QED BY <1>0, <1>2, SMT
      <3> HIDE DEF x, p
      <3> QED BY <3>1, SMT
    <2>2. u \in p..p + 1
      BY <1>0, <2>1, RoundBetween
    <2> QED BY <1>0, <1>2, <2>2
  <1>3. q = 2 * p \/ q = 2 * p + 1
    BY SMT
  <1> QED BY <1>1, <1>2, <1>3

\* The single precision sum of degrees and minutes is next to the exact one.
LEMMA SumClose ==
    ASSUME NEW d \in Nat, d <= 180, NEW m \in Nat, m < SixtyMinutes
    PROVE  Close(FloatSum(d * 100000, m), d, m)
  <1> DEFINE base == d * 100000
             q == m \div 60
             t == m % 60
             k == 24 - BitLen(q)
             j == 24 - BitLen(base + q)
             C == Two(k)
             v == RoundHalfEven(m * C, 60)
             r == IF j >= 0 THEN RoundHalfEven(v, Two(k - j)) \div Two(j)
                  ELSE 2 * RoundHalfEven(v, Two(k + 1))
  <1>1. m = 60 * q + t /\ t \in 0..59 /\ q \in Nat
    BY DivMod
  <1>2. q < 100000
    <2> HIDE DEF q, t
    <2> QED BY <1>1, SMT DEF SixtyMinutes
  <1>3. base \in Nat /\ base <= 18000000 /\ base + q \in Nat
    BY <1>1, SMT
  <1>4. /\ Two(25) = 33554432 /\ Two(24) = 16777216 /\ Two(17) = 131072 /\ Two(16) = 65536
        /\ Two(7) = 128 /\ Two(0) = 1
    BY SMT DEF Two, Pow2
  <1> HIDE DEF q, t, base
  <1>5. q < Two(25) /\ base + q < Two(25) /\ q <= base + q
    BY <1>1, <1>2, <1>3, <1>4, SMT
  <1>6. /\ BitLen(q) \in 0..25 /\ (BitLen(q) > 0 => q >= Two(BitLen(q) - 1))
        /\ BitLen(base + q) \in 0..25 /\ base + q < Two(BitLen(base + q))
        /\ BitLen(base + q) > 0 => base + q >= Two(BitLen(base + q) - 1)
        /\ BitLen(q) <= BitLen(base + q)
    BY <1>1, <1>3, <1>5, Bits, BitsMonotonic
  <1> DEFINE a == BitLen(q)
             b == BitLen(base + q)
  <1>7. /\ a \in 0..25 /\ (a > 0 => q >= Two(a - 1)) /\ k = 24 - a
        /\ b \in 0..25 /\ base + q < Two(b) /\ (b > 0 => base + q >= Two(b - 1)) /\ j = 24 - b
        /\ a <= b
    BY <1>6
  <1>8. d = 0 => a = b
    BY <1>1 DEF base
  <1> HIDE DEF a, b, k, j
  <1>9. \A i, n \in 0..25 : i <= n => Two(i) <= Two(n) /\ Two(i) \in Nat /\ Two(n) \in Nat
    BY TwoFacts
  <1>10. a <= 17
    <2> SUFFICES ASSUME a > 17 PROVE FALSE
      BY <1>7
    <2>1. 17 \in 0..25 /\ a - 1 \in 0..25 /\ 17 <= a - 1
      BY <1>7
    <2>2. Two(17) <= Two(a - 1) /\ Two(a - 1) \in Nat
      BY <1>9, <2>1
    <2>3. q >= Two(a - 1)
      BY <1>7
    <2> QED BY <1>1, <1>2, <1>4, <2>2, <2>3, SMT
  <1>11. d > 0 => b >= 17
    <2> SUFFICES ASSUME d > 0, b < 17 PROVE FALSE
      BY <1>7
    <2>1. 16 \in 0..25 /\ b <= 16
      BY <1>7
    <2>2. Two(b) <= Two(16) /\ Two(b) \in Nat
      BY <1>7, <1>9, <2>1
    <2>3. base >= 100000
      BY SMT DEF base
    <2>4. base + q < Two(b)
      BY <1>7
    <2> QED BY <1>1, <1>3, <1>4, <2>2, <2>3, <2>4, SMT
  <1>12. d < 167 => b <= 24
    <2> SUFFICES ASSUME d < 167, b > 24 PROVE FALSE
      BY <1>7
    <2>1. b = 25 /\ b - 1 = 24
      BY <1>7
    <2>2. base <= 16600000
      BY SMT DEF base
    <2>3. base + q >= Two(24)
      BY <1>7, <2>1
    <2> QED BY <1>1, <1>2, <1>3, <1>4, <2>2, <2>3, SMT
  <1>13. k \in 7..24 /\ j \in Int /\ -1 <= j /\ j <= k /\ j <= 24
    BY <1>7, <1>10
  <1>14. (d > 0 => j <= 7) /\ (d = 0 => j = k) /\ (d < 167 => j >= 0)
    BY <1>7, <1>8, <1>11, <1>12
  <1>15. C \in Nat /\ C >= 60
    <2>1. 7 \in 0..25 /\ k \in 0..25 /\ 7 <= k
      BY <1>13
    <2>2. Two(7) <= Two(k) /\ Two(k) \in Nat
      BY <1>9, <2>1
    <2> QED BY <1>4, <2>2
  <1> HIDE DEF C
  <1>16. v \in Nat /\ q * C <= v /\ v <= (q + 1) * C - 1
    <2>1. m * C = (60 * q + t) * C
      BY <1>1
    <2> QED BY <1>1, <1>15, <2>1, QuotientBetween
  <1> HIDE DEF v
  <1>17. ASSUME j >= 0
         PROVE  r \in Int /\ q <= r /\ r <= q + 1
    <2> DEFINE D == Two(k - j)
               E == Two(j)
    <2>1. k - j \in 0..24 /\ j \in 0..24 /\ k \in 0..24 /\ (k - j) + j = k
      BY <1>13, <1>17
    <2>2. D \in Nat /\ E \in Nat /\ D > 0 /\ E > 0
      <3>1. k - j \in 0..25 /\ j \in 0..25
        BY <2>1
      <3> QED BY <3>1, TwoFacts
    <2>3. C = D * E
      <3>1. CASE d > 0
        <4>1. j \in 0..7 /\ (k - j) + j <= 24
          BY <1>13, <1>14, <1>17, <3>1
        <4> QED BY <2>1, <4>1, TwoFacts DEF C
      <3>2. CASE d = 0
        <4>1. k - j = 0 /\ j = k
          BY <1>13, <1>14, <3>2
        <4>2. D = 1 /\ E = C
          BY <1>4, <4>1 DEF C
        <4> QED BY <1>15, <4>2
      <3> QED BY <3>1, <3>2
    <2>4. r = RoundHalfEven(v, D) \div E
      BY <1>17
    <2> HIDE DEF D, E
    <2>5. q * (D * E) <= v /\ v <= (q + 1) * (D * E)
      <3>1. q * C <= v /\ v <= (q + 1) * C
        BY <1>1, <1>15, <1>16, SMT
      <3> QED BY <2>3, <3>1
    <2> HIDE DEF r
    <2>6. v \in Nat /\ q \in Nat
      BY <1>1, <1>16
    <2>7. RoundHalfEven(v, D) \div E \in q..q + 1
      BY <2>2, <2>5, <2>6, CutBetween
    <2>8. r \in q..q + 1
      BY <2>4, <2>7
    <2> QED BY <1>1, <2>8 DEF r
  <1>18. ASSUME ~(j >= 0)
         PROVE  r \in Int /\ q - 1 <= r /\ r <= q + 1
    <2>1. k \in 0..24
      BY <1>13
    <2>2. Two(k + 1) = 2 * C
      BY <2>1, TwoFacts DEF C
    <2> DEFINE u == RoundHalfEven(v, 2 * C)
    <2>3. r = 2 * u
      BY <1>18, <2>2
    <2>4. u \in Nat /\ q - 1 <= 2 * u /\ 2 * u <= q + 1
      BY <1>1, <1>15, <1>16, EvenBetween
    <2> HIDE DEF u, r
    <2> QED BY <2>3, <2>4
  <1>19. FloatSum(base, m) = base + r
    BY DEF FloatSum, q, k, j, C, v, a, b
  <1> HIDE DEF r
  <1>20. r \in Int /\ q - 1 <= r /\ r <= q + 1 /\ (d < 167 => q <= r)
    BY <1>1, <1>14, <1>17, <1>18
  <1> DEFINE c == base + r
  <1>21. c - (base + q) = r - q
    BY <1>1, <1>3, <1>20
  <1>22. r - q \in IF d < 167 THEN 0..1 ELSE -1..1
    BY <1>1, <1>20
  <1>23. base + r <= (d + 1) * 100000
    BY <1>1, <1>2, <1>20, SMT DEF base
  <1> QED BY <1>19, <1>21, <1>22, <1>23 DEF Close, base, q

\* The first n digits of tail weigh less than the n-th power of ten, and those that are in
\* front of them among digits count that much each.
Split(digits, tail, h, n) ==
    /\ Value(tail, n) \in Nat /\ Value(tail, n) < NMEA_Pow(n)
    /\ Value(digits, h + n) = NMEA_Pow(n) * Value(digits, h) + Value(tail, n)

\* One digit more.
LEMMA SplitNext ==
    ASSUME NEW digits, NEW tail, NEW h \in 0..3, NEW n \in 0..6, Split(digits, tail, h, n),
           \A j \in 1..h + n + 1 : digits[j] \in 0..9,
           \A j \in 1..n + 1 : tail[j] = digits[h + j]
    PROVE  Split(digits, tail, h, n + 1)
  <1> DEFINE c == digits[h + n + 1]
             t == Value(tail, n)
             v == Value(digits, h + n)
             x == NMEA_Pow(n)
             y == Value(digits, h)
  <1>1. c \in 0..9 /\ tail[n + 1] = c /\ \A j \in 1..n + 1 : tail[j] \in Int
    <2>1. \A j \in 1..n + 1 : h + j \in 1..h + n + 1
      OBVIOUS
    <2>2. n + 1 \in 1..n + 1 /\ h + (n + 1) = h + n + 1
      OBVIOUS
    <2>3. \A j \in 1..n + 1 : tail[j] \in 0..9
      BY <2>1
    <2>4. tail[n + 1] = c /\ c \in 0..9
      BY <2>2, <2>3
    <2> QED BY <2>3, <2>4
  <1>2. Value(tail, n + 1) = 10 * t + c
    BY <1>1, Horner
  <1>3. Value(digits, h + (n + 1)) = 10 * v + c
    <2>1. h + n \in 0..9 /\ (h + n) + 1 = h + (n + 1) /\ \A j \in 1..(h + n) + 1 : digits[j] \in Int
      OBVIOUS
    <2> QED BY <2>1, Horner
  <1>4. x \in Nat /\ NMEA_Pow(n + 1) = 10 * x
    BY PowStep
  <1>5. t \in Nat /\ t < x /\ v = x * y + t
    BY DEF Split
  <1>6. y \in Int
    <2>1. h \in Nat /\ \A j \in 1..h : digits[j] \in Int
      OBVIOUS
    <2> QED BY <2>1, ValueType
  <1> HIDE DEF c, t, v, x, y
  <1>7. 10 * t + c \in Nat /\ 10 * t + c < 10 * x
    BY <1>1, <1>4, <1>5
  <1>8. 10 * v + c = (10 * x) * y + (10 * t + c)
    BY <1>1, <1>4, <1>5, <1>6, SMT
  <1> QED BY <1>2, <1>3, <1>4, <1>7, <1>8 DEF Split, y

\* The degrees and the minutes of a coordinate: the last f + 2 digits, and what is in front.
LEMMA SplitDigits ==
    ASSUME NEW digits, NEW tail, NEW h \in 0..3, NEW f \in 0..5,
           \A j \in 1..h + f + 2 : digits[j] \in 0..9,
           \A j \in 1..f + 2 : tail[j] = digits[h + j]
    PROVE  Value(digits, h) \in Nat /\ Split(digits, tail, h, f + 2)
  <1>1. Value(digits, h) \in Nat
    <2>1. h \in Nat /\ \A j \in 1..h : digits[j] \in 0..9
      OBVIOUS
    <2> QED BY <2>1, ValueType
  <1>2. Split(digits, tail, h, 0)
    <2>1. Value(tail, 0) = 0 /\ NMEA_Pow(0) = 1 /\ h + 0 = h
      BY NoDigit, PowStep
    <2> QED BY <1>1, <2>1 DEF Split
  <1>3. \A n \in 0..6 : n < f + 2 /\ Split(digits, tail, h, n) => Split(digits, tail, h, n + 1)
    <2> SUFFICES ASSUME NEW n \in 0..6, n < f + 2, Split(digits, tail, h, n)
                 PROVE  Split(digits, tail, h, n + 1)
      OBVIOUS
    <2>1. /\ \A j \in 1..h + n + 1 : digits[j] \in 0..9
          /\ \A j \in 1..n + 1 : tail[j] = digits[h + j]
      OBVIOUS
    <2> QED BY <2>1, SplitNext
  <1>4. Split(digits, tail, h, 1) /\ Split(digits, tail, h, 2)
    BY <1>2, <1>3
  <1>5. f >= 1 => Split(digits, tail, h, 3)
    BY <1>3, <1>4
  <1>6. f >= 2 => Split(digits, tail, h, 4)
    BY <1>3, <1>5
  <1>7. f >= 3 => Split(digits, tail, h, 5)
    BY <1>3, <1>6
  <1>8. f >= 4 => Split(digits, tail, h, 6)
    BY <1>3, <1>7
  <1>9. f >= 5 => Split(digits, tail, h, 7)
    BY <1>3, <1>8
  <1> QED BY <1>1, <1>4, <1>5, <1>6, <1>7, <1>8, <1>9

\* NMEA_GNRMC_Analysis stores every latitude and longitude of up to 180 degrees next to the
\* exact value, on the same side of the next degree.
THEOREM CoordinateInvariant == Spec => []CoordinateClose
  <1>1. ASSUME IInv, pc = "done", NEW w \in 2..5, NEW f \in 0..5, Spells(0, w, f),
               Degrees(w, f) <= 180, Minutes(w, f) < SixtyMinutes
        PROVE  Close(coordinate(num), Degrees(w, f), Minutes(w, f))
    <2> DEFINE N == Numeral(0, w, f)
               h == w - 2
               tail == [j \in 1..f + 2 |-> N[h + j]]
               d == Value(N, h)
               t == Value(tail, f + 2)
               v == Value(N, w + f)
               unit == NMEA_Pow(f + 2)
               x == Powers[6 - f]
    <2>1. w \in Lengths
      <3>1. Len(buf) \in Nat /\ pos \in Nat
        BY <1>1, Sentence DEF IInv, TypeOK
      <3>2. pos + 0 + w + 1 <= Len(buf) \/ pos + 0 + w + 1 + f + 1 <= Len(buf)
        BY <1>1 DEF Spells
      <3> QED BY <3>1, <3>2 DEF Lengths
    <2>2. v \in Nat /\ num = [num |-> v, dx |-> f] /\ \A j \in 1..w + f : N[j] \in 0..9
      BY <1>1, <2>1, Done
    <2>3. h \in 0..3 /\ h + f + 2 = w + f /\ h + (f + 2) = w + f
      OBVIOUS
    <2>4. \A j \in 1..f + 2 : tail[j] = N[h + j]
      OBVIOUS
    <2>5. d \in Nat /\ Split(N, tail, h, f + 2)
      <3> HIDE DEF N, h, tail
      <3> QED BY <2>2, <2>3, <2>4, SplitDigits
    <2>6. Degrees(w, f) = d /\ Minutes(w, f) = t * x
      BY Zenon DEF Degrees, Minutes
    <2>7. unit \in Nat /\ unit > 0
      <3>1. f + 2 \in 0..9
        OBVIOUS
      <3> QED BY <3>1, PowStep
    <2>8. x \in Nat /\ NMEA_Pow(5 - f) = x /\ NMEA_Pow(5) = 100000
      <3>1. 5 - f \in 0..9 /\ (5 - f) + 1 = 6 - f
        OBVIOUS
      <3>2. \A n : NMEA_Pow(n) = Powers[n + 1]
        BY DEF NMEA_Pow
      <3>3. NMEA_Pow(5) = 100000
        BY SMT DEF NMEA_Pow, Powers
      <3> QED BY <3>1, <3>2, <3>3, PowStep
    <2> HIDE DEF N, h, tail, unit, x
    <2>9. t \in Nat /\ t < unit /\ v = unit * d + t
      BY <2>3, <2>5 DEF Split, unit
    <2> HIDE DEF d, t, v
    <2>10. v \div unit = d /\ v % unit = t
      <3>1. t \in 0..unit - 1
        BY <2>7, <2>9
      <3> QED BY <2>2, <2>5, <2>7, <2>9, <3>1, DivModUnique
    <2>11. coordinate(num) = FloatSum((v \div unit) * NMEA_Pow(5), (v % unit) * NMEA_Pow(5 - f))
      BY <2>2 DEF coordinate, unit
    <2>12. coordinate(num) = FloatSum(d * 100000, t * x)
      BY <2>8, <2>10, <2>11
    <2>13. t * x \in Nat
      BY <2>8, <2>9
    <2>14. d <= 180 /\ t * x < SixtyMinutes
      BY <1>1, <2>6
    <2>15. Close(FloatSum(d * 100000, t * x), d, t * x)
      <3> DEFINE m == t * x
      <3>1. m \in Nat /\ m < SixtyMinutes
        BY <2>13, <2>14
      <3> HIDE DEF m
      <3>2. Close(FloatSum(d * 100000, m), d, m)
        BY <2>5, <2>14, <3>1, SumClose
      <3> QED BY <3>2 DEF m
    <2> QED BY <2>6, <2>12, <2>15
  <1>2. IInv => CoordinateClose
    BY <1>1, Zenon DEF CoordinateClose
  <1> QED BY <1>2, Invariance, PTL

-----------------------------------------------------------------------------
(* The sums of a number that fits in 32 bits fit as well                    *)

\* The digits read so far, moved up by j places, are no more than j digits further on.
LEMMA Growing ==
    ASSUME NEW digits, NEW i \in Nat, NEW n \in 0..10, i <= n, \A j \in 1..n : digits[j] \in 0..9,
           n - i <= 9
    PROVE  /\ Value(digits, i) \in Nat /\ Value(digits, n) \in Nat
           /\ NMEA_Pow(n - i) * Value(digits, i) <= Value(digits, n)
  <1> DEFINE v == Value(digits, i)
             G(j) == i + j <= n =>
                       /\ NMEA_Pow(j) * v <= Value(digits, i + j) /\ Value(digits, i + j) \in Nat
  <1>1. v \in Nat
    <2>1. \A j \in 1..i : digits[j] \in 0..9
      OBVIOUS
    <2> QED BY <2>1, ValueType
  <1>2. G(0)
    <2>1. i + 0 = i /\ NMEA_Pow(0) = 1
      BY PowStep
    <2> QED BY <1>1, <2>1
  <1>3. ASSUME NEW j \in 0..8, G(j) PROVE G(j + 1)
    <2> SUFFICES ASSUME i + (j + 1) <= n
                 PROVE  /\ NMEA_Pow(j + 1) * v <= Value(digits, i + (j + 1))
                        /\ Value(digits, i + (j + 1)) \in Nat
      OBVIOUS
    <2> DEFINE x == NMEA_Pow(j)
               y == Value(digits, i + j)
               c == digits[i + j + 1]
    <2>1. /\ i + j \in 0..9 /\ i + j + 1 \in 1..n /\ (i + j) + 1 = i + (j + 1)
          /\ \A l \in 1..(i + j) + 1 : digits[l] \in Int
      OBVIOUS
    <2>2. x * v <= y /\ y \in Nat
      BY <1>3, <2>1
    <2>3. Value(digits, i + (j + 1)) = 10 * y + c
      BY <2>1, Horner
    <2>4. c \in 0..9
      BY <2>1
    <2>5. x \in Nat /\ NMEA_Pow(j + 1) = 10 * x
      BY PowStep
    <2> HIDE DEF x, y, c, v
    <2>6. (10 * x) * v <= 10 * y + c /\ 10 * y + c \in Nat
      BY <1>1, <2>2, <2>4, <2>5, SMT
    <2> QED BY <2>3, <2>5, <2>6 DEF v
  <1> HIDE DEF G
  <1>4. G(1) /\ G(2) /\ G(3)
    <2>1. G(0 + 1)
      BY <1>2, <1>3
    <2>2. G(1 + 1)
      BY <1>3, <2>1
    <2>3. G(2 + 1)
      BY <1>3, <2>2
    <2> QED BY <2>1, <2>2, <2>3
  <1>5. G(4) /\ G(5) /\ G(6)
    <2>1. G(3 + 1)
      BY <1>3, <1>4
    <2>2. G(4 + 1)
      BY <1>3, <2>1
    <2>3. G(5 + 1)
      BY <1>3, <2>2
    <2> QED BY <2>1, <2>2, <2>3
  <1>6. G(7) /\ G(8) /\ G(9)
    <2>1. G(6 + 1)
      BY <1>3, <1>5
    <2>2. G(7 + 1)
      BY <1>3, <2>1
    <2>3. G(8 + 1)
      BY <1>3, <2>2
    <2> QED BY <2>1, <2>2, <2>3
  <1>7. n - i \in 0..9 /\ i + (n - i) = n
    OBVIOUS
  <1>8. G(n - i)
    BY <1>2, <1>4, <1>5, <1>6, <1>7
  <1> QED BY <1>1, <1>7, <1>8 DEF G

\* While a number that fits in an int is read, ires and fres are within 32 bits, and so is
\* what they are put together to.
NoWrap ==
    \A s \in 0..1, w, f \in Lengths :
      Spells(s, w, f) /\ Value(Numeral(s, w, Kept(f)), w + Kept(f)) <= MaxInt =>
        /\ pc = "whole" => sum.ires \in 0..MaxInt /\ sum.fres = 0
        /\ pc = "decimals" =>
             /\ sum.ires \in 0..MaxInt /\ sum.fres \in 0..MaxInt
             /\ sum.ires * NMEA_Pow(str.flen) + sum.fres <= MaxInt

\* The rt_uint32_t sums of NMEA_Str2num do not wrap on a well formed number that fits in an
\* int: reading them as integers, as the model does, loses nothing.
THEOREM NoWrapInvariant == Spec => []NoWrap
  <1>1. ASSUME IInv, NEW s \in 0..1, NEW w \in Lengths, NEW f \in Lengths, Spells(s, w, f),
               Value(Numeral(s, w, Kept(f)), w + Kept(f)) <= MaxInt
        PROVE  /\ pc = "whole" => sum.ires \in 0..MaxInt /\ sum.fres = 0
               /\ pc = "decimals" =>
                    /\ sum.ires \in 0..MaxInt /\ sum.fres \in 0..MaxInt
                    /\ sum.ires * NMEA_Pow(str.flen) + sum.fres <= MaxInt
    <2> DEFINE K == Kept(f)
               N == Numeral(s, w, K)
               v == Value(N, w + K)
    <2>1. TypeOK /\ Bounded /\ Number
      BY <1>1 DEF IInv
    <2>2. w \in Nat /\ f \in Nat /\ K \in Nat /\ K <= 5 /\ \A j \in 1..w + K : N[j] \in 0..9
      BY <1>1, <2>1, Characters, Digit
    <2>3. v <= MaxInt /\ MaxInt \in Nat
      BY <1>1, SMT DEF MaxInt
    <2>4. v \in Nat
      <3> HIDE DEF N, K
      <3> QED BY <2>2, ValueType
    <2>5. sum.i \in Nat /\ NMEA_Pow(K) \in Nat /\ NMEA_Pow(K) >= 1
      <3>1. K \in 0..9
        BY <2>2
      <3>2. \A n \in 0..9 : NMEA_Pow(n) \in Nat /\ NMEA_Pow(n) >= 1
        BY PowStep
      <3>3. sum.i \in Nat
        BY <2>1 DEF TypeOK
      <3> HIDE DEF K
      <3> QED BY <3>1, <3>2, <3>3
    <2>6. ASSUME pc = "whole" PROVE sum.ires \in 0..MaxInt /\ sum.fres = 0
      <3>1. SummedWhole(s, w, f) /\ str.ilen = w
        BY <1>1, <2>1, <2>6 DEF Number, Counted
      <3>2. sum.i <= w /\ sum.fres = 0
        BY <2>1, <2>6, <3>1 DEF Bounded
      <3>3. w + K <= 10
        <4>1. str.ilen + Cut(str.flen) <= 10 /\ str.flen = f
          BY <2>1, <2>6, <3>1 DEF Bounded, Counted, MaxDigits, SummedWhole
        <4>2. Cut(f) = K
          BY <2>2 DEF Cut, Kept
        <4> QED BY <3>1, <4>1, <4>2
      <3> HIDE DEF N, K
      <3>4. CASE sum.i = 0
        <4>1. sum.ires = 0
          BY <3>1, <3>4 DEF SummedWhole
        <4> QED BY <2>3, <3>2, <4>1
      <3>5. CASE sum.i # 0
        <4> DEFINE a == Value(N, sum.i)
                   b == Value(N, w)
                   x == NMEA_Pow(w - sum.i)
        <4>1. sum.ires = x * a
          BY <3>1, <3>5 DEF SummedWhole, N, K
        <4>2. w \in 0..10 /\ w - sum.i <= 9 /\ w - sum.i \in 0..9 /\ \A j \in 1..w : N[j] \in 0..9
          BY <2>2, <2>5, <3>2, <3>3, <3>5
        <4>3. a \in Nat /\ b \in Nat /\ x * a <= b
          BY <2>5, <3>2, <4>2, Growing
        <4>4. x \in Nat
          BY <4>2, PowStep
        <4>5. NMEA_Pow(K) * b <= v
          <5>1. w + K \in 0..10 /\ w <= w + K /\ (w + K) - w = K /\ K <= 9
            BY <2>2, <3>3
          <5>2. (w + K) - w <= 9
            BY <2>2, <5>1
          <5> QED BY <2>2, <5>1, <5>2, Growing
        <4> HIDE DEF a, b, v, x
        <4>6. x * a \in Nat /\ x * a <= v
          <5>1. b <= NMEA_Pow(K) * b /\ NMEA_Pow(K) * b \in Nat
            BY <2>5, <4>3, SMT
          <5>2. x * a \in Nat
            BY <4>3, <4>4, SMT
          <5> QED BY <2>4, <4>3, <4>5, <5>1, <5>2
        <4>7. sum.ires \in 0..MaxInt
          BY <2>3, <2>4, <4>1, <4>6
        <4> QED BY <3>2, <4>7
      <3> QED BY <3>4, <3>5
    <2>7. ASSUME pc = "decimals"
          PROVE  /\ sum.ires \in 0..MaxInt /\ sum.fres \in 0..MaxInt
                 /\ sum.ires * NMEA_Pow(str.flen) + sum.fres <= MaxInt
      <3>1. SummedDecimals(s, w, f) /\ str.ilen = w
        BY <1>1, <2>1, <2>7 DEF Number, Counted
      <3>2. str.flen = K /\ sum.ires \in Nat /\ sum.fres \in Nat
        BY <3>1 DEF SummedDecimals
      <3>3. sum.i <= K /\ w + K <= 10
        <4>1. str.ilen + Cut(str.flen) <= 10 /\ sum.i <= str.flen
          BY <2>1, <2>7 DEF Bounded, Counted, MaxDigits
        <4>2. Cut(K) = K
          BY <2>2 DEF Cut
        <4> QED BY <3>1, <3>2, <4>1, <4>2
      <3> DEFINE p == sum.ires * NMEA_Pow(K)
                 x == NMEA_Pow(K - sum.i)
                 a == Value(N, w + sum.i)
      <3>4. p + sum.fres = x * a
        BY <3>1 DEF SummedDecimals
      <3> HIDE DEF N, K
      <3>5. x * a <= v
        <4>1. /\ w + sum.i \in Nat /\ w + K \in 0..10 /\ w + sum.i <= w + K
              /\ (w + K) - (w + sum.i) = K - sum.i /\ K - sum.i <= 9
          BY <2>2, <2>5, <3>3
        <4>2. (w + K) - (w + sum.i) <= 9
          BY <4>1
        <4>3. NMEA_Pow((w + K) - (w + sum.i)) * Value(N, w + sum.i) <= Value(N, w + K)
          BY <2>2, <4>1, <4>2, Growing
        <4> QED BY <4>1, <4>3
      <3>6. p \in Nat /\ sum.ires <= p
        BY <2>5, <3>2, SMT
      <3> HIDE DEF p, x, a, v
      <3>7. p + sum.fres <= v
        BY <3>4, <3>5
      <3>8. p + sum.fres <= MaxInt /\ sum.ires \in 0..MaxInt /\ sum.fres \in 0..MaxInt
        BY <2>3, <2>4, <3>2, <3>6, <3>7
      <3> QED BY <3>2, <3>8 DEF p
    <2> QED BY <2>6, <2>7
  <1>2. IInv => NoWrap
    BY <1>1, Zenon DEF NoWrap
  <1> QED BY <1>2, Invariance, PTL
=============================================================================
