-------------------------------- MODULE Nmea --------------------------------
(***************************************************************************)
(* The field parser of the GPS receiver: finding the cx-th field of a      *)
(* sentence, reading a decimal number from it, and the speed and the       *)
(* coordinates made of such numbers.  Characters are their codes.  Each    *)
(* loop of the parser is an action, one step an iteration, so that what it *)
(* computes can be shown for every sentence by an invariant.               *)
(*                                                                         *)
(* Code: NMEA_Comma_Pos, NMEA_Pow, NMEA_Str2num, NMEA_GNVTG_Analysis and   *)
(* NMEA_GNRMC_Analysis of applications/gps.c.                              *)
(***************************************************************************)
EXTENDS Integers, Sequences, FiniteSets

CONSTANTS
    Sentences,  \* the lines that data_read hands over
    Fields      \* which comma a field is searched behind

COMMA == 44
STAR  == 42
MINUS == 45
DOT   == 46
ZERO  == 48
Digits == 48..57

MaxInt    == 2147483647
MaxDigits == 10  \* bound: a number with more digits than MaxInt is not followed

\* data_read ends a line with a line feed and puts a NUL behind it; an offset in it is
\* an 8-bit number other than 255.
ASSUME SentencesAssumption ==
    \A s \in Sentences :
      /\ s \in Seq(0..255) /\ Len(s) \in 2..255
      /\ s[Len(s)] = 0 /\ s[Len(s) - 1] # DOT
ASSUME FieldsAssumption == Fields \subseteq 0..255

VARIABLES
    buf,   \* the sentence
    pc,    \* which loop the parser is in
    want,  \* the comma that is asked for
    cx,    \* NMEA_Comma_Pos: how many commas are still to be found ...
    pos,   \* ... and the offset reached
    str,   \* NMEA_Str2num: the cursor p as an offset, ilen, flen and the bits of mask
    sum,   \* its second and third loop: i, ires and fres
    num,   \* what it returns: the number and dx
    seen   \* history: the last character it looked at

vars == <<buf, pc, want, cx, pos, str, sum, num, seen>>

Init ==
    /\ buf \in Sentences /\ want \in Fields
    /\ pc = "search" /\ cx = want /\ pos = 0
    /\ str = [at |-> 0, ilen |-> 0, flen |-> 0, minus |-> FALSE, frac |-> FALSE]
    /\ sum = [i |-> 0, ires |-> 0, fres |-> 0]
    /\ num = [num |-> 0, dx |-> 0]
    /\ seen = 0

-----------------------------------------------------------------------------
(* NMEA_Comma_Pos                                                           *)

\* Mutant: '*' does not end the sentence.
EndsIllegal(c) == c < 32 \/ c > 122

\* '*' and the characters outside ' '..'z' end the sentence.
Ends(c) == c = STAR \/ c < 32 \/ c > 122

\* 255 is returned, and the caller leaves the field alone.
CommaNone ==
    /\ pc = "search" /\ cx > 0 /\ Ends(buf[pos + 1])
    /\ pc' = "none"
    /\ UNCHANGED <<buf, want, cx, pos, str, sum, num, seen>>

CommaNext ==
    /\ pc = "search" /\ cx > 0 /\ ~Ends(buf[pos + 1])
    /\ cx' = IF buf[pos + 1] = COMMA THEN cx - 1 ELSE cx
    /\ pos' = pos + 1
    /\ UNCHANGED <<buf, pc, want, str, sum, num, seen>>

\* The offset is returned, and the caller has NMEA_Str2num read what is there.
CommaHere ==
    /\ pc = "search" /\ cx = 0
    /\ pc' = "scan"
    /\ str' = [str EXCEPT !.at = pos]
    /\ UNCHANGED <<buf, want, cx, pos, sum, num, seen>>

-----------------------------------------------------------------------------
(* NMEA_Pow, NMEA_Str2num                                                   *)

Powers == <<1, 10, 100, 1000, 10000, 100000, 1000000, 10000000, 100000000, 1000000000>>

\* It is called for powers of ten only; the tenth one no longer fits in 32 bits.
NMEA_Pow(n) == Powers[n + 1]

\* Mutant: six decimals.
CutSix(flen) == IF flen > 6 THEN 6 ELSE flen

\* At most five decimals are kept.
Cut(flen) == IF flen > 5 THEN 5 ELSE flen

\* The first loop is left with s.
Leave(s) ==
    /\ s.ilen + Cut(s.flen) <= MaxDigits
    /\ pc' = "whole"
    /\ str' = s

\* Mutant: a '-' is stepped over together with what follows it.
ScanBlind ==
    LET c == buf[str.at + 1] IN
    /\ pc = "scan"
    /\ seen' = str.at + 1
    /\ \/ c \in {COMMA, STAR} /\ Leave(str)
       \/ c \notin {COMMA, STAR, MINUS, DOT} \cup Digits /\ Leave([str EXCEPT !.ilen = 0, !.flen = 0])
       \/ /\ c \in {MINUS, DOT} \cup Digits
          /\ pc' = pc
          /\ str' = [str EXCEPT !.at = IF c \in Digits THEN @ + 1 ELSE @ + 2,
                                !.minus = @ \/ c = MINUS, !.frac = @ \/ c = DOT,
                                !.ilen = IF str.frac \/ c = DOT THEN @ ELSE @ + 1,
                                !.flen = IF str.frac \/ c = DOT THEN @ + 1 ELSE @]
    /\ UNCHANGED <<buf, want, cx, pos, sum, num>>

\* The first loop: how many digits are before and after the point.  The character behind
\* a '.' is counted without a look at it.
Scan ==
    LET p     == IF buf[str.at + 1] = MINUS THEN str.at + 2 ELSE str.at + 1
        minus == str.minus \/ buf[str.at + 1] = MINUS
        frac  == str.frac \/ buf[p] = DOT
    IN
    /\ pc = "scan"
    /\ seen' = p
    /\ \/ /\ buf[p] \in {COMMA, STAR}
          /\ Leave([str EXCEPT !.minus = minus])
       \/ /\ buf[p] \notin {COMMA, STAR, DOT} \cup Digits
          /\ Leave([str EXCEPT !.ilen = 0, !.flen = 0, !.minus = minus])
       \/ /\ buf[p] \in {DOT} \cup Digits
          /\ pc' = pc
          /\ str' = [at |-> IF buf[p] = DOT THEN p + 1 ELSE p, minus |-> minus, frac |-> frac,
                     ilen |-> IF frac THEN str.ilen ELSE str.ilen + 1,
                     flen |-> IF frac THEN str.flen + 1 ELSE str.flen]
    /\ UNCHANGED <<buf, want, cx, pos, sum, num>>

\* The sign is skipped.
Start == IF str.minus THEN pos + 1 ELSE pos

Later(k) == IF k > seen THEN k ELSE seen

\* The second loop: the digits before the point.
SumWhole ==
    LET k == Start + sum.i + 1 IN
    /\ pc = "whole" /\ sum.i < str.ilen
    /\ sum' = [sum EXCEPT !.ires = @ + NMEA_Pow(str.ilen - 1 - sum.i) * (buf[k] - ZERO),
                          !.i = @ + 1]
    /\ seen' = Later(k)
    /\ UNCHANGED <<buf, pc, want, cx, pos, str, num>>

WholeDone ==
    /\ pc = "whole" /\ sum.i >= str.ilen
    /\ pc' = "decimals"
    /\ str' = [str EXCEPT !.flen = Cut(@)]
    /\ sum' = [sum EXCEPT !.i = 0]
    /\ UNCHANGED <<buf, want, cx, pos, num, seen>>

\* The third loop: the digits behind the point.
SumDecimals ==
    LET k == Start + str.ilen + 1 + sum.i + 1 IN
    /\ pc = "decimals" /\ sum.i < str.flen
    /\ sum' = [sum EXCEPT !.fres = @ + NMEA_Pow(str.flen - 1 - sum.i) * (buf[k] - ZERO),
                          !.i = @ + 1]
    /\ seen' = Later(k)
    /\ UNCHANGED <<buf, pc, want, cx, pos, str, num>>

\* res is returned, and the number of decimals in *dx.
Str2numReturn ==
    LET res == sum.ires * NMEA_Pow(str.flen) + sum.fres IN
    /\ pc = "decimals" /\ sum.i >= str.flen
    /\ pc' = "done"
    /\ num' = [num |-> IF str.minus THEN -res ELSE res, dx |-> str.flen]
    /\ UNCHANGED <<buf, want, cx, pos, str, sum, seen>>

Next ==
    \/ CommaNone \/ CommaNext \/ CommaHere
    \/ Scan \/ SumWhole \/ WholeDone \/ SumDecimals \/ Str2numReturn

Spec == Init /\ [][Next]_vars

-----------------------------------------------------------------------------
(* What is stored                                                           *)

Uint16 == 65536

\* Mutant: a number with fewer decimals is not scaled.
SpeedUnscaled(n) == n.num % Uint16

\* NMEA_GNVTG_Analysis: thousandths of km/h, 16 bits wide.
speed(n) ==
    LET low == n.num % Uint16
    IN IF n.dx < 3 THEN (low * NMEA_Pow(3 - n.dx)) % Uint16 ELSE low

\* The integer nearest to n / d; halfway cases go to the even one, as in a float.
RoundHalfEven(n, d) ==
    LET q == n \div d
        twice == 2 * (n % d)
    IN IF twice > d \/ (twice = d /\ q % 2 = 1) THEN q + 1 ELSE q

Pow2 == <<1, 2, 4, 8, 16, 32, 64, 128, 256, 512, 1024, 2048, 4096, 8192, 16384, 32768, 65536,
          131072, 262144, 524288, 1048576, 2097152, 4194304, 8388608, 16777216, 33554432>>

\* 2^b
Two(b) == Pow2[b + 1]

\* How many bits the integer part x has; 180 degrees take 25.
BitLen(x) == CHOOSE b \in 0..25 : x < Two(b) /\ (b > 0 => x >= Two(b - 1))

\* degrees * 100000 + minutes / 60 in single precision (24 bits), cut to an integer. The
\* degrees part is a multiple of 32, so only the quotient is rounded: once to 24 bits of
\* its own, and once to the place the 24 bits of the sum leave it.
FloatSum(base, m) ==
    LET k == 24 - BitLen(m \div 60)
        v == RoundHalfEven(m * Two(k), 60)
        j == 24 - BitLen(base + m \div 60)
        r == IF j >= 0 THEN RoundHalfEven(v, Two(k - j)) \div Two(j)
             ELSE 2 * RoundHalfEven(v, Two(k + 1))
    IN base + r

\* Mutant: the minutes count as they are.
CoordinateMinutes(n) ==
    LET unit == NMEA_Pow(n.dx + 2)
    IN (n.num \div unit) * 100000 + ((n.num % unit) * NMEA_Pow(5 - n.dx)) \div 100

\* NMEA_GNRMC_Analysis: latitude or longitude, 100000 to the degree.
coordinate(n) ==
    LET unit == NMEA_Pow(n.dx + 2)
    IN FloatSum((n.num \div unit) * NMEA_Pow(5), (n.num % unit) * NMEA_Pow(5 - n.dx))

-----------------------------------------------------------------------------
(* Reference: what a decimal number is                                      *)

\* The field found is a sign (s = 1) or none, w digits, and, if f > 0, a point and f digits.
Spells(s, w, f) ==
    LET o == pos + s
        end == IF f = 0 THEN o + w + 1 ELSE o + w + 1 + f + 1
    IN /\ end <= Len(buf) /\ buf[end] \in {COMMA, STAR}
       /\ s = 1 => buf[pos + 1] = MINUS
       /\ \A j \in 1..w : buf[o + j] \in Digits
       /\ f > 0 => buf[o + w + 1] = DOT /\ \A j \in 1..f : buf[o + w + 1 + j] \in Digits

\* The digits of the number without its point, of the decimals the first d.
Numeral(s, w, d) ==
    [j \in 1..w + d |-> buf[IF j <= w THEN pos + s + j ELSE pos + s + 1 + j] - ZERO]

\* The k-th of the first n digits from the right.
FromRight(digits, n, k) == IF k < n THEN digits[n - k] ELSE 0

\* The number that the first n digits stand for.
Value(digits, n) ==
    FromRight(digits, n, 0) + 10 * FromRight(digits, n, 1) + 100 * FromRight(digits, n, 2)
    + 1000 * FromRight(digits, n, 3) + 10000 * FromRight(digits, n, 4)
    + 100000 * FromRight(digits, n, 5) + 1000000 * FromRight(digits, n, 6)
    + 10000000 * FromRight(digits, n, 7) + 100000000 * FromRight(digits, n, 8)
    + 1000000000 * FromRight(digits, n, 9)

Kept(f) == IF f < 5 THEN f ELSE 5

Lengths == 0..Len(buf)

-----------------------------------------------------------------------------
\* Every decimal number that fits in 32 bits is read exactly, with its sign, down to the
\* fifth decimal; a field without a digit reads as 0.
NumberRead ==
    pc = "done" =>
      \A s \in 0..1, w, f \in Lengths : Spells(s, w, f) =>
        LET v == Value(Numeral(s, w, Kept(f)), w + Kept(f))
        IN v <= MaxInt => num = [num |-> IF s = 1 THEN -v ELSE v, dx |-> Kept(f)]

\* What is read from a field, well formed or not, does not depend on the fields behind
\* it, unless its last character is a point: nothing behind the first ',' or '*' is looked
\* at. In no case does NMEA_Str2num look past the NUL.
FieldLocal ==
    /\ seen <= Len(buf)
    /\ \A e \in pos + 1..Len(buf) :
         (pc # "search" /\ buf[e] \in {COMMA, STAR} /\ ~(e > pos + 1 /\ buf[e - 1] = DOT)
            /\ \A j \in pos + 1..e - 1 : buf[j] \notin {COMMA, STAR})
           => seen <= e

CommasTo(i) == Cardinality({j \in 1..i : buf[j] = COMMA})
Printable(i) == \A j \in 1..i : buf[j] \in 32..122 /\ buf[j] # STAR

\* NMEA_Comma_Pos finds the end of the comma it is asked for, and answers 255 exactly when
\* the sentence ends before it.
CommaFound ==
    /\ pc \notin {"search", "none"} =>
         /\ pos < Len(buf) /\ Printable(pos) /\ CommasTo(pos) = want
         /\ want > 0 => pos > 0 /\ buf[pos] = COMMA
    /\ pc = "none" =>
         \E i \in 0..Len(buf) - 1 : Printable(i) /\ ~Printable(i + 1) /\ CommasTo(i) < want

Thousandths(w, f) == Value(Numeral(0, w, f), w + f) * Powers[4 - f]

\* "speed ... 0.001 km/h" (gps.h:43): true of every speed up to 65.535 km/h that is
\* given with at most three decimals.
SpeedInThousandths ==
    pc = "done" =>
      \A w \in Lengths, f \in 0..3 :
        Spells(0, w, f) /\ Thousandths(w, f) < Uint16 => speed(num) = Thousandths(w, f)

\* The degrees of a coordinate, and its last two whole digits and decimals: hundred-
\* thousandths of a minute.
Degrees(w, f) == Value(Numeral(0, w, f), w - 2)
Minutes(w, f) ==
    Value([j \in 1..f + 2 |-> Numeral(0, w, f)[w - 2 + j]], f + 2) * Powers[6 - f]

SixtyMinutes == 6000000

Close(c, d, m) ==
    /\ c - (d * 100000 + m \div 60) \in IF d < 167 THEN 0..1 ELSE -1..1
    /\ c <= (d + 1) * 100000

\* Degrees and minutes become hundred-thousandths of a degree without losing more than
\* one of them to the floats in between, two where a float has no odd numbers (beyond
\* 167 degrees), and without ever reaching past the next degree.
CoordinateClose ==
    pc = "done" =>
      \A w \in 2..5, f \in 0..5 :
        Spells(0, w, f) /\ Degrees(w, f) <= 180 /\ Minutes(w, f) < SixtyMinutes =>
          Close(coordinate(num), Degrees(w, f), Minutes(w, f))
=============================================================================
