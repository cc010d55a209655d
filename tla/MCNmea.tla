------------------------------- MODULE MCNmea -------------------------------
(* Instance of Nmea for TLC: two digits and the four characters that       *)
(* steer the parser; numbers with more decimals than are kept; coordinates *)
(* on both sides of every power of two that a sum in single precision      *)
(* crosses.                                                                *)
EXTENDS Nmea

CONSTANT MaxLen  \* bound: length of a field with arbitrary characters

FieldChars == {COMMA, STAR, MINUS, DOT, ZERO, ZERO + 6}

Decimal(n, width) == [i \in 1..width |-> ZERO + ((n \div 10 ^ (width - i)) % 10)]

DegreeParts == {0, 1, 2, 5, 10, 20, 41, 42, 83, 84, 113, 167, 168, 179}
MinuteParts == {0, 1, 7, 26, 29, 30, 46, 47, 58, 59}
DecimalParts == {0, 1, 2, 29999, 30000, 33333, 40000, 66667, 72000, 79999, 99998, 99999}

Coordinates ==
    {Decimal(d, 3) \o Decimal(m, 2) \o <<DOT>> \o Decimal(f, 5) :
       d \in DegreeParts, m \in MinuteParts, f \in DecimalParts}
    \cup {Decimal(d, 2) \o Decimal(m, 2) \o <<DOT>> \o Decimal(f, 4) :
       d \in {x \in DegreeParts : x < 90}, m \in MinuteParts, f \in {0, 1, 5000, 9999}}

LongDecimals ==
    {sign \o Decimal(w, 2) \o <<DOT>> \o Decimal(f, 6) :
       sign \in {<< >>, <<MINUS>>}, w \in {0, 7, 65}, f \in {1, 535, 123456, 999999}}

ShortFields == UNION {[1..n -> FieldChars] : n \in 0..MaxLen}

\* Other fields follow, and the end of a line.
AllSentences ==
    {f \o <<COMMA, ZERO + 7, ZERO, STAR, 10, 0>> : f \in ShortFields \cup LongDecimals \cup Coordinates}
=============================================================================
