------------------------------- MODULE NumberFormat ------------------------------
(* How long a number comes out on the screen.                               *)
EXTENDS Integers, Sequences, TLC

Wider(a, b)    == IF a > b THEN a ELSE b
Narrower(a, b) == IF a < b THEN a ELSE b

(* A number of bytes is given as what humanize.Bytes divides it down to,   *)
(* with the number of divisions.                                           *)
Digits(n)      == Len(ToString(n))
BytesLen(b)    == IF b[2] = 0 THEN Digits(b[1]) + 2 ELSE Digits(b[1]) + 6
Unit(n)        == IF n >= 1000000000 THEN 1000000000 ELSE IF n >= 1000000 THEN 1000000 ELSE 1000
Scaled(n)      == Digits((n + Unit(n) \div 20) \div Unit(n)) + 3
RowsLen(n)     == IF n < 0 THEN 1 ELSE IF n < 1000 THEN Digits(n) ELSE Scaled(n)
CountLen(n)    == IF n \in 10000..999999 THEN Digits((n + 500) \div 1000) + 1 ELSE RowsLen(n)
PercentLen(p)  == IF p < 0 THEN 1 ELSE Digits(p) + 3
ToastLen(b)    == IF b[2] = 0 \/ b = <<8, 1>> THEN 1 ELSE BytesLen(b)
FpiLen(b)      == IF b[1] = 0 THEN 1 ELSE BytesLen(b)
CtidLen(block) == Digits(block) + Len("(,291)")
=============================================================================
