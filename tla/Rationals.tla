----------------------------- MODULE Rationals -----------------------------
(***************************************************************************)
(* Exact numbers, in place of the floats of hinode::math: pairs of a       *)
(* numerator and a positive denominator, reduced.  Rounding is left out.   *)
(* A division by zero gives Undefined, which stands for the NaN and the    *)
(* infinities; whatever is calculated from it is Undefined, and no         *)
(* comparison with it holds, as with NaN.                                  *)
(***************************************************************************)
EXTENDS Integers, Sequences

Undefined == <<0, 0>>

LOCAL Abs(n) == IF n < 0 THEN -n ELSE n
RECURSIVE Gcd(_, _)
Gcd(m, n) == IF n = 0 THEN m ELSE Gcd(n, m % n)

(* n / d                                                                   *)
Q(n, d) ==
    IF d = 0 THEN Undefined
    ELSE LET g == Gcd(Abs(n), Abs(d))
             s == IF d < 0 THEN -1 ELSE 1
         IN  <<(s * n) \div g, (s * d) \div g>>

Zero == <<0, 1>>
One  == <<1, 1>>
Int2Q(n) == <<n, 1>>

Defined(a) == a[2] # 0

(* Common factors go before anything is multiplied: the numbers of TLC     *)
(* have 32 bits.                                                           *)
a \oplus b ==
    IF ~Defined(a) \/ ~Defined(b) THEN Undefined
    ELSE LET g == Gcd(a[2], b[2])
         IN  Q(a[1] * (b[2] \div g) + b[1] * (a[2] \div g), (a[2] \div g) * b[2])

Negated(a) == <<-a[1], a[2]>>

a \ominus b == a \oplus Negated(b)

a \otimes b ==
    IF ~Defined(a) \/ ~Defined(b) THEN Undefined
    ELSE LET x == Q(a[1], b[2])
             y == Q(b[1], a[2])
         IN  <<x[1] * y[1], x[2] * y[2]>>

a \oslash b ==
    IF ~Defined(a) \/ ~Defined(b) \/ b[1] = 0 THEN Undefined
    ELSE a \otimes Q(b[2], b[1])

Less(a, b) == Defined(a) /\ Defined(b) /\ (a \ominus b)[1] < 0
AbsQ(a) == IF a[1] < 0 THEN Negated(a) ELSE a

(* The root of a square of up to MaxRoot over MaxRoot; Undefined for what  *)
(* has no rational root.                                                   *)
MaxRoot == 2000
RECURSIVE RootIn(_, _, _)
RootIn(n, low, high) ==
    IF low >= high THEN low
    ELSE LET middle == (low + high) \div 2
         IN  IF middle * middle < n THEN RootIn(n, middle + 1, high) ELSE RootIn(n, low, middle)
Root(n) == RootIn(n, 0, MaxRoot)
Sqrt(a) ==
    LET r == Root(a[1])
        s == Root(a[2])
    IN  IF a[1] >= 0 /\ a[2] # 0 /\ r * r = a[1] /\ s * s = a[2] THEN <<r, s>> ELSE Undefined
=============================================================================
