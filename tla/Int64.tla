------------------------------- MODULE Int64 -------------------------------
(***************************************************************************)
(* Division of double words for machines without it: klib/src/int64.c,     *)
(* with words of WordBits instead of 32 bits.  A double word is a number   *)
(* below Base^2, a signed one is between -Base^2/2 and Base^2/2 - 1, and   *)
(* << drops what does not fit.  Division by 0 traps.                       *)
(***************************************************************************)
EXTENDS Integers, Powers

CONSTANT WordBits               \* n_uword_bits

ASSUME WordBitsAssumption == WordBits \in Nat \ {0, 1}

VARIABLES dividend, divisor     \* the arguments, as bits

Base == TwoTo[WordBits]
Limit == Base * Base
High(x) == x \div Base
Low(x) == x % Base
Double(h, l) == h * Base + l

\* On one word.
Shl(x, k) == (x * TwoTo[k]) % Base
Shr(x, k) == x \div TwoTo[k]
IsPower2(x) == \E k \in 0 .. WordBits - 1 : x = TwoTo[k]  \* x & (x - 1) is 0, x is not
Ctz(x) == CHOOSE k \in 0 .. WordBits - 1 : x % TwoTo[k] = 0 /\ x % TwoTo[k + 1] # 0
Clz(x) ==
    CHOOSE k \in 0 .. WordBits - 1 : x < TwoTo[WordBits - k] /\ x >= TwoTo[WordBits - k - 1]
\* The difference of two counts as an unsigned.
Unsigned(d) == d % Base

\* Where the code computes n >> sr and n << (2 * WordBits - sr) by words.
ShrBy(n, sr) ==
    IF sr = WordBits THEN Double(0, High(n))
    ELSE IF sr < WordBits
      THEN Double(Shr(High(n), sr), Shl(High(n), WordBits - sr) + Shr(Low(n), sr))
      ELSE Double(0, Shr(High(n), sr - WordBits))
ShlRest(n, sr) ==
    IF sr = WordBits THEN Double(Low(n), 0)
    ELSE IF sr < WordBits THEN Double(Shl(Low(n), WordBits - sr), 0)
    ELSE Double(Shl(High(n), 2 * WordBits - sr) + Shr(Low(n), sr - WordBits),
                Shl(Low(n), 2 * WordBits - sr))

\* One round of the loop: r:q moves to the left, and d is taken off r if it fits.
Round(d, s) ==
    LET r == (2 * s.r + s.q \div (Limit \div 2)) % Limit
        q == (2 * s.q + s.carry) % Limit
        fits == (d - r - 1) % Limit >= Limit \div 2
    IN  [r |-> IF fits THEN r - d ELSE r, q |-> q, carry |-> IF fits THEN 1 ELSE 0]

\* r, q and carry after i rounds.
Loop(n, d, sr) ==
    LET after[i \in Nat] ==
            IF i = 0 THEN [r |-> ShrBy(n, sr), q |-> ShlRest(n, sr), carry |-> 0]
            ELSE Round(d, after[i - 1])
    IN  after

Rounds(n, d, sr, count) ==
    LET last == Loop(n, d, sr)[count]
    IN  [quot |-> (2 * last.q + last.carry) % Limit, rem |-> last.r]

\* Faulty variant: a round too few.
ShiftSubtractShort(n, d, sr) == Rounds(n, d, sr, sr - 1)

\* sr rounds, with q and r set as if those before had been done.
ShiftSubtract(n, d, sr) == Rounds(n, d, sr, sr)

Answer(q, r) == [quot |-> q, rem |-> r]

\* __udivmoddi4, for d # 0.
Udivmod(n, d) ==
    CASE High(n) = 0 /\ High(d) = 0 -> Answer(Low(n) \div Low(d), Low(n) % Low(d))
      [] High(n) = 0 /\ High(d) # 0 -> Answer(0, Low(n))
      [] High(n) # 0 /\ Low(d) = 0 /\ Low(n) = 0 ->
            Answer(High(n) \div High(d), Double(High(n) % High(d), 0))
      [] High(n) # 0 /\ Low(d) = 0 /\ Low(n) # 0 /\ IsPower2(High(d)) ->
            Answer(Shr(High(n), Ctz(High(d))), Double(High(n) % High(d), Low(n)))
      [] High(n) # 0 /\ Low(d) = 0 /\ Low(n) # 0 /\ ~IsPower2(High(d)) ->
            LET sr == Unsigned(Clz(High(d)) - Clz(High(n)))
            IN  IF sr > WordBits - 2 THEN Answer(0, n) ELSE ShiftSubtract(n, d, sr + 1)
      [] High(n) # 0 /\ High(d) = 0 /\ IsPower2(Low(d)) ->
            IF Low(d) = 1 THEN Answer(n, 0)
            ELSE Answer(ShrBy(n, Ctz(Low(d))), Low(n) % Low(d))
      [] High(n) # 0 /\ High(d) = 0 /\ Low(d) # 0 /\ ~IsPower2(Low(d)) ->
            ShiftSubtract(n, d, 1 + WordBits + Clz(Low(d)) - Clz(High(n)))
      [] High(n) # 0 /\ High(d) # 0 /\ Low(d) # 0 ->
            LET sr == Unsigned(Clz(High(d)) - Clz(High(n)))
            IN  IF sr > WordBits - 1 THEN Answer(0, n) ELSE ShiftSubtract(n, d, sr + 1)

\* The bits of a signed number, and the number that bits stand for.
Bits(a) == a % Limit
Signed(x) == IF x >= Limit \div 2 THEN x - Base * Base ELSE x
\* (a ^ s) - s, for s the sign of b.
Negated(a, b) == IF b < 0 THEN Bits(-a) ELSE Bits(a)

Divdi3(a, b) ==
    LET q == Udivmod(Negated(a, a), Negated(b, b)).quot
    IN  Signed(IF (a < 0) # (b < 0) THEN Bits(-q) ELSE q)

Moddi3(a, b) == Signed(Negated(Udivmod(Negated(a, a), Negated(b, b)).rem, a))

Divmoddi4(a, b) ==
    LET q == Divdi3(a, b) IN Answer(q, Signed(Bits(a - q * b)))
------------------------------------------------------------------------------
\* A call is made for any two arguments.
Int64Init == dividend \in 0 .. Limit - 1 /\ divisor \in 0 .. Limit - 1

\* The unsigned quotient and remainder are the mathematical ones: the special cases
\* leave none out, nothing is shifted by a whole word, and no round is missing.
UnsignedExact ==
    divisor # 0 =>
        Udivmod(dividend, divisor) = Answer(dividend \div divisor, dividend % divisor)

\* C's division, which rounds to 0: except for the one quotient that does not fit, the
\* remainder is smaller than the divisor and has the sign of the dividend, and the
\* three functions agree.
SignedExact ==
    divisor # 0 =>
        LET a == Signed(dividend)
            b == Signed(divisor)
            q == Divdi3(a, b)
            r == Moddi3(a, b)
            Abs(x) == IF x < 0 THEN -x ELSE x
        IN  /\ Divmoddi4(a, b) = Answer(q, r)
            /\ Abs(r) < Abs(b) /\ r * a >= 0
            /\ IF a = -(Limit \div 2) /\ b = -1 THEN q = a ELSE q * b + r = a

\* All six functions of int64.c divide as C has it.
DivisionExact == UnsignedExact /\ SignedExact
=============================================================================
