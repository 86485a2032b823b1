---------------------------- MODULE BlockNumbers ----------------------------
(***************************************************************************)
(* Arithmetic on TFTP block numbers.  A block number is a uint16_t that    *)
(* wraps; every operator below is the C expression with its conversion     *)
(* back to uint16_t, for a modulus BlockMod instead of 65536.              *)
(***************************************************************************)
EXTENDS Integers

CONSTANT BlockMod   \* number of block numbers (65536 in the code)

ASSUME BlockModAssumption == BlockMod \in Nat /\ BlockMod > 2

Block == 0 .. BlockMod - 1

\* (uint16_t) (a + k) and (uint16_t) (a - k), for a block number a and k < BlockMod
Plus(a, k) == IF a + k < BlockMod THEN a + k ELSE a + k - BlockMod
Minus(a, k) == IF a >= k THEN a - k ELSE a - k + BlockMod

Succ(a) == Plus(a, 1)
Pred(a) == Minus(a, 1)

\* How many increments lead from a to b: (uint16_t) (b - a).
Dist(a, b) == Minus(b, a)

\* Is n one of the numbers begin, begin + 1, ..., end?  When end is begin - 1 the
\* interval was meant to be empty and the test accepts every number.
is_in_range(n, begin, end) ==
  IF begin <= end THEN begin <= n /\ n <= end
                  ELSE begin <= n \/ n <= end
=============================================================================
