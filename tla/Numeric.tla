------------------------------- MODULE Numeric ------------------------------
(***************************************************************************)
(* utils/numeric.h: rounding of unsigned integers of Width bits to powers  *)
(* of two, as the sizes of pools and queues are rounded.                   *)
(***************************************************************************)
EXTENDS Integers, Bitwise

CONSTANT Width   \* std::numeric_limits<T_p>::digits

ASSUME WidthAssumption == Width \in Nat \ {0}

Values == 0 .. 2^Width - 1

\* A result brought back to Width bits; a shift by Width bits, undefined in
\* C++, leaves 0 or (on x86, where the count is taken modulo the width) 1.
Wrap(n) == n % 2^Width
Shl(n) == IF n = Width THEN {0, 1} ELSE {2^n}

\* count_leading_zero, of v > 0 (the builtins are undefined for 0).
count_leading_zero(v) == CHOOSE n \in 0 .. Width - 1 :
                           v < 2^(Width - n) /\ v >= 2^(Width - n - 1)

is_power_of_two(v) == (v & Wrap(v - 1)) = 0

\* Mutant: the bit is one place too high.
floor_one_too_high(v) ==
  IF is_power_of_two(v) THEN {v} ELSE Shl(Width - count_leading_zero(v))

\* The values the roundings may return, one unless the shift is undefined.
floor_to_power_of_two(v) ==
  IF is_power_of_two(v) THEN {v} ELSE Shl(Width - count_leading_zero(v) - 1)

\* Mutant: rounded up to a multiple of two only.
ceil_to_even(v) == {v + (v % 2)}

ceil_to_power_of_two(v) ==
  IF is_power_of_two(v) THEN {v} ELSE Shl(Width - count_leading_zero(v))

\* The reference: the powers of two themselves.
Powers == {2^n : n \in 0 .. Width - 1}
=============================================================================
