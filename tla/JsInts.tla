------------------------------- MODULE JsInts -------------------------------
(***************************************************************************)
(* The integers JavaScript's bitwise operators compute with, at a width    *)
(* the model checker can enumerate.  A "half" is the 32-bit word of the    *)
(* code: Half stands for 2^32 and Safe for 2^53, the first integer a       *)
(* double no longer tells from its neighbours.  A shift takes the power of *)
(* two it shifts by (<< n is Shl(x, 2^n)).                                 *)
(***************************************************************************)
EXTENDS Integers

CONSTANTS Half,     \* 2^32 in the code
          Safe      \* 2^53 in the code: Number.MAX_SAFE_INTEGER + 1

ASSUME HalfAssumption == Half \in Nat /\ Half >= 4 /\ Half % 2 = 0
ASSUME SafeAssumption ==
    Safe \in Nat /\ Safe % Half = 0 /\ Safe > 2 * Half /\ Safe < Half * (Half \div 2)

HalfWord == 0 .. Half - 1

(* x >>> 0 and x | 0 *)
U32(x) == x % Half
I32(x) == IF U32(x) >= Half \div 2 THEN U32(x) - Half ELSE U32(x)

(* ~x, x << n, x >> n, x >>> n, and x ^ mask for a mask of all bits or none *)
Not(x) == -I32(x) - 1
Shl(x, p) == I32(U32(x) * p)
Shr(x, p) == I32(x) \div p
UShr(x, p) == U32(x) \div p
XorMask(x, mask) == IF mask = 0 THEN I32(x) ELSE Not(x)

(* What is left of a quotient once it is made an integer: rounds to zero. *)
Trunc(a, b) == IF a < 0 THEN -((-a) \div b) ELSE a \div b

IsSafeInteger(n) == -Safe < n /\ n < Safe
=============================================================================
