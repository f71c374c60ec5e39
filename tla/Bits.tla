-------------------------------- MODULE Bits --------------------------------
(***************************************************************************)
(* The operators &, | and ^ of Rust on unsigned integers, bit by bit.      *)
(***************************************************************************)
EXTENDS Naturals

\* The number whose bits are F of the bits of x and y; F(0, 0) is 0
OnBits(F(_, _), x, y) ==
  LET f[a \in Nat, b \in Nat] ==
        IF a = 0 /\ b = 0 THEN 0 ELSE F(a % 2, b % 2) + 2 * f[a \div 2, b \div 2]
  IN  f[x, y]

BitAnd(x, y) == OnBits(LAMBDA a, b : a * b, x, y)
BitOr(x, y) == OnBits(LAMBDA a, b : a + b - a * b, x, y)
BitXor(x, y) == OnBits(LAMBDA a, b : (a + b) % 2, x, y)

=============================================================================
