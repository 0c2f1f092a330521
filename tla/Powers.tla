------------------------------- MODULE Powers -------------------------------
(* Powers with natural exponents, factor by factor. *)
EXTENDS Integers

Power(x, n) ==
  LET f[k \in 0 .. n] == IF k = 0 THEN 1 ELSE x * f[k - 1] IN f[n]

pow2(n) == Power(2, n)
=============================================================================
