------------------------------- MODULE MCVRF --------------------------------
(* A curve of 8 * 67 points over the integers modulo 509 = 2^9 - 3.  As with
   2^255 - 19, some encodings of y are not below the prime.                *)
EXTENDS VRF

MCBase == <<2, 238>>
MCDigest(sk) == (7919 * sk + 123) % 65536
MCHash(ps) ==
  LET mix(acc, e) == ((acc + e) * 37 + 11) % 1021 IN FoldLeft(mix, 5, ps)
=============================================================================
