------------------------------ MODULE MCLimbs -------------------------------
(***************************************************************************)
(* A shape of limbs for TLC, whose integers have 32 bits: two limbs of 13  *)
(* and 12 bits.  It has the room that the bounds on limbs are about (19    *)
(* times a carry has to be small against a limb), and its products fill    *)
(* TLC's integers as those of the code fill an int64.                      *)
(***************************************************************************)
EXTENDS Limbs

(* Two of the numbers add up to p. *)
MCFieldInputs == {0, 1, 2^24 - 10, 2^24 - 9, 2^25 - 19, 2^25 - 2^12, 2^25 - 1, 23456789}

(* 2^24 is 27 - 11 * 64 modulo l. *)
MCMu == <<27, -11>>
order == 2^24 + 677

bytesOf(v) == [j \in 0 .. 4 |-> (v \div 2^(5 * j)) % 32]
MCScalarInputs == {bytesOf(v) : v \in {0, 1, 2^24, order - 1, order, 2^25 - 1, 23456789}}

(* Primes whose product exceeds 2^255. *)
MCChainModuli ==
  {32749, 32719, 32717, 32713, 32707, 32693, 32687, 32653, 32647, 32633, 32621,
   32611, 32609, 32603, 32587, 32579, 32573, 32569}
=============================================================================
