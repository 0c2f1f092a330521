-------------------------------- MODULE VRF ---------------------------------
(***************************************************************************)
(* The verifiable random function of a node (vrf/vrf_ed25519.go, and       *)
(* Evaluate in crypto.go, through which sortition uses it): a node proves, *)
(* with a fresh nonce each time, the value its key gives to a message, and *)
(* a receiver can check the proof.                                         *)
(*                                                                         *)
(* SHA-256 and SHA-512 are parameters, and so are the keys that            *)
(* ed25519.GenerateKey gives.                                              *)
(***************************************************************************)
EXTENDS Curve

CONSTANTS
  q,              \* the order of the base point
  Secrets,        \* the private keys that nodes may have
  Nonces,         \* the private keys that ECVRF_prove may draw
  Messages,       \* seeds and roles
  Digest(_),      \* SHA-512 of a private key, its first 32 bytes
  Hash(_),        \* SHA-256 of a sequence, as an encoded point
  limit,          \* 100
  MaxProofs       \* bound of the proofs made

VARIABLES
  proofs,    \* what Evaluate returned so far
  decoded    \* bytes that were read as a point

vars == <<proofs, decoded>>

-----------------------------------------------------------------------------
GeAdd(p, r) == ToExtended(geAdd(p, ToCached(r)))
GeDouble(p) == ToExtended(Double(p))

(* Bit by bit, from the lowest; the sum is computed and dropped for a zero. *)
GeScalarMult(h, a) ==
  LET step(at, i) == [q |-> IF (a \div 2^i) % 2 = 1 THEN GeAdd(at.q, at.p) ELSE at.q,
                      p |-> GeDouble(at.p)]
  IN  Loop(step, [q |-> ExtendedZero, p |-> h], Ascending(ScalarBits)).q

G == GeScalarMultBase(1)

NOSIGN == 3
OS2ECP(os, sign) == FromBytes(IF sign \in {0, 1} THEN sign * SignBit + (os % SignBit) ELSE os)

(* An octet for the sign, 2 or 3, in front. *)
S2OS(s) == (s \div SignBit + 2) * 2 * SignBit + s
ECP2OS(p) == S2OS(ToBytes(p))

(* The three low bits are cleared, the top one too, and the next one set. *)
expandSecret(sk) ==
  LET h == Digest(sk) % 2^(ScalarBits - 2) IN (h - (h % 8)) + 2^(ScalarBits - 2)

(* Public keys are made by the ed25519 library, from the same digest. *)
PublicKey(sk) == ToBytes(GeScalarMultBase(expandSecret(sk)))

(* The first N bytes: half of a scalar. *)
ECVRF_hash_points(ps) == Hash(ps) % 2^(ScalarBits \div 2)

(* Mutant: the cofactor is not cleared. *)
MutECVRF_hash_to_curve(m, pk) ==
  LET tries == {i \in 0 .. limit - 1 : OS2ECP(Hash(<<m, pk, i>>), NOSIGN) # nil}
      first == CHOOSE i \in tries : \A j \in tries : i <= j
  IN  OS2ECP(Hash(<<m, pk, first>>), NOSIGN)

(* The first counter whose hash is a point, and eight times that point; the
   code panics if there is none.                                           *)
ECVRF_hash_to_curve(m, pk) ==
  LET tries == {i \in 0 .. limit - 1 : OS2ECP(Hash(<<m, pk, i>>), NOSIGN) # nil}
      first == CHOOSE i \in tries : \A j \in tries : i <= j
  IN  GeDouble(GeDouble(GeDouble(OS2ECP(Hash(<<m, pk, first>>), NOSIGN))))

(* The proof: gamma = h^x with its sign, c, and s = k - c x.  F2IP, IP2F and
   I2OSP keep the numbers and turn the bytes around.                        *)
ECVRF_prove(pk, sk, m, ks) ==
  LET x == expandSecret(sk)
      h == ECVRF_hash_to_curve(m, pk)
      r == ECP2OS(GeScalarMult(h, x))
      k == expandSecret(ks)
      c == ECVRF_hash_points(<<ECP2OS(G), ECP2OS(h), S2OS(pk), r, S2OS(PublicKey(ks)),
                               ECP2OS(GeScalarMult(h, k))>>)
  IN  [sign |-> r \div (2 * SignBit), gamma |-> r % (2 * SignBit), c |-> c, s |-> (k - c * x) % q]

(* The bytes of gamma, without the octet of the sign. *)
ECVRF_proof2hash(pi) == pi.gamma

(* The point gamma, or nil; c and s are in the proof as they are. *)
ECVRF_decode_proof(pi) ==
  IF pi.sign \in {2, 3} THEN OS2ECP(pi.gamma, pi.sign - 2) ELSE nil

ECVRF_verify(pk, pi, m) ==
  LET r == ECVRF_decode_proof(pi)
      X == OS2ECP(pk, pk \div SignBit)
      u == GeDoubleScalarMultVartime(pi.c, X, pi.s)
      h == ECVRF_hash_to_curve(m, pk)
      v == GeAdd(GeScalarMult(r, pi.c), GeScalarMult(h, pi.s))
  IN  /\ r # nil
      /\ X # nil
      /\ ECVRF_hash_points(<<ECP2OS(G), ECP2OS(h), S2OS(pk), ECP2OS(r), ECP2OS(u), ECP2OS(v)>>) = pi.c

-----------------------------------------------------------------------------
Init == proofs = {} /\ decoded = 0

(* sortition: Evaluate and the value of the proof. *)
Evaluate ==
  /\ decoded = 0 /\ Cardinality(proofs) < MaxProofs
  /\ \E sk \in Secrets, m \in Messages, ks \in Nonces :
       LET pi == ECVRF_prove(PublicKey(sk), sk, m, ks)
       IN  proofs' = proofs \cup
             {[sk |-> sk, m |-> m, ks |-> ks, proof |-> pi, value |-> ECVRF_proof2hash(pi)]}
  /\ UNCHANGED decoded

(* Bytes from outside are read as a point.  That and proving share no state: a
   behaviour does one of them.                                             *)
Decode ==
  /\ proofs = {} /\ decoded = 0 /\ \E os \in 0 .. 2 * SignBit - 1 : decoded' = os
  /\ UNCHANGED proofs

Next == Evaluate \/ Decode

Spec == Init /\ [][Next]_vars

-----------------------------------------------------------------------------
(* ECVRF_verify accepts what ECVRF_prove made for this key and message,        *)
(* whatever nonce was drawn: u = k g and v = k h again, by other formulas and  *)
(* other tables than the prover's.                                             *)
HonestVerifies == \A e \in proofs : ECVRF_verify(PublicKey(e.sk), e.proof, e.m)

(* The three scalar multiplications, with the digits of slide and of signed    *)
(* nibbles and the tables they index, are multiples in the group, for the     *)
(* scalars and points of every proof.                                          *)
MultsExact ==
  \A e \in proofs :
    LET x == expandSecret(e.sk)
        k == expandSecret(e.ks)
        h == ECVRF_hash_to_curve(e.m, PublicKey(e.sk))
        A == Affine(h)
    IN  /\ Affine(GeScalarMult(h, x)) = Multiple(x, A)
        /\ Affine(GeScalarMultBase(k)) = Multiple(k, Base)
        /\ Affine(GeDoubleScalarMultVartime(x, h, k))
             = AffineAdd(Multiple(x, A), Multiple(k, Base))

(* FromBytes gives a point of the curve with the y and the sign in the bytes   *)
(* (x = 0 has one sign only), and nil exactly when there is none; reading it   *)
(* and writing it again gives the one encoding with y below P.                 *)
DecodeExact ==
  LET pt == OS2ECP(decoded, NOSIGN)
      y == F(decoded % SignBit)
      onCurve(x) == F(y * y - x * x) = F(1 + F(d * F(x * x)) * F(y * y))
  IN  IF pt = nil THEN \A x \in 0 .. P - 1 : ~onCurve(x)
      ELSE /\ onCurve(pt.X) /\ pt.Y = y /\ pt.T = F(pt.X * y)
           /\ ToBytes(pt) = y + SignBit * (IF pt.X = 0 THEN 0 ELSE decoded \div SignBit)
=============================================================================
