------------------------------- MODULE Bloom --------------------------------
(***************************************************************************)
(* The Bloom filter in front of the records (src/bloom.rs): its size, its  *)
(* bits, and what the snapshot keeps of it.                                *)
(*                                                                         *)
(* The words are modelled by the set of bits that are 1.  mix, which makes *)
(* two words of a key, is the constant Mix, an arbitrary function: no      *)
(* property may depend on how well it spreads.  Words have W values, 2^64  *)
(* in the code.                                                            *)
(***************************************************************************)
EXTENDS Naturals

CONSTANTS Hashes,  \* hash160s, in their order
          W, Mix

ASSUME BloomAssumption ==
  /\ Hashes \subseteq Nat /\ W \in Nat \ {0}
  /\ Mix \in [Hashes -> (0..(W - 1)) \X {h \in 0..(W - 1) : h % 2 = 1}]

Within(x, lo, hi) == IF x < lo THEN lo ELSE IF x > hi THEN hi ELSE x

\* ln 2 bits per key, rounded.
OptimalK(bits) == Within((bits * 693147 + 500000) \div 1000000, 4, 24)

\* n keys, in whole words of 64 bits.
BitLen(n, bits) == LET want == IF n * bits < 64 THEN 64 ELSE n * bits
                   IN ((want + 63) \div 64) * 64

NewBloom(n, bits) ==
  LET b == Within(bits, 8, 32)
  IN [ones |-> {}, len |-> BitLen(n, b), k |-> OptimalK(b), per |-> b]

NthBit(h, i, len) == (((h[1] + h[2] * i) % W) * len) \div W

BitsOf(bloom, key) == {NthBit(Mix[key], i, bloom.len) : i \in 0..(bloom.k - 1)}

Insert(bloom, keys) == [bloom EXCEPT !.ones = @ \cup UNION {BitsOf(bloom, k) : k \in keys}]

MaybeContains(bloom, key) == BitsOf(bloom, key) \subseteq bloom.ones

\* What the header and the bytes after it say, and what is made of that.
WriteTo(bloom) == [ones |-> bloom.ones, bytes |-> (bloom.len \div 64) * 8,
                   k |-> bloom.k, per |-> bloom.per]

FromBytes(part) == [ones |-> part.ones, len |-> (part.bytes \div 8) * 64,
                    k |-> IF part.k = 0 THEN 1 ELSE part.k, per |-> part.per]

=============================================================================
