---------------------------- MODULE ContentIndex ----------------------------
(***************************************************************************)
(* Near-duplicate detection: SimHash fingerprints (dedup/simhash.py) and    *)
(* the banded index both variants of is_duplicate search                    *)
(* (dedup/dedup_service.py).                                                *)
(*                                                                          *)
(* A fingerprint is the set of its 1 bits.  A text is the set of its words, *)
(* each with a number that tells its occurrences apart; a word stands for   *)
(* its hash, itself a set of bits.  The buckets of the index hold each      *)
(* registered fingerprint once per band, and so the index is the set of     *)
(* them.                                                                    *)
(***************************************************************************)
EXTENDS Naturals, FiniteSets

CONSTANTS
    Width,      \* bits of a fingerprint
    BandCount,  \* simhash_lsh_bands
    Threshold   \* simhash_hamming_threshold

ASSUME IndexAssumption ==
    Width \in Nat /\ BandCount \in Nat \ {0} /\ BandCount <= Width /\ Threshold \in Nat

Bits == 0..(Width - 1)
Bands == 0..(BandCount - 1)
Fingerprints == SUBSET Bits

\* Bit i is set when more words have it set than not; a text without words gives 0.
simhash_text(text) ==
    {i \in Bits : Cardinality({word \in text : i \notin word[1]})
                    < Cardinality({word \in text : i \in word[1]})}

\* a ^ b.
Difference(a, b) == (a \ b) \cup (b \ a)
hamming_distance(a, b) == Cardinality(Difference(a, b))

BandOf(i) == i \div (Width \div BandCount)

\* One of the chunks of equal size a fingerprint is split into; bits left over at the
\* top are in none.
band_value(f, band) == {i \in f : BandOf(i) = band}

\* The fingerprints that share a bucket with f.
Candidates(index, f) ==
    {other \in index : \E band \in Bands : band_value(other, band) = band_value(f, band)}

is_duplicate(index, f) ==
    \E other \in Candidates(index, f) : hamming_distance(f, other) <= Threshold
=============================================================================
