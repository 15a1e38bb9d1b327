----------------------------- MODULE FoundMask -----------------------------
(***************************************************************************)
(* The found_bitmask by which a downloader answers an offer                *)
(* (src/src/peer.cpp:175-199), and how the uploader reads it (:389-438),   *)
(* in closed form.  An offer has n hashes, at positions 0..(n - 1); held   *)
(* is the set of the positions whose hash the downloader already has.  A   *)
(* mask is the set of the bits set in its first byte, the only one that    *)
(* either side ever uses: 1 << found_bit does not fit the byte once        *)
(* found_bit has reached CHAR_BIT, whatever byte `found' points to.        *)
(*                                                                         *)
(* The downloader advances found_bit only over the hashes it misses, for a *)
(* `continue' skips the increment; the uploader advances it over all.      *)
(***************************************************************************)
EXTENDS Naturals, FiniteSets

CONSTANT CharBit     \* CHAR_BIT, the bits of one byte of found_bitmask

ASSUME CharBitAssumption == CharBit \in Nat \ {0}

Positions(n) == 0..(n - 1)

\* A byte, as the set of its bits that are set.
Byte == SUBSET Positions(CharBit)

\* How many bytes of the mask travel, for an offer of so many hashes.
MaskSize(count) == (count + CharBit - 1) \div CharBit

\* found_bit, when the downloader's loop reaches position i.
MissingBefore(held, i) == Cardinality(Positions(i) \ held)

\* Mutant: the bit is that of the position, as the uploader reads it.
MaskByPosition(held) == {i \in held : i < CharBit}

\* The bits that the downloader sets.
Mask(held) == {b \in {MissingBefore(held, i) : i \in held} : b < CharBit}

\* The bytes that travel, with this first one.
MaskBytes(count, byte) == [k \in 1..MaskSize(count) |-> IF k = 1 THEN byte ELSE {}]

\* Mutant: no hash is taken back from missing_hashes.
ExpectedAll(n, held) == Positions(n)

\* The files that the downloader then expects: its missing_hashes.
Expected(n, held) == Positions(n) \ held

\* Mutant: the uploader compares the bits the other way round.
UploadFound(n, mask) == Positions(n) \cap mask

\* The positions that the uploader then sends: bits that are not set, and all
\* the positions beyond the first byte.
Uploaded(n, mask) == {i \in Positions(n) : ~(i < CharBit /\ i \in mask)}

\* The offers that the two sides understand alike: at most one hash was found,
\* and its position has a bit in the first byte.
Understood(held) ==
  \A i \in held : i < CharBit /\ held = {i}
=============================================================================
