----------------------------- MODULE OfferProof -----------------------------
(***************************************************************************)
(* The two loops over an offer compute the closed forms of FoundMask, for  *)
(* every size of an offer, every set of found hashes and every width of a  *)
(* byte; so that what FoundMaskProof says of those holds of the loops.     *)
(***************************************************************************)
EXTENDS Offer, FoundMaskProof

\* What is in a sequence.
Elements(s) == {s[k] : k \in DOMAIN s}

\* The bits set for the hashes found among the first k.
BitsBefore(k, S) ==
  {b \in {MissingBefore(S, j) : j \in S \cap Positions(k)} : b < CharBit}

\* The byte that travels has these bits; the others stay empty.
FirstByteIs(bits) ==
  /\ 0 \in DOMAIN found_bitmask
  /\ found_bitmask[0] = bits
  /\ \A k \in DOMAIN found_bitmask \ {0} : found_bitmask[k] = {}

\* While found_bit has a bit in the first byte, `found' points to that byte.
InFirstByte == found_bit < CharBit => found = 0

\* missing_hashes after k lookups, and what is sent after k steps of the walk.
MissingAre(k) ==
  /\ missing_hashes \in Seq(Nat)
  /\ Elements(missing_hashes) = Expected(k, held)
  /\ Len(missing_hashes) = Cardinality(Expected(k, held))

SentAre(k) ==
  /\ sent \in Seq(Nat)
  /\ Elements(sent) = Uploaded(k, Mask(held))
  /\ Len(sent) = Cardinality(Uploaded(k, Mask(held)))

LookupInv ==
  /\ DOMAIN found_bitmask = Positions(MaskSize(OfferMax))
  /\ found_bit = MissingBefore(held, i) /\ InFirstByte
  /\ FirstByteIs(BitsBefore(i, held))
  /\ MissingAre(i)
  /\ sent = <<>>

WalkInv ==
  /\ found_bit = i /\ InFirstByte
  /\ FirstByteIs(Mask(held))
  /\ MissingAre(n)
  /\ SentAre(i)

\* The inductive invariant: how far each loop has come.
LoopInv ==
  /\ n \in 1..OfferMax /\ held \in SUBSET Positions(n)
  /\ at \in {"lookup", "walk", "done"}
  /\ i \in 0..n
  /\ found \in Nat /\ found_bit \in Nat
  /\ at = "lookup" => LookupInv
  /\ at = "walk" => WalkInv
  /\ at = "done" => MissingAre(n) /\ SentAre(n)

-----------------------------------------------------------------------------
(* Steps of the loops. *)

\* One position more.
LEMMA NextPosition ==
  ASSUME NEW k \in Nat
  PROVE  /\ Positions(k + 1) = Positions(k) \cup {k}
         /\ k \notin Positions(k)
BY DEF Positions

\* What Append does to the elements of a sequence.
LEMMA ElementsAppend ==
  ASSUME NEW S, NEW s \in Seq(S), NEW e \in S
  PROVE  /\ Elements(Append(s, e)) = Elements(s) \cup {e}
         /\ Len(Append(s, e)) = Len(s) + 1
         /\ Append(s, e) \in Seq(S)
<1>1. Append(s, e) \in Seq(S) /\ Len(Append(s, e)) = Len(s) + 1
  OBVIOUS
<1>2. DOMAIN Append(s, e) = 1..(Len(s) + 1) /\ DOMAIN s = 1..Len(s)
  OBVIOUS
<1>3. /\ Append(s, e)[Len(s) + 1] = e
      /\ \A k \in 1..Len(s) : Append(s, e)[k] = s[k]
  OBVIOUS
<1>4. Len(s) \in Nat
  OBVIOUS
<1>5. 1..(Len(s) + 1) = (1..Len(s)) \cup {Len(s) + 1}
  BY <1>4
<1>6. Elements(Append(s, e)) \subseteq Elements(s) \cup {e}
  BY <1>2, <1>3, <1>5 DEF Elements
<1>7. Elements(s) \cup {e} \subseteq Elements(Append(s, e))
  BY <1>2, <1>3, <1>5 DEF Elements
<1> QED
  BY <1>1, <1>6, <1>7

\* A position that is held adds nothing to what is missing, another one adds
\* itself.
LEMMA ExpectedStep ==
  ASSUME NEW k \in Nat, NEW S
  PROVE  /\ IsFiniteSet(Expected(k, S)) /\ Cardinality(Expected(k, S)) \in Nat
         /\ k \in S => Expected(k + 1, S) = Expected(k, S)
         /\ k \notin S =>
              /\ Expected(k + 1, S) = Expected(k, S) \cup {k}
              /\ Cardinality(Expected(k + 1, S)) = Cardinality(Expected(k, S)) + 1
<1>1. IsFiniteSet(Positions(k)) /\ Expected(k, S) \in SUBSET Positions(k)
  BY PositionsFinite DEF Expected
<1>2. IsFiniteSet(Expected(k, S)) /\ Cardinality(Expected(k, S)) \in Nat
  BY <1>1, FS_Subset, FS_CardinalityType
<1>3. k \in S => Expected(k + 1, S) = Expected(k, S)
  BY NextPosition DEF Expected
<1>4. ASSUME k \notin S
      PROVE  Expected(k + 1, S) = Expected(k, S) \cup {k}
  BY <1>4, NextPosition DEF Expected
<1>5. k \notin Expected(k, S)
  BY NextPosition DEF Expected
<1>6. Cardinality(Expected(k, S) \cup {k}) = Cardinality(Expected(k, S)) + 1
  BY <1>2, <1>5, FS_AddElement
<1> QED
  BY <1>2, <1>3, <1>4, <1>6

\* The same of what is sent.
LEMMA UploadedStep ==
  ASSUME NEW k \in Nat, NEW mask
  PROVE  /\ k < CharBit /\ k \in mask => Uploaded(k + 1, mask) = Uploaded(k, mask)
         /\ ~(k < CharBit /\ k \in mask) =>
              /\ Uploaded(k + 1, mask) = Uploaded(k, mask) \cup {k}
              /\ Cardinality(Uploaded(k + 1, mask)) = Cardinality(Uploaded(k, mask)) + 1
<1>1. IsFiniteSet(Positions(k)) /\ Uploaded(k, mask) \in SUBSET Positions(k)
  BY PositionsFinite DEF Uploaded
<1>2. IsFiniteSet(Uploaded(k, mask))
  BY <1>1, FS_Subset
<1>3. k < CharBit /\ k \in mask => Uploaded(k + 1, mask) = Uploaded(k, mask)
  BY NextPosition DEF Uploaded
<1>4. ~(k < CharBit /\ k \in mask) => Uploaded(k + 1, mask) = Uploaded(k, mask) \cup {k}
  BY NextPosition DEF Uploaded
<1>5. k \notin Uploaded(k, mask)
  BY NextPosition DEF Uploaded
<1>6. Cardinality(Uploaded(k, mask) \cup {k}) = Cardinality(Uploaded(k, mask)) + 1
  BY <1>2, <1>5, FS_AddElement
<1> QED
  BY <1>3, <1>4, <1>6

\* A loop that advances leaves the first byte no earlier than its bits end.
LEMMA AdvanceStaysInFirstByte ==
  ASSUME found \in Nat, found_bit \in Nat, InFirstByte, AdvanceBit
  PROVE  /\ found' \in Nat /\ found_bit' = found_bit + 1
         /\ InFirstByte'
<1>1. found_bit' = found_bit + 1 /\ found' \in Nat
  BY DEF AdvanceBit
<1>2. ASSUME found_bit + 1 < CharBit
      PROVE  found' = 0
  <2>1. (found_bit + 1) % CharBit = found_bit + 1
    BY <1>2, CharBitAssumption
  <2>2. (found_bit + 1) % CharBit # 0
    BY <2>1
  <2>3. found = 0
    BY <1>2, CharBitAssumption DEF InFirstByte
  <2> QED
    BY <2>2, <2>3 DEF AdvanceBit
<1> QED
  BY <1>1, <1>2 DEF InFirstByte

\* A found hash adds its bit to the mask, if that is in the first byte.
LEMMA BitsStep ==
  ASSUME NEW k \in Nat, NEW S
  PROVE  /\ k \notin S => BitsBefore(k + 1, S) = BitsBefore(k, S)
         /\ k \in S => BitsBefore(k + 1, S) =
              BitsBefore(k, S) \cup {b \in {MissingBefore(S, k)} : b < CharBit}
BY NextPosition DEF BitsBefore

\* At the end of the loop the bits are those of the closed form.
LEMMA AllBits ==
  ASSUME NEW k \in Nat, NEW S \in SUBSET Positions(k)
  PROVE  BitsBefore(k, S) = Mask(S)
<1>1. S \cap Positions(k) = S
  OBVIOUS
<1> QED
  BY <1>1 DEF BitsBefore, Mask

\* An offer calls for at least one byte of the mask.
LEMMA FirstByteTravels ==
  ASSUME NEW count \in Nat \ {0}
  PROVE  0 \in Positions(MaskSize(count))
<1> DEFINE bits == count + CharBit - 1
           size == bits \div CharBit
<1>1. CharBit \in Nat /\ CharBit > 0 /\ bits \in Nat /\ bits >= CharBit
  BY CharBitAssumption
<1>2. MaskSize(count) = size
  BY DEF MaskSize
<1> HIDE DEF bits
<1>3. size \in Int /\ bits < CharBit * (size + 1)
  BY <1>1
<1> HIDE DEF size
<1>4. size >= 1
  BY <1>1, <1>3
<1> QED
  BY <1>2, <1>3, <1>4 DEF Positions

\* An offer calls for no more bytes than the largest one has.
LEMMA MaskFits ==
  ASSUME NEW count \in 1..OfferMax
  PROVE  Positions(MaskSize(count)) \subseteq Positions(MaskSize(OfferMax))
<1> DEFINE bits(c) == c + CharBit - 1
           size(c) == bits(c) \div CharBit
<1>1. /\ CharBit \in Nat /\ CharBit > 0
      /\ bits(count) \in Nat /\ bits(OfferMax) \in Nat /\ bits(count) <= bits(OfferMax)
  BY CharBitAssumption, OfferMaxAssumption
<1>2. MaskSize(count) = size(count) /\ MaskSize(OfferMax) = size(OfferMax)
  BY DEF MaskSize
<1> HIDE DEF bits
<1>3. /\ size(count) \in Int /\ CharBit * size(count) <= bits(count)
      /\ size(OfferMax) \in Int /\ bits(OfferMax) < CharBit * (size(OfferMax) + 1)
  BY <1>1
<1> HIDE DEF size
<1>4. size(count) <= size(OfferMax)
  BY <1>1, <1>3
<1> QED
  BY <1>2, <1>3, <1>4 DEF Positions

\* The bit of a position is in a byte if it is one of its first CharBit.
LEMMA BitFits ==
  ASSUME NEW bit \in Nat
  PROVE  BitInByte(bit) = {b \in {bit} : b < CharBit}
BY CharBitAssumption DEF BitInByte, Positions

-----------------------------------------------------------------------------
(* The invariant. *)

\* The loops start with nothing looked up, sent or skipped.
LEMMA InitLoop == Init => LoopInv
<1> SUFFICES ASSUME Init PROVE LoopInv
  OBVIOUS
<1>1. n \in 1..OfferMax /\ held \in SUBSET Positions(n) /\ at = "lookup" /\ i = 0
      /\ found = 0 /\ found_bit = 0 /\ missing_hashes = <<>> /\ sent = <<>>
  BY DEF Init
<1>2. Positions(0) = {} /\ Cardinality({}) = 0
  BY FS_EmptySet DEF Positions
<1>3. MissingBefore(held, 0) = 0
  <2>1. Positions(0) \ held = {}
    BY <1>2
  <2> QED
    BY <1>2, <2>1 DEF MissingBefore
<1>4. BitsBefore(0, held) = {} /\ Expected(0, held) = {}
  BY <1>2 DEF BitsBefore, Expected
<1>5. FirstByteIs({})
  <2>1. 0 \in Positions(MaskSize(OfferMax))
    BY OfferMaxAssumption, FirstByteTravels
  <2> QED
    BY <2>1 DEF Init, FirstByteIs
<1>6. MissingAre(0)
  <2>1. missing_hashes \in Seq(Nat) /\ Elements(missing_hashes) = {} /\ Len(missing_hashes) = 0
    BY <1>1 DEF Elements
  <2> QED
    BY <1>2, <1>4, <2>1 DEF MissingAre
<1>7. LookupInv
  BY <1>1, <1>3, <1>4, <1>5, <1>6 DEF LookupInv, InFirstByte, Init
<1>8. i \in 0..n
  BY <1>1
<1> QED
  BY <1>1, <1>7, <1>8 DEF LoopInv

\* One lookup, of a hash that is found: its bit joins the first byte, if it is
\* one of that byte, and changes nothing in the byte `found' points to if not.
LEMMA LookupFoundKeeps ==
  ASSUME LoopInv, LookupFound
  PROVE  LoopInv'
<1>1. /\ at = "lookup" /\ i \in Nat /\ i < n /\ i \in held /\ n \in Nat
      /\ UNCHANGED <<n, held, at, found, found_bit, missing_hashes, sent>>
      /\ i' = i + 1
      /\ found_bitmask' = [found_bitmask EXCEPT ![found] = @ \cup BitInByte(found_bit)]
  BY DEF LoopInv, LookupFound
<1>2. LookupInv /\ found_bit \in Nat /\ found \in Nat
  BY <1>1 DEF LoopInv
<1>3. MissingBefore(held, i + 1) = MissingBefore(held, i)
  <2>1. Positions(i + 1) \ held = Positions(i) \ held
    BY <1>1, NextPosition
  <2> QED
    BY <2>1 DEF MissingBefore
<1>4. Expected(i + 1, held) = Expected(i, held)
  BY <1>1, ExpectedStep
<1>5. BitsBefore(i + 1, held) = BitsBefore(i, held) \cup BitInByte(found_bit)
  BY <1>1, <1>2, BitsStep, BitFits DEF LookupInv
<1>6. FirstByteIs(BitsBefore(i, held))'
  <2>1. DOMAIN found_bitmask' = DOMAIN found_bitmask
    BY <1>1
  <2>2. CASE found_bit < CharBit
    <3>1. found = 0
      BY <1>2, <2>2 DEF LookupInv, InFirstByte
    <3>2. 0 \in DOMAIN found_bitmask /\ found_bitmask[0] = BitsBefore(i, held)
      BY <1>2 DEF LookupInv, FirstByteIs
    <3>3. found_bitmask'[0] = BitsBefore(i + 1, held)
      BY <1>1, <1>5, <3>1, <3>2
    <3>4. \A k \in DOMAIN found_bitmask \ {0} : found_bitmask'[k] = {}
      BY <1>1, <1>2, <3>1 DEF LookupInv, FirstByteIs
    <3> QED
      BY <1>1, <2>1, <3>2, <3>3, <3>4 DEF FirstByteIs, BitsBefore, MissingBefore, Positions
  <2>3. CASE ~(found_bit < CharBit)
    <3>1. BitInByte(found_bit) = {}
      BY <1>2, <2>3, BitFits
    <3>2. \A k \in DOMAIN found_bitmask : found_bitmask'[k] = found_bitmask[k]
      BY <1>1, <3>1
    <3>3. BitsBefore(i + 1, held) = BitsBefore(i, held)
      BY <1>5, <3>1
    <3>4. /\ 0 \in DOMAIN found_bitmask /\ found_bitmask[0] = BitsBefore(i, held)
          /\ \A k \in DOMAIN found_bitmask \ {0} : found_bitmask[k] = {}
      BY <1>2 DEF LookupInv, FirstByteIs
    <3>5. found_bitmask'[0] = BitsBefore(i + 1, held)
      BY <3>2, <3>3, <3>4
    <3>6. \A k \in DOMAIN found_bitmask \ {0} : found_bitmask'[k] = {}
      BY <3>2, <3>4
    <3> QED
      BY <1>1, <2>1, <3>4, <3>5, <3>6 DEF FirstByteIs, BitsBefore, MissingBefore, Positions
  <2> QED
    BY <2>2, <2>3
<1>7. MissingAre(i)'
  BY <1>1, <1>2, <1>4 DEF LookupInv, MissingAre, Elements, Expected, Positions
<1>8. LookupInv'
  BY <1>1, <1>2, <1>3, <1>6, <1>7
  DEF LookupInv, InFirstByte, MaskSize, FirstByteIs, BitsBefore, MissingBefore, MissingAre,
      Elements, Expected, Positions
<1>9. (i + 1) \in 0..n
  BY <1>1
<1> QED
  BY <1>1, <1>2, <1>8, <1>9 DEF LoopInv, Positions

\* One lookup, of a hash that is missing: it stays in missing_hashes.
LEMMA LookupMissingKeeps ==
  ASSUME LoopInv, LookupMissing
  PROVE  LoopInv'
<1>1. /\ at = "lookup" /\ i \in Nat /\ i < n /\ i \notin held /\ n \in Nat
      /\ UNCHANGED <<n, held, at, found_bitmask, sent>>
      /\ i' = i + 1
      /\ missing_hashes' = Append(missing_hashes, i)
      /\ AdvanceBit
  BY DEF LoopInv, LookupMissing
<1>2. LookupInv /\ found_bit \in Nat /\ found \in Nat
  BY <1>1 DEF LoopInv
<1>3. found' \in Nat /\ found_bit' = found_bit + 1 /\ InFirstByte'
  BY <1>1, <1>2, AdvanceStaysInFirstByte DEF LookupInv
<1>4. MissingBefore(held, i + 1) = MissingBefore(held, i) + 1
  BY <1>1, ExpectedStep DEF MissingBefore, Expected
<1>5. BitsBefore(i + 1, held) = BitsBefore(i, held)
  BY <1>1, BitsStep
<1>6. MissingAre(i)'
  <2>1. missing_hashes \in Seq(Nat) /\ Elements(missing_hashes) = Expected(i, held)
        /\ Len(missing_hashes) = Cardinality(Expected(i, held))
    BY <1>2 DEF LookupInv, MissingAre
  <2>2. /\ Elements(Append(missing_hashes, i)) = Elements(missing_hashes) \cup {i}
        /\ Len(Append(missing_hashes, i)) = Len(missing_hashes) + 1
        /\ Append(missing_hashes, i) \in Seq(Nat)
    BY <1>1, <2>1, ElementsAppend
  <2>3. /\ Expected(i + 1, held) = Expected(i, held) \cup {i}
        /\ Cardinality(Expected(i + 1, held)) = Cardinality(Expected(i, held)) + 1
    BY <1>1, ExpectedStep
  <2>4. /\ missing_hashes' \in Seq(Nat) /\ Elements(missing_hashes') = Expected(i + 1, held)
        /\ Len(missing_hashes') = Cardinality(Expected(i + 1, held))
    BY <1>1, <2>1, <2>2, <2>3
  <2> QED
    BY <1>1, <2>4 DEF MissingAre, Elements, Expected, Positions
<1>7. LookupInv'
  BY <1>1, <1>2, <1>3, <1>4, <1>5, <1>6
  DEF LookupInv, FirstByteIs, BitsBefore, MissingBefore, Positions, MaskSize
<1>8. (i + 1) \in 0..n
  BY <1>1
<1> QED
  BY <1>1, <1>2, <1>3, <1>7, <1>8 DEF LoopInv, Positions

\* Nothing is in an empty sequence.
LEMMA NothingIn ==
  <<>> \in Seq(Nat) /\ Elements(<<>>) = {} /\ Len(<<>>) = Cardinality({})
BY FS_EmptySet DEF Elements

\* The mask is complete, and the uploader's walk begins.
LEMMA ConfirmKeeps ==
  ASSUME LoopInv, Confirm
  PROVE  LoopInv'
<1>1. /\ at = "lookup" /\ i = n /\ n \in 1..OfferMax /\ held \in SUBSET Positions(n)
      /\ UNCHANGED <<n, held, missing_hashes, sent>>
      /\ at' = "walk" /\ i' = 0 /\ found' = 0 /\ found_bit' = 0
      /\ found_bitmask' = [k \in Positions(MaskSize(n)) |-> found_bitmask[k]]
  BY DEF LoopInv, Confirm
<1>2. LookupInv /\ n \in Nat \ {0}
  BY <1>1 DEF LoopInv
<1>3. BitsBefore(n, held) = Mask(held)
  BY <1>1, <1>2, AllBits
<1>4. 0 \in Positions(MaskSize(n))
  BY <1>2, FirstByteTravels
<1>5. Positions(MaskSize(n)) \subseteq DOMAIN found_bitmask
  BY <1>1, <1>2, MaskFits DEF LookupInv
<1>6. FirstByteIs(Mask(held))'
  BY <1>1, <1>2, <1>3, <1>4, <1>5
  DEF LookupInv, FirstByteIs, Mask, MissingBefore, Positions
<1>7. MissingAre(n)'
  BY <1>1, <1>2 DEF LookupInv, MissingAre, Elements, Expected, Positions
<1>8. SentAre(i)'
  <2>1. Uploaded(0, Mask(held)) = {}
    BY DEF Uploaded, Positions
  <2>2. sent' = <<>>
    BY <1>1, <1>2 DEF LookupInv
  <2>3. /\ sent' \in Seq(Nat) /\ Elements(sent') = Uploaded(0, Mask(held))
        /\ Len(sent') = Cardinality(Uploaded(0, Mask(held)))
    BY <2>1, <2>2, NothingIn
  <2> QED
    BY <1>1, <2>3 DEF SentAre, Elements, Uploaded, Mask, MissingBefore, Positions
<1>9. WalkInv'
  BY <1>1, <1>6, <1>7, <1>8 DEF WalkInv, InFirstByte
<1> QED
  BY <1>1, <1>2, <1>9 DEF LoopInv, Positions

\* In the walk, the bit of a position is set if it is one of the mask's.
LEMMA BitTested ==
  ASSUME LoopInv, at = "walk"
  PROVE  IsSet(found_bitmask[found], found_bit) <=> i < CharBit /\ i \in Mask(held)
<1>1. WalkInv /\ i \in Nat
  BY DEF LoopInv
<1>2. CASE i < CharBit
  <2>1. found_bitmask[found] = Mask(held) /\ BitInByte(found_bit) = {i}
    BY <1>1, <1>2, BitFits DEF WalkInv, InFirstByte, FirstByteIs
  <2> QED
    BY <1>2, <2>1 DEF IsSet
<1>3. CASE ~(i < CharBit)
  BY <1>1, <1>3, BitFits DEF WalkInv, IsSet
<1> QED
  BY <1>2, <1>3

\* What the steps of the walk have in common.
LEMMA WalkAdvances ==
  ASSUME LoopInv, at = "walk", i < n, AdvanceBit, i' = i + 1, SentAre(i)',
         UNCHANGED <<n, held, at, found_bitmask, missing_hashes>>
  PROVE  LoopInv'
<1>1. WalkInv /\ n \in Nat /\ i \in Nat /\ found \in Nat /\ found_bit \in Nat
  BY DEF LoopInv
<1>2. found' \in Nat /\ found_bit' = found_bit + 1 /\ InFirstByte'
  BY <1>1, AdvanceStaysInFirstByte DEF WalkInv
<1>3. FirstByteIs(Mask(held))'
  BY <1>1 DEF WalkInv, FirstByteIs, Mask, MissingBefore, Positions
<1>4. MissingAre(n)'
  BY <1>1 DEF WalkInv, MissingAre, Elements, Expected, Positions
<1>5. WalkInv'
  BY <1>1, <1>2, <1>3, <1>4 DEF WalkInv
<1>6. (i + 1) \in 0..n
  BY <1>1
<1> QED
  BY <1>1, <1>2, <1>5, <1>6 DEF LoopInv, Positions

\* The file of a position whose bit is clear is sent.
LEMMA WalkSendKeeps ==
  ASSUME LoopInv, WalkSend
  PROVE  LoopInv'
<1>1. /\ at = "walk" /\ i < n /\ AdvanceBit /\ i' = i + 1
      /\ UNCHANGED <<n, held, at, found_bitmask, missing_hashes>>
      /\ sent' = Append(sent, i)
      /\ ~IsSet(found_bitmask[found], found_bit)
  BY DEF WalkSend
<1>2. ~(i < CharBit /\ i \in Mask(held))
  BY <1>1, BitTested
<1>3. i \in Nat /\ SentAre(i)
  BY <1>1 DEF LoopInv, WalkInv
<1>4. sent \in Seq(Nat) /\ Elements(sent) = Uploaded(i, Mask(held))
      /\ Len(sent) = Cardinality(Uploaded(i, Mask(held)))
  BY <1>3 DEF SentAre
<1>5. /\ Elements(Append(sent, i)) = Elements(sent) \cup {i}
      /\ Len(Append(sent, i)) = Len(sent) + 1
      /\ Append(sent, i) \in Seq(Nat)
  BY <1>3, <1>4, ElementsAppend
<1>6. /\ Uploaded(i + 1, Mask(held)) = Uploaded(i, Mask(held)) \cup {i}
      /\ Cardinality(Uploaded(i + 1, Mask(held))) = Cardinality(Uploaded(i, Mask(held))) + 1
  BY <1>2, <1>3, UploadedStep
<1>7. /\ sent' \in Seq(Nat) /\ Elements(sent') = Uploaded(i + 1, Mask(held))
      /\ Len(sent') = Cardinality(Uploaded(i + 1, Mask(held)))
  BY <1>1, <1>4, <1>5, <1>6
<1>8. SentAre(i)'
  BY <1>1, <1>7 DEF SentAre, Elements, Uploaded, Mask, MissingBefore, Positions
<1> QED
  BY <1>1, <1>8, WalkAdvances

\* The one whose bit is set is not.
LEMMA WalkSkipKeeps ==
  ASSUME LoopInv, WalkSkip
  PROVE  LoopInv'
<1>1. /\ at = "walk" /\ i < n /\ AdvanceBit /\ i' = i + 1
      /\ UNCHANGED <<n, held, at, found_bitmask, missing_hashes, sent>>
      /\ IsSet(found_bitmask[found], found_bit)
  BY DEF WalkSkip
<1>2. i < CharBit /\ i \in Mask(held)
  BY <1>1, BitTested
<1>3. i \in Nat /\ SentAre(i)
  BY <1>1 DEF LoopInv, WalkInv
<1>4. Uploaded(i + 1, Mask(held)) = Uploaded(i, Mask(held))
  BY <1>2, <1>3, UploadedStep
<1>5. /\ sent' \in Seq(Nat) /\ Elements(sent') = Uploaded(i + 1, Mask(held))
      /\ Len(sent') = Cardinality(Uploaded(i + 1, Mask(held)))
  BY <1>1, <1>3, <1>4 DEF SentAre
<1>6. SentAre(i)'
  BY <1>1, <1>5 DEF SentAre, Elements, Uploaded, Mask, MissingBefore, Positions
<1> QED
  BY <1>1, <1>6, WalkAdvances

\* The walk ends with every position considered.
LEMMA WalkEndKeeps ==
  ASSUME LoopInv, WalkEnd
  PROVE  LoopInv'
<1>1. /\ at = "walk" /\ i = n /\ at' = "done"
      /\ UNCHANGED <<n, held, i, found, found_bit, found_bitmask, missing_hashes, sent>>
      /\ WalkInv
  BY DEF WalkEnd, LoopInv
<1>2. MissingAre(n)'
  BY <1>1 DEF WalkInv, MissingAre, Elements, Expected, Positions
<1>3. SentAre(n)'
  BY <1>1 DEF WalkInv, SentAre, Elements, Uploaded, Mask, MissingBefore, Positions
<1> QED
  BY <1>1, <1>2, <1>3 DEF LoopInv, Positions

\* Every step of either loop keeps the loop invariants.
LEMMA NextLoop == LoopInv /\ [Next]_vars => LoopInv'
<1> SUFFICES ASSUME LoopInv, [Next]_vars PROVE LoopInv'
  OBVIOUS
<1>1. CASE UNCHANGED vars
  <2>1. UNCHANGED <<n, held, at, i, found, found_bit, found_bitmask, missing_hashes, sent>>
    BY <1>1 DEF vars
  <2>2. at = "lookup" => LookupInv'
    BY <2>1
    DEF LoopInv, LookupInv, MissingAre, FirstByteIs, InFirstByte, BitsBefore,
        Elements, Expected, MissingBefore, Positions, MaskSize
  <2>3. SentAre(n) => SentAre(n)'
    BY <2>1 DEF SentAre, Elements, Uploaded, Mask, MissingBefore, Positions
  <2>4. SentAre(i) => SentAre(i)'
    BY <2>1 DEF SentAre, Elements, Uploaded, Mask, MissingBefore, Positions
  <2>5. MissingAre(n) => MissingAre(n)'
    BY <2>1 DEF MissingAre, Elements, Expected, Positions
  <2>6. FirstByteIs(Mask(held)) /\ InFirstByte => (FirstByteIs(Mask(held)) /\ InFirstByte)'
    BY <2>1 DEF FirstByteIs, InFirstByte, Mask, MissingBefore, Positions
  <2>7. at = "walk" => WalkInv'
    BY <2>1, <2>4, <2>5, <2>6 DEF LoopInv, WalkInv
  <2> QED
    BY <2>1, <2>2, <2>3, <2>5, <2>7 DEF LoopInv, Positions
<1> QED
  BY <1>1, LookupFoundKeeps, LookupMissingKeeps, ConfirmKeeps, WalkSendKeeps,
     WalkSkipKeeps, WalkEndKeeps DEF Next, Terminated

\* The loop invariants hold throughout.
LEMMA LoopsInvariant == Spec => []LoopInv
BY InitLoop, NextLoop, PTL DEF Spec

-----------------------------------------------------------------------------
(* What the loops do. *)

\* The loops of peer.cpp:176-194 and :395-438 compute the closed forms: which
\* bits travel, which files the downloader waits for, which ones the uploader
\* sends.
THEOREM LoopsComputeMask == Spec => []LoopsAgree
<1>1. LoopInv => LoopsAgree
  BY DEF LoopInv, WalkInv, FirstByteIs, MissingAre, SentAre, Elements, LoopsAgree
<1> QED
  BY <1>1, LoopsInvariant, PTL

\* The uploader sends at least as many files as the downloader waits for
\* (peer.cpp:204).
THEOREM DownloaderServed == Spec => []NeverStarved
<1>1. ASSUME LoopInv PROVE NeverStarved
  <2> SUFFICES ASSUME at = "done" PROVE Len(sent) >= Len(missing_hashes)
    BY DEF NeverStarved
  <2>1. /\ n \in Nat /\ held \in SUBSET Positions(n)
        /\ Len(missing_hashes) = Cardinality(Expected(n, held))
        /\ Len(sent) = Cardinality(Uploaded(n, Mask(held)))
        /\ Len(sent) \in Nat /\ Len(missing_hashes) \in Nat
    BY <1>1 DEF LoopInv, MissingAre, SentAre
  <2>2. Cardinality(Expected(n, held)) <= Cardinality(Uploaded(n, Mask(held)))
    BY <2>1, EnoughUploaded
  <2> QED
    BY <2>1, <2>2
<1> QED
  BY <1>1, LoopsInvariant, PTL
-----------------------------------------------------------------------------
(* Where the loops are in the mask. *)

\* A division by the width of a byte.
LEMMA DivByte ==
  ASSUME NEW a \in Nat
  PROVE  /\ a \div CharBit \in Nat
         /\ CharBit * (a \div CharBit) <= a /\ a < CharBit * (a \div CharBit) + CharBit
         /\ a = CharBit * (a \div CharBit) + (a % CharBit)
         /\ a % CharBit \in 0..(CharBit - 1)
BY CharBitAssumption

\* A bit more is in the same byte, or in the next one.
LEMMA NextBit ==
  ASSUME NEW a \in Nat
  PROVE  /\ a \div CharBit <= (a + 1) \div CharBit
         /\ (a + 1) % CharBit = 0 => (a \div CharBit) + 1 <= (a + 1) \div CharBit
<1> DEFINE C == CharBit
           b == a + 1
<1>1. C \in Nat /\ C > 0 /\ b \in Nat
  BY CharBitAssumption
<1>2. /\ a \div C \in Nat /\ C * (a \div C) <= a
      /\ b \div C \in Nat /\ b < C * (b \div C) + C
      /\ b = C * (b \div C) + (b % C)
  BY <1>1, DivByte
<1>3. PICK x, y : x = a \div C /\ y = b \div C
  OBVIOUS
<1>4. /\ x \in Nat /\ y \in Nat /\ C * x <= a /\ a < C * y + C
      /\ b % C = 0 => b = C * y
  BY <1>1, <1>2, <1>3
<1> HIDE DEF C
<1>5. x <= y
  <2> SUFFICES ASSUME y + 1 <= x PROVE FALSE
    BY <1>4
  <2>1. C * (y + 1) <= C * x
    BY <1>1, <1>4
  <2> QED
    BY <1>1, <1>4, <2>1
<1>6. ASSUME b % C = 0 PROVE x + 1 <= y
  <2> SUFFICES ASSUME y <= x PROVE FALSE
    BY <1>4
  <2>1. C * y <= C * x
    BY <1>1, <1>4
  <2>2. C * y = a + 1
    BY <1>4, <1>6
  <2> QED
    BY <1>1, <1>4, <2>1, <2>2
<1> QED
  BY <1>3, <1>5, <1>6 DEF C

\* A bit before another one is not in a later byte, and the last bit of an offer
\* is in its last byte.
LEMMA BytesFollow ==
  ASSUME NEW a \in Nat, NEW b \in Nat, a < b
  PROVE  a \div CharBit <= MaskSize(b) - 1 /\ MaskSize(b) \in Nat
<1> DEFINE C == CharBit
           c == b + C - 1
<1>1. C \in Nat /\ C > 0 /\ c \in Nat
  BY CharBitAssumption
<1>2. a \div C \in Nat /\ C * (a \div C) <= a /\ c \div C \in Nat /\ c < C * (c \div C) + C
  BY <1>1, DivByte
<1>3. PICK x, y : x = a \div C /\ y = c \div C
  OBVIOUS
<1>4. x \in Nat /\ y \in Nat /\ C * x <= b - 1 /\ b - 1 < C * y
  BY <1>1, <1>2, <1>3
<1>5. MaskSize(b) = y
  BY <1>3 DEF MaskSize
<1> HIDE DEF C
<1>6. x < y
  <2> SUFFICES ASSUME y <= x PROVE FALSE
    BY <1>4
  <2>1. C * y <= C * x
    BY <1>1, <1>4
  <2> QED
    BY <1>1, <1>4, <2>1
<1> QED
  BY <1>3, <1>4, <1>5, <1>6 DEF C

\* A byte with one bit more is a byte.
LEMMA ByteGrows ==
  ASSUME NEW byte \in Byte, NEW bit
  PROVE  byte \cup BitInByte(bit) \in Byte
BY DEF Byte, BitInByte

\* The loop's bit moves on, and its byte does not run ahead of it.
LEMMA AdvanceKeeps ==
  ASSUME AdvanceBit, i \in Nat, n \in Nat, i < n, i' = i + 1, n' = n,
         found_bit \in 0..i, found \in 0..(found_bit \div CharBit)
  PROVE  /\ found_bit' \in 0..i' /\ found' \in 0..(found_bit' \div CharBit) /\ i' \in 0..n'
<1>1. found_bit \in Nat /\ found_bit' = found_bit + 1 /\ found_bit' \in 0..i' /\ i' \in 0..n'
  BY DEF AdvanceBit
<1>2. PICK x, y : x = found_bit \div CharBit /\ y = (found_bit + 1) \div CharBit
  OBVIOUS
<1>3. /\ x \in Nat /\ y \in Nat /\ x <= y
      /\ (found_bit + 1) % CharBit = 0 => x + 1 <= y
  BY <1>1, <1>2, DivByte, NextBit
<1>4. found \in 0..x
  BY <1>2
<1>5. found' \in 0..y
  <2>1. CASE (found_bit + 1) % CharBit = 0
    BY <1>3, <1>4, <2>1 DEF AdvanceBit
  <2>2. CASE (found_bit + 1) % CharBit # 0
    BY <1>3, <1>4, <2>2 DEF AdvanceBit
  <2> QED
    BY <2>1, <2>2
<1> QED
  BY <1>1, <1>2, <1>5

\* Every step keeps the types.
LEMMA NextType ==
  ASSUME LoopInv, TypeOK, [Next]_vars
  PROVE  TypeOK'
<1>1. /\ n \in Nat /\ i \in Nat /\ found_bit \in Nat /\ i <= n
      /\ found_bit \in 0..i /\ found \in 0..(found_bit \div CharBit)
  BY DEF LoopInv, TypeOK
<1>2. ASSUME NEW k \in Positions(n), NEW s \in Seq(Positions(n))
      PROVE  Append(s, k) \in Seq(Positions(n))
  OBVIOUS
<1>3. i < n => i \in Positions(n)
  BY <1>1 DEF Positions
<1>4. CASE LookupFound
  <2>1. /\ i < n /\ i' = i + 1 /\ at = "lookup"
        /\ UNCHANGED <<n, held, at, found, found_bit, missing_hashes, sent>>
        /\ found_bitmask' = [found_bitmask EXCEPT ![found] = @ \cup BitInByte(found_bit)]
    BY <1>4 DEF LookupFound
  <2>2. \A k \in DOMAIN found_bitmask' : found_bitmask'[k] \in Byte
    <3>1. \A k \in DOMAIN found_bitmask : found_bitmask[k] \in Byte
      BY DEF TypeOK
    <3>2. \A k \in DOMAIN found_bitmask : found_bitmask'[k] =
            IF k = found THEN found_bitmask[found] \cup BitInByte(found_bit) ELSE found_bitmask[k]
      BY <2>1
    <3>3. DOMAIN found_bitmask' = DOMAIN found_bitmask
      BY <2>1
    <3> QED
      BY <3>1, <3>2, <3>3, ByteGrows
  <2>3. i' \in 0..n' /\ found_bit' \in 0..i'
    BY <1>1, <2>1
  <2> QED
    BY <2>1, <2>2, <2>3 DEF TypeOK, Positions
<1>5. CASE LookupMissing
  <2>1. /\ i < n /\ i' = i + 1 /\ AdvanceBit /\ missing_hashes' = Append(missing_hashes, i)
        /\ UNCHANGED <<n, held, at, found_bitmask, sent>>
    BY <1>5 DEF LookupMissing
  <2>2. missing_hashes' \in Seq(Positions(n))
    BY <1>2, <1>3, <2>1 DEF TypeOK
  <2>3. i' \in 0..n' /\ found_bit' \in 0..i' /\ found' \in 0..(found_bit' \div CharBit)
    BY <1>1, <2>1, AdvanceKeeps
  <2> QED
    BY <2>1, <2>2, <2>3 DEF TypeOK, Positions
<1>6. CASE Confirm
  <2>1. /\ at = "lookup" /\ i' = 0 /\ at' = "walk" /\ found' = 0 /\ found_bit' = 0
        /\ UNCHANGED <<n, held, missing_hashes, sent>>
        /\ found_bitmask' = [k \in Positions(MaskSize(n)) |-> found_bitmask[k]]
    BY <1>6 DEF Confirm
  <2>2. Positions(MaskSize(n)) \subseteq DOMAIN found_bitmask
    BY <2>1, MaskFits DEF LoopInv, LookupInv
  <2>3. \A k \in DOMAIN found_bitmask' : found_bitmask'[k] \in Byte
    BY <2>1, <2>2 DEF TypeOK
  <2>4. i' \in 0..n' /\ found_bit' \in 0..i' /\ found' \in 0..(found_bit' \div CharBit)
    <3>1. 0 \div CharBit \in Nat
      BY DivByte
    <3> QED
      BY <1>1, <2>1, <3>1
  <2> QED
    BY <2>1, <2>3, <2>4 DEF TypeOK, Positions
<1>7. CASE WalkSend
  <2>1. /\ i < n /\ i' = i + 1 /\ AdvanceBit /\ sent' = Append(sent, i)
        /\ UNCHANGED <<n, held, at, found_bitmask, missing_hashes>>
    BY <1>7 DEF WalkSend
  <2>2. sent' \in Seq(Positions(n))
    BY <1>2, <1>3, <2>1 DEF TypeOK
  <2>3. i' \in 0..n' /\ found_bit' \in 0..i' /\ found' \in 0..(found_bit' \div CharBit)
    BY <1>1, <2>1, AdvanceKeeps
  <2> QED
    BY <2>1, <2>2, <2>3 DEF TypeOK, Positions
<1>8. CASE WalkSkip
  <2>1. /\ i < n /\ i' = i + 1 /\ AdvanceBit
        /\ UNCHANGED <<n, held, at, found_bitmask, missing_hashes, sent>>
    BY <1>8 DEF WalkSkip
  <2>2. i' \in 0..n' /\ found_bit' \in 0..i' /\ found' \in 0..(found_bit' \div CharBit)
    BY <1>1, <2>1, AdvanceKeeps
  <2> QED
    BY <2>1, <2>2 DEF TypeOK, Positions
<1>9. CASE WalkEnd
  BY <1>9 DEF WalkEnd, TypeOK, Positions
<1>10. CASE UNCHANGED vars
  BY <1>10 DEF vars, TypeOK, Positions, Byte
<1> QED
  BY <1>4, <1>5, <1>6, <1>7, <1>8, <1>9, <1>10 DEF Next, Terminated

\* The variables of both loops keep to their types; in particular the byte that
\* `found' points to is never behind that of the position.
THEOREM TypeCorrect == Spec => []TypeOK
<1>1. Init => TypeOK
  <2> SUFFICES ASSUME Init PROVE TypeOK
    OBVIOUS
  <2>1. /\ n \in 1..OfferMax /\ held \in SUBSET Positions(n) /\ at = "lookup" /\ i = 0
        /\ found = 0 /\ found_bit = 0 /\ missing_hashes = <<>> /\ sent = <<>>
        /\ found_bitmask = [k \in Positions(MaskSize(OfferMax)) |-> {}]
    BY DEF Init
  <2>2. \A k \in DOMAIN found_bitmask : found_bitmask[k] \in Byte
    BY <2>1 DEF Byte
  <2>3. n \in Nat /\ 0 \div CharBit \in Nat
    BY <2>1, OfferMaxAssumption, DivByte
  <2>4. i \in 0..n /\ found_bit \in 0..i /\ found \in 0..(found_bit \div CharBit)
    BY <2>1, <2>3
  <2> QED
    BY <2>1, <2>2, <2>4 DEF TypeOK
<1> QED
  BY <1>1, NextType, LoopsInvariant, PTL DEF Spec

\* Neither loop (peer.cpp:182, :397) leaves the bytes that travel.
THEOREM StaysInBounds == Spec => []MaskInBounds
<1>1. TypeOK => MaskInBounds
  <2> SUFFICES ASSUME TypeOK, i < n PROVE found \in Positions(MaskSize(n))
    BY DEF MaskInBounds
  <2>1. /\ n \in Nat /\ i \in Nat /\ found_bit \in Nat /\ found_bit < n
        /\ found \in 0..(found_bit \div CharBit)
    BY OfferMaxAssumption DEF TypeOK
  <2>2. PICK x, y : x = found_bit \div CharBit /\ y = MaskSize(n)
    OBVIOUS
  <2>3. x \in Nat /\ y \in Nat /\ x <= y - 1
    BY <2>1, <2>2, DivByte, BytesFollow
  <2> QED
    BY <2>1, <2>2, <2>3 DEF Positions
<1> QED
  BY <1>1, TypeCorrect, PTL
-----------------------------------------------------------------------------
(* In which order the loops list positions. *)

\* In front of each are as many as there are smaller ones.
MissingInOrder ==
  \A k \in DOMAIN missing_hashes :
    Cardinality(Expected(missing_hashes[k], held)) + 1 = k
SentInOrder ==
  \A k \in DOMAIN sent : Cardinality(Uploaded(sent[k], Mask(held))) + 1 = k

\* A position appended comes last.
LEMMA AppendComesLast ==
  ASSUME NEW s \in Seq(Nat), NEW e \in Nat
  PROVE  \A k \in DOMAIN Append(s, e) :
           \/ k \in DOMAIN s /\ Append(s, e)[k] = s[k]
           \/ k = Len(s) + 1 /\ Append(s, e)[k] = e
<1>1. DOMAIN Append(s, e) = 1..(Len(s) + 1) /\ DOMAIN s = 1..Len(s) /\ Len(s) \in Nat
  OBVIOUS
<1>2. /\ Append(s, e)[Len(s) + 1] = e
      /\ \A k \in 1..Len(s) : Append(s, e)[k] = s[k]
  OBVIOUS
<1>3. 1..(Len(s) + 1) = (1..Len(s)) \cup {Len(s) + 1}
  BY <1>1
<1> QED
  BY <1>1, <1>2, <1>3

\* Both lists stay in order.
LEMMA NextOrder ==
  ASSUME LoopInv, MissingInOrder, SentInOrder, [Next]_vars
  PROVE  (MissingInOrder /\ SentInOrder)'
<1>1. ASSUME UNCHANGED <<held, missing_hashes>> PROVE MissingInOrder'
  BY <1>1 DEF MissingInOrder, Expected, Positions
<1>2. ASSUME UNCHANGED <<held, sent>> PROVE SentInOrder'
  BY <1>2 DEF SentInOrder, Uploaded, Mask, MissingBefore, Positions
<1>3. CASE LookupMissing
  <2>1. /\ i \in Nat /\ held' = held /\ sent' = sent /\ missing_hashes' = Append(missing_hashes, i)
        /\ missing_hashes \in Seq(Nat) /\ Len(missing_hashes) = Cardinality(Expected(i, held))
    BY <1>3 DEF LookupMissing, LoopInv, LookupInv, MissingAre
  <2>2. \A k \in DOMAIN missing_hashes' : Cardinality(Expected(missing_hashes'[k], held)) + 1 = k
    BY <2>1, AppendComesLast DEF MissingInOrder
  <2>3. MissingInOrder'
    BY <2>1, <2>2 DEF MissingInOrder, Expected, Positions
  <2> QED
    BY <1>2, <2>1, <2>3
<1>4. CASE WalkSend
  <2>1. /\ i \in Nat /\ held' = held /\ missing_hashes' = missing_hashes /\ sent' = Append(sent, i)
        /\ sent \in Seq(Nat) /\ Len(sent) = Cardinality(Uploaded(i, Mask(held)))
    BY <1>4 DEF WalkSend, LoopInv, WalkInv, SentAre
  <2>2. \A k \in DOMAIN sent' : Cardinality(Uploaded(sent'[k], Mask(held))) + 1 = k
    BY <2>1, AppendComesLast DEF SentInOrder
  <2>3. held' = held
    BY <2>1
  <2>4. SentInOrder'
    BY <2>2, <2>3 DEF SentInOrder, Uploaded, Mask, MissingBefore, Positions
  <2> QED
    BY <1>1, <2>1, <2>4
<1>5. CASE LookupFound \/ Confirm \/ WalkSkip \/ WalkEnd \/ UNCHANGED vars
  BY <1>1, <1>2, <1>5 DEF LookupFound, Confirm, WalkSkip, WalkEnd, vars
<1> QED
  BY <1>3, <1>4, <1>5 DEF Next, Terminated

\* Fewer are missing in front of a missing position than in front of a later one.
LEMMA ExpectedGrows ==
  ASSUME NEW j \in Nat, NEW k \in Nat, NEW S, j \notin S, j < k
  PROVE  Cardinality(Expected(j, S)) # Cardinality(Expected(k, S))
<1>1. /\ IsFiniteSet(Expected(k, S)) /\ Cardinality(Expected(k, S)) \in Nat
      /\ IsFiniteSet(Expected(j, S)) /\ Cardinality(Expected(j, S)) \in Nat
  BY ExpectedStep
<1>2. Expected(j, S) \subseteq Expected(k, S) /\ j \in Expected(k, S) /\ j \notin Expected(j, S)
  BY DEF Expected, Positions
<1> QED
  BY <1>1, <1>2, FS_Subset

\* An offer is understood exactly if the files sent are those waited for.
LEMMA OrderTells ==
  ASSUME LoopInv, MissingInOrder, SentInOrder, at = "done"
  PROVE  sent = missing_hashes <=> Understood(held)
<1>1. /\ n \in Nat /\ held \in SUBSET Positions(n)
      /\ missing_hashes \in Seq(Nat) /\ Elements(missing_hashes) = Expected(n, held)
      /\ Len(missing_hashes) = Cardinality(Expected(n, held))
      /\ sent \in Seq(Nat) /\ Elements(sent) = Uploaded(n, Mask(held))
      /\ Len(sent) = Cardinality(Uploaded(n, Mask(held)))
  BY DEF LoopInv, MissingAre, SentAre
<1>2. ASSUME sent = missing_hashes PROVE Understood(held)
  BY <1>1, <1>2, ExactlyUnderstood
<1>3. ASSUME Understood(held) PROVE sent = missing_hashes
  <2>1. Mask(held) = held /\ \A j \in held : j < CharBit
    BY <1>1, <1>3, UnderstoodMask DEF Understood
  <2>2. \A k \in Nat : Uploaded(k, Mask(held)) = Expected(k, held)
    BY <2>1 DEF Uploaded, Expected
  <2>3. Len(sent) = Len(missing_hashes) /\ Elements(sent) = Expected(n, held)
    BY <1>1, <2>2
  <2>4. ASSUME NEW k \in 1..Len(sent) PROVE sent[k] = missing_hashes[k]
    <3>1. k \in DOMAIN sent /\ k \in DOMAIN missing_hashes
      BY <1>1, <2>3
    <3>2. PICK x \in Nat, y \in Nat : x = sent[k] /\ y = missing_hashes[k]
      BY <1>1, <3>1
    <3>3. x \notin held /\ y \notin held
      BY <1>1, <2>3, <3>1, <3>2 DEF Elements, Expected
    <3>4. Cardinality(Expected(x, held)) + 1 = k /\ Cardinality(Expected(y, held)) + 1 = k
      BY <2>2, <3>1, <3>2 DEF MissingInOrder, SentInOrder
    <3>5. Cardinality(Expected(x, held)) \in Nat /\ Cardinality(Expected(y, held)) \in Nat
      BY ExpectedStep
    <3>6. ~(x < y) /\ ~(y < x)
      BY <3>3, <3>4, <3>5, ExpectedGrows
    <3> QED
      BY <3>2, <3>6
  <2> QED
    BY <1>1, <2>3, <2>4
<1> QED
  BY <1>2, <1>3

\* The files sent are those waited for, in the same order, exactly if at most one
\* hash was found and its position has a bit in the first byte.
THEOREM UnderstoodOnly == Spec => []UnderstoodExactly
<1>1. Init => MissingInOrder /\ SentInOrder
  BY DEF Init, MissingInOrder, SentInOrder
<1>2. LoopInv /\ MissingInOrder /\ SentInOrder => UnderstoodExactly
  BY OrderTells DEF UnderstoodExactly
<1> QED
  BY <1>1, <1>2, NextOrder, LoopsInvariant, PTL DEF Spec
=============================================================================
