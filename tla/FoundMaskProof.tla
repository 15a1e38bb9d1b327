-------------------------- MODULE FoundMaskProof --------------------------
(***************************************************************************)
(* What the found_bitmask of one offer does, for every size of the offer,  *)
(* every set of found hashes and every width of a byte.                    *)
(***************************************************************************)
EXTENDS Integers, FoundMask, FiniteSetTheorems, TLAPS

\* The positions of an offer are as many as its hashes.
LEMMA PositionsFinite ==
  ASSUME NEW n \in Nat
  PROVE  IsFiniteSet(Positions(n)) /\ Cardinality(Positions(n)) = n
BY FS_Interval DEF Positions

\* A mask has no more bits than hashes were found: each sets one at most.
LEMMA MaskSmall ==
  ASSUME NEW held, IsFiniteSet(held)
  PROVE  IsFiniteSet(Mask(held)) /\ Cardinality(Mask(held)) <= Cardinality(held)
<1> DEFINE bits == {MissingBefore(held, i) : i \in held}
           f == [i \in held |-> MissingBefore(held, i)]
<1>1. f \in Surjection(held, bits)
  BY DEF Surjection
<1>2. IsFiniteSet(bits) /\ Cardinality(bits) <= Cardinality(held)
  BY <1>1, FS_Surjection
<1>3. Mask(held) \in SUBSET bits
  BY DEF Mask
<1>4. IsFiniteSet(Mask(held)) /\ Cardinality(Mask(held)) <= Cardinality(bits)
  BY <1>2, <1>3, FS_Subset
<1> QED
  BY <1>2, <1>4, FS_CardinalityType

\* The downloader is never starved by a mask: whichever hashes it finds, the
\* uploader sends at least as many files as it waits for (peer.cpp:204).
THEOREM EnoughUploaded ==
  ASSUME NEW n \in Nat, NEW held \in SUBSET Positions(n)
  PROVE  Cardinality(Expected(n, held)) <= Cardinality(Uploaded(n, Mask(held)))
<1> DEFINE skipped == {i \in Positions(n) : i < CharBit /\ i \in Mask(held)}
<1>1. IsFiniteSet(Positions(n)) /\ Cardinality(Positions(n)) = n
  BY PositionsFinite
<1>2. IsFiniteSet(held) /\ Cardinality(held) \in Nat
  BY <1>1, FS_Subset, FS_CardinalityType
<1>3. Cardinality(skipped) <= Cardinality(held) /\ Cardinality(skipped) \in Nat
  <2>1. skipped \in SUBSET Mask(held)
    OBVIOUS
  <2>2. IsFiniteSet(Mask(held)) /\ Cardinality(Mask(held)) <= Cardinality(held)
    BY <1>2, MaskSmall
  <2>3. IsFiniteSet(skipped) /\ Cardinality(skipped) <= Cardinality(Mask(held))
    BY <2>1, <2>2, FS_Subset
  <2> QED
    BY <1>2, <2>2, <2>3, FS_CardinalityType
<1>4. Cardinality(Expected(n, held)) = n - Cardinality(held)
  <2>1. Positions(n) \cap held = held
    OBVIOUS
  <2>2. Expected(n, held) = Positions(n) \ held
    BY DEF Expected
  <2> HIDE DEF skipped
  <2> QED
    BY <1>1, <2>1, <2>2, FS_Difference
<1>5. Cardinality(Uploaded(n, Mask(held))) = n - Cardinality(skipped)
  <2>1. Uploaded(n, Mask(held)) = Positions(n) \ skipped
    BY DEF Uploaded
  <2>2. Positions(n) \cap skipped = skipped
    OBVIOUS
  <2> HIDE DEF skipped
  <2> QED
    BY <1>1, <2>1, <2>2, FS_Difference
<1> QED
  BY <1>2, <1>3, <1>4, <1>5

\* A hash found before position i leaves fewer bits than i behind it.
LEMMA MissingBound ==
  ASSUME NEW held, NEW i \in Nat
  PROVE  /\ MissingBefore(held, i) \in 0..i
         /\ \A k \in held \cap Positions(i) : MissingBefore(held, i) < i
         /\ held \cap Positions(i) = {} => MissingBefore(held, i) = i
<1> DEFINE rest == Positions(i) \ held
<1>1. IsFiniteSet(Positions(i)) /\ Cardinality(Positions(i)) = i
  BY PositionsFinite
<1>2. IsFiniteSet(rest) /\ Cardinality(rest) \in Nat /\ Cardinality(rest) <= i
  <2>1. rest \in SUBSET Positions(i)
    OBVIOUS
  <2> QED
    BY <1>1, <2>1, FS_Subset, FS_CardinalityType
<1>3. ASSUME NEW k \in held \cap Positions(i)
      PROVE  Cardinality(rest) < i
  <2>1. rest \in SUBSET Positions(i) /\ rest # Positions(i)
    BY <1>3
  <2>2. Cardinality(rest) # i
    BY <1>1, <2>1, FS_Subset
  <2> QED
    BY <1>2, <2>2
<1>4. held \cap Positions(i) = {} => rest = Positions(i)
  OBVIOUS
<1> QED
  BY <1>1, <1>2, <1>3, <1>4 DEF MissingBefore

\* One found hash, with a bit in the first byte, is reported by its own bit.
LEMMA UnderstoodMask ==
  ASSUME NEW n \in Nat, NEW held \in SUBSET Positions(n), Understood(held)
  PROVE  Mask(held) = held
<1>1. ASSUME NEW i \in held
      PROVE  MissingBefore(held, i) = i /\ i < CharBit
  <2>1. i \in Nat /\ held \cap Positions(i) = {} /\ i < CharBit
    BY DEF Understood, Positions
  <2> QED
    BY <2>1, MissingBound
<1> QED
  BY <1>1 DEF Mask

\* A mask that reports all that was found reports one hash at most: with two,
\* the positions from the second on would have to be reported by bits that
\* later positions set, and there are not enough of those.
LEMMA ReportedOnce ==
  ASSUME NEW n \in Nat, NEW held \in SUBSET Positions(n), held \subseteq Mask(held)
  PROVE  \A i, j \in held : ~(i < j)
<1> SUFFICES ASSUME NEW i \in held, NEW j \in held, i < j
             PROVE  FALSE
  OBVIOUS
<1> DEFINE later == {m \in held : m >= j}
           setter == [m \in later |-> CHOOSE k \in held : MissingBefore(held, k) = m]
<1>1. held \subseteq Nat
  BY DEF Positions
<1>2. IsFiniteSet(later)
  <2>1. later \in SUBSET Positions(n)
    OBVIOUS
  <2> QED
    BY <2>1, PositionsFinite, FS_Subset
<1>3. ASSUME NEW m \in later
      PROVE  /\ setter[m] \in later \ {j}
             /\ MissingBefore(held, setter[m]) = m
  <2>1. \E k \in held : MissingBefore(held, k) = m
    BY DEF Mask
  <2>2. setter[m] \in held /\ MissingBefore(held, setter[m]) = m
    BY <2>1
  <2> DEFINE k == setter[m]
  <2> HIDE DEF setter
  <2>3. m \in held /\ m >= j
    OBVIOUS
  <2>4. i \in Nat /\ j \in Nat /\ m \in Nat /\ k \in Nat
    BY <1>1, <2>2, <2>3
  <2>5. k \in Nat /\ m \in Nat /\ m >= j /\ i < m
    BY <2>3, <2>4
  <2>6. k >= m
    BY <2>2, <2>5, MissingBound
  <2>7. i \in held \cap Positions(k)
    BY <1>1, <2>5, <2>6 DEF Positions
  <2>8. MissingBefore(held, k) < k
    BY <2>5, <2>7, MissingBound
  <2> QED
    BY <1>1, <2>2, <2>5, <2>8
<1>4. setter \in Injection(later, later \ {j})
  <2>1. setter \in [later -> later \ {j}]
    BY <1>3
  <2>2. \A a, b \in later : setter[a] = setter[b] => a = b
    BY <1>3
  <2> HIDE DEF setter, later
  <2> QED
    BY <2>1, <2>2 DEF Injection, IsInjective
<1>5. j \in later
  BY <1>1
<1> HIDE DEF later, setter
<1>6. IsFiniteSet(later \ {j}) /\ Cardinality(later \ {j}) = Cardinality(later) - 1
  BY <1>2, <1>5, FS_RemoveElement
<1>7. Cardinality(later) <= Cardinality(later \ {j})
  BY <1>4, <1>6, FS_Injection
<1> QED
  BY <1>2, <1>6, <1>7, FS_CardinalityType

\* The files sent are the files waited for if, and only if, at most one hash
\* was found and it has a bit in the first byte: so much of what the comment at
\* peer.cpp:176 says of found_bitmask is true.
THEOREM ExactlyUnderstood ==
  ASSUME NEW n \in Nat, NEW held \in SUBSET Positions(n)
  PROVE  Uploaded(n, Mask(held)) = Expected(n, held) <=> Understood(held)
<1>1. ASSUME Understood(held)
      PROVE  Uploaded(n, Mask(held)) = Expected(n, held)
  <2>1. Mask(held) = held
    BY <1>1, UnderstoodMask
  <2>2. \A i \in held : i < CharBit
    BY <1>1 DEF Understood
  <2> QED
    BY <2>1, <2>2 DEF Uploaded, Expected
<1>2. ASSUME Uploaded(n, Mask(held)) = Expected(n, held)
      PROVE  Understood(held)
  <2>1. \A i \in held : i < CharBit /\ i \in Mask(held)
    BY <1>2 DEF Uploaded, Expected
  <2>2. \A i, j \in held : ~(i < j)
    BY <2>1, ReportedOnce
  <2>3. \A i, j \in held : i = j
    <3>1. held \subseteq Int
      BY DEF Positions
    <3>2. SUFFICES ASSUME NEW i \in held, NEW j \in held PROVE i = j
      OBVIOUS
    <3>3. i \in Int /\ j \in Int /\ ~(i < j) /\ ~(j < i)
      BY <2>2, <3>1
    <3> QED
      BY <3>3
  <2> QED
    BY <2>1, <2>3 DEF Understood
<1> QED
  BY <1>1, <1>2
=============================================================================
