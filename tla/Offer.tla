------------------------------- MODULE Offer -------------------------------
(***************************************************************************)
(* One offer, step by step as the two loops of src/src/peer.cpp run: the   *)
(* downloader looks up hash after hash and sets found_bitmask (:176-194),  *)
(* sends it (:195-199), and the uploader walks missing_entries with it     *)
(* (:395-438).  The lookup of a hash answers yes exactly at the positions  *)
(* in held.                                                                *)
(***************************************************************************)
EXTENDS Integers, Sequences, FoundMask

CONSTANT OfferMax    \* SyncProtocol::hashes_per_packet

ASSUME OfferMaxAssumption == OfferMax \in Nat \ {0}

VARIABLES
  n,                 \* hash_count, the size of the offer
  held,              \* the positions whose hash the downloader has
  at,                \* which loop runs: "lookup", "walk", "done"
  i,                 \* the position that this loop has reached
  found,             \* the byte of found_bitmask that `found' points to
  found_bit,         \* the variable of that name, of the running loop
  found_bitmask,     \* its bytes
  missing_hashes,    \* the positions the downloader goes on to receive
  sent               \* the positions the uploader has sent a file for

vars == <<n, held, at, i, found, found_bit, found_bitmask, missing_hashes, sent>>

\* 1 << bit, as far as it fits in a byte.
BitInByte(bit) == {bit} \cap Positions(CharBit)

IsSet(byte, bit) == byte \cap BitInByte(bit) # {}

Init ==
  /\ n \in 1..OfferMax
  /\ held \in SUBSET Positions(n)
  /\ at = "lookup"
  /\ i = 0
  /\ found = 0
  /\ found_bit = 0
  /\ found_bitmask = [k \in Positions(MaskSize(OfferMax)) |-> {}]
  /\ missing_hashes = <<>>
  /\ sent = <<>>
-----------------------------------------------------------------------------
\* Mutant: the bit wraps, but the byte stays.
AdvanceInByte ==
  /\ found_bit' = (found_bit + 1) % CharBit
  /\ UNCHANGED found

\* Mutant: the bit is tested before it is incremented.
AdvanceLate ==
  /\ found_bit' = found_bit + 1
  /\ found' = IF (found_bit % CharBit) = 0 THEN found + 1 ELSE found

\* found += (++found_bit % CHAR_BIT == 0)
AdvanceBit ==
  /\ found_bit' = found_bit + 1
  /\ found' = IF ((found_bit + 1) % CharBit) = 0 THEN found + 1 ELSE found

\* exif_hasher.Contains(hash): the bit is set, and `continue' skips the rest.
LookupFound ==
  /\ at = "lookup" /\ i < n
  /\ i \in held
  /\ found_bitmask' = [found_bitmask EXCEPT ![found] = @ \cup BitInByte(found_bit)]
  /\ i' = i + 1
  /\ UNCHANGED <<n, held, at, found, found_bit, missing_hashes, sent>>

\* The hash stays in missing_hashes.
LookupMissing ==
  /\ at = "lookup" /\ i < n
  /\ i \notin held
  /\ missing_hashes' = Append(missing_hashes, i)
  /\ AdvanceBit
  /\ i' = i + 1
  /\ UNCHANGED <<n, held, at, found_bitmask, sent>>

\* The bytes that the offer calls for are written; the uploader reads as many.
Confirm ==
  /\ at = "lookup" /\ i = n
  /\ found_bitmask' = [k \in Positions(MaskSize(n)) |-> found_bitmask[k]]
  /\ at' = "walk"
  /\ i' = 0
  /\ found' = 0
  /\ found_bit' = 0
  /\ UNCHANGED <<n, held, missing_hashes, sent>>

\* The bit is clear: the file of this entry is sent.
WalkSend ==
  /\ at = "walk" /\ i < n
  /\ ~IsSet(found_bitmask[found], found_bit)
  /\ sent' = Append(sent, i)
  /\ AdvanceBit
  /\ i' = i + 1
  /\ UNCHANGED <<n, held, at, found_bitmask, missing_hashes>>

\* The bit is set: the entry counts as found at the receiver.
WalkSkip ==
  /\ at = "walk" /\ i < n
  /\ IsSet(found_bitmask[found], found_bit)
  /\ AdvanceBit
  /\ i' = i + 1
  /\ UNCHANGED <<n, held, at, found_bitmask, missing_hashes, sent>>

WalkEnd ==
  /\ at = "walk" /\ i = n
  /\ at' = "done"
  /\ UNCHANGED <<n, held, i, found, found_bit, found_bitmask, missing_hashes, sent>>

Terminated == at = "done" /\ UNCHANGED vars

Next ==
  \/ LookupFound \/ LookupMissing \/ Confirm
  \/ WalkSend \/ WalkSkip \/ WalkEnd
  \/ Terminated

Spec == Init /\ [][Next]_vars
-----------------------------------------------------------------------------
TypeOK ==
  /\ n \in 1..OfferMax /\ held \subseteq Positions(n)
  /\ at \in {"lookup", "walk", "done"}
  /\ i \in 0..n /\ found \in 0..(found_bit \div CharBit) /\ found_bit \in 0..i
  /\ \A k \in DOMAIN found_bitmask : found_bitmask[k] \in Byte
  /\ missing_hashes \in Seq(Positions(n)) /\ sent \in Seq(Positions(n))

\* Neither loop (peer.cpp:182, :397) leaves the bytes that travel, whichever of
\* the hashes are found.
MaskInBounds ==
  i < n /\ at # "done" => found \in Positions(MaskSize(n))

\* The loops compute the closed forms of FoundMask: which bits travel, which
\* files the downloader waits for and which ones the uploader sends.
LoopsAgree ==
  /\ at = "walk" =>
       /\ found_bitmask[0] = Mask(held)
       /\ \A k \in DOMAIN found_bitmask \ {0} : found_bitmask[k] = {}
  /\ at = "done" =>
       /\ {missing_hashes[k] : k \in DOMAIN missing_hashes} = Expected(n, held)
       /\ {sent[k] : k \in DOMAIN sent} = Uploaded(n, Mask(held))

\* The uploader sends at least as many files as the downloader waits for
\* (peer.cpp:204), so the downloader is never left reading for a file that does
\* not come while the uploader goes on to the next offer.
NeverStarved == at = "done" => Len(sent) >= Len(missing_hashes)

\* The files sent are the files waited for exactly if at most one hash was found
\* and it has a bit in the first byte.
UnderstoodExactly ==
  at = "done" => (sent = missing_hashes <=> Understood(held))

\* What the comments at peer.cpp:176 and :388 say of the mask: the receiver
\* confirms in it what it has, and is not sent that.
NothingHeldIsSent ==
  \A k \in DOMAIN sent : sent[k] \notin held
=============================================================================
