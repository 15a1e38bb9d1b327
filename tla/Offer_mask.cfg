\* Every offer of up to seven hashes against every set of found ones; bytes of
\* two bits, so that the mask has up to four bytes.
SPECIFICATION Spec
CONSTANTS
  OfferMax = 7
  CharBit = 2
INVARIANTS TypeOK MaskInBounds LoopsAgree NeverStarved UnderstoodExactly
