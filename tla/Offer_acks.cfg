\* What the comments say of the mask, with bytes of eight bits.
SPECIFICATION Spec
CONSTANTS
  OfferMax = 3
  CharBit = 8
INVARIANT NothingHeldIsSent
