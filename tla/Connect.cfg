\* No, one or two slaves, every interleaving, one process killed at any moment.
SPECIFICATION Spec
CONSTANTS
  Slaves = {s1, s2}
  Backlog = 2
  MaxKills = 1
INVARIANTS TypeOK Wired NobodyFalls
PROPERTY HandshakeEnds
CHECK_DEADLOCK FALSE
