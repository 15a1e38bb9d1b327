\* A second slave connects to the same master.
SPECIFICATION Spec
CONSTANTS
  Slaves = {s1, s2}
  Backlog = 2
  MaxKills = 0
INVARIANT OneSlave
CHECK_DEADLOCK FALSE
