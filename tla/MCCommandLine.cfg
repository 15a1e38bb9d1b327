\* Every command line of up to five words.
SPECIFICATION Spec
CONSTANTS
  Word <- MCWord
  MaxArgs = 5
  MaxPort = 9
INVARIANTS RootsComeFirst NeverMisled ChildrenUnderstand
