CONSTANTS
  InfoHash <- MCInfoHash
  Texts <- MCTexts
  Stacks <- MCStacks
  Overreads <- MCOverreads
  MaxPieces = 12
SPECIFICATION Spec
CHECK_DEADLOCK FALSE
INVARIANTS
  HeardAsSaid
  NumbersAsSaid
