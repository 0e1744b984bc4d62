CONSTANTS
  Keys = {1, 2, 3}
  BLOCK_SIZE = 2
  MaxBlockId = 4
SPECIFICATION FairSpec
INVARIANTS TypeOK SizeIsOccupancy ChainInOrder NothingLost NoEmptyBlock WalkMissesNothing LocalsInChain
PROPERTIES ImplementsStore CallReturns
