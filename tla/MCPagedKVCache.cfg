CONSTANTS
  a = a  b = b  v1 = v1  v2 = v2
  b1 = b1  b2 = b2  b3 = b3  b4 = b4
  Uninit = Uninit
  Slots = {0, 1}
  Blocks <- MCBlocks
  Token <- MCToken
  Prompts <- MCPrompts
  KVValue = {v1, v2}
  BlockSize = 2
  MaxSeqLen = 4
  NumLayers = 1
  MaxEntries = 2
  EnablePrefixCache = TRUE
SPECIFICATION Spec
SYMMETRY Symmetric
INVARIANTS TypeOK PoolExact BlockKeepsIndex CleanupCannotRaise  OnlyPinsExhaust
PROPERTIES ImplementsOwnership ImplementsSlotCache
