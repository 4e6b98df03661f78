CONSTANTS
  r1 = r1  r2 = r2  r3 = r3
  a = a  b = b  b1 = b1  b2 = b2  b3 = b3  b4 = b4  b5 = b5  b6 = b6
  Sampled = Sampled  Pad = Pad
  Requests <- MCRequests
  Token <- MCToken
  Prompt <- MCAlignedPrompts
  MaxNew <- MCShortMaxNew
  Blocks <- MCFourBlocks
  Chunks = {2}
  Budgets = {3}
  Concurrencies = {2}
  BatchSize = 2
  BlockSize = 2
  MaxSeqLen = 4
  NumLayers = 1
  MaxEntries = 2
  EnablePrefixCache = TRUE
  Cancellable = {}
SPECIFICATION Spec
INVARIANT FirstTokenCanBeSampled
