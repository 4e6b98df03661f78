CONSTANTS
  r1 = r1  r2 = r2  r3 = r3
  a = a  b = b
  Sampled = Sampled
  Requests <- MCRequests
  Token <- MCToken
  Prompt <- MCPrompts
  MaxNew <- MCMaxNew
  Chunks = {1, 3}
  Budgets = {3, 6}
  BatchSize = 2
  BlockSize = 2
  MaxSeqLen = 6
  MaxEntries = 2
  EnablePrefixCache = TRUE
SPECIFICATION MetricsFairSpec
INVARIANTS TypeOK PastIsHistory CopiesTrue OnlyLongRaises RequestsAccounted PromptTokensCounted
PROPERTY EveryRequestServed
