CONSTANTS
  r1 = r1  r2 = r2  r3 = r3
  Requests <- MCRequests
  PromptLen <- MCPromptLen
  MaxNew <- MCMaxNew
  Chunks = {2}
  Budgets = {1}
  MaxSlots = 1
SPECIFICATION FairSpec
PROPERTY DeferredRowRuns
