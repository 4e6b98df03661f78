CONSTANTS
  r1 = r1  r2 = r2  r3 = r3
  Requests <- MCRequests
  PromptLen <- MCPromptLen
  MaxNew <- MCMaxNew
  Chunks = {1, 2}
  Budgets = {2, 3}
  MaxSlots = 3
SPECIFICATION Spec
INVARIANTS TypeOK SlotPartition OnePlace
PROPERTIES BatchWithinBudget FirstComeFirstServed
