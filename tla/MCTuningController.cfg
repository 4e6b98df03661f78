SPECIFICATION FairSpec
CONSTANTS
  MinChunk = 32
  MaxChunk = 512
  ChunkStep = 64
  MinBudget = 256
  MaxBudget = 4096
  BudgetStep = 256
  MaxConcurrent = 16
  Window = 2
  MinSamples = 3
  Loops = {l1}
  Admins = {a1}
  NoLoop = NoLoop
  NoAttempt = NoAttempt
  Interval = 1
  Evaluation = 2
  Cooldown = 1
  MinCompleted = 1
  Paged = TRUE
  MaxAttempts = 2
  MaxSamples = 3
CONSTANT
  Starts <- MCStarts
  Readings <- MCReadings
INVARIANTS
  TypeOK
  SettingsInBounds
  
  
  TrialUndone
PROPERTIES
  AttemptSettles
