SPECIFICATION Spec
CONSTANTS
  gateway = gateway
  official = official
  None = None
  Campaigns = {gateway, official}
  Reviewers = {"reviewer"}
  Repeat <- MCRepeat
  Modes <- MCModes
  Outcomes <- MCOutcomes
  Benchmark <- MCBenchmark
  Tasks = {"json", "code"}
  Yields <- MCYields
  MaxReferences <- MCMaxReferences
  MaxInvocations = 2
  MaxRunning = 1
  MaxCommands = 1
  MaxKills <- MCMaxKills
INVARIANTS PublishedFinal DecisionsEarned
CHECK_DEADLOCK FALSE
