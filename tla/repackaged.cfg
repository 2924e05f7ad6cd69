SPECIFICATION AfterSpec
CONSTANTS
  Trainers = {t1}
  Packagers = {p1}
  Models = {m1}
  EvaluationRuns = {e1}
  None = None
  Commands <- SomeCommands
  Configs <- SomeConfigs
  Machines <- SomeMachines
  DataSets <- SomeDataSets
  BroadK = 2
  SeedStride = 1000
  Experiments <- SomeExperiments
  Evaluations <- SomeEvaluations
  Catalogs <- SomeCatalogs
  Answers = {"none", "broken", "code"}
  Results <- SomeResults
  PreferencePairs <- SomePreferences
  Attributions <- SomeAttributions
  Curves <- SomeCurves
  Settings <- UsualSettings
  MaxTrainings = 2
  MaxCommands = 2
  MaxFaults = 0
INVARIANTS RegisteredIsThePackage
CHECK_DEADLOCK FALSE
