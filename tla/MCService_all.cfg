CONSTANTS
  r1 = r1
  r2 = r2
  r3 = r3
  Nobody = Nobody
  Reqs <- ThreeReqs
  Loads <- ThreeReqs
  JobNames = {"j", "k"}
  Root = "dsl"
  Dirs <- SomeDirs
  Files <- SomeFiles
  Yaml <- SomeYaml
  Children <- Tree
  Rank <- PathRank
  Fixtures = {"sub/mock-b.yaml"}
  Group <- GroupFromPath
  Configs <- EveryConfig
  RawJobs <- SomeRawJobs
  Contents <- EditContents
  Lookups <- SomeLookups
SPECIFICATION Spec
CHECK_DEADLOCK FALSE
INVARIANTS TypeOK LockDiscipline AnswerTruthful RegistryMatchesDisk FiresOnlyScreened HeadersFresh KeptTextFits AnswersLogged
PROPERTIES EveryRequestAnswered ShutdownEnds
