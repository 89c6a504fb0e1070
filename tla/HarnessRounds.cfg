SPECIFICATION Spec
CONSTANTS
  short = short
  long = long
  Programs = {short, long}
  Size <- MCSize
  Dist <- MCDist
  NoFile = NoFile
  Levels <- TwoLevels
  Mutants = 2
  Records = 2
  BaseFds = 4
  MaxFds = 9
  UIntMod = 4
  MaxRounds = 3
  MaxSessions = 1
  Target = "gcc"
INVARIANTS
  TypeOK
  StageIsolation
  LoserIsDead
  LogFresh
  FdLedger
  LossStopsCampaign
  CrashReproducersStored
  ReproducersFaithful
  VectorMatchesProgram
  RoundTestsMutant
