SPECIFICATION Spec
CONSTANTS
  short = short
  long = long
  Programs = {long}
  Size <- MCSize
  Dist <- MCDist
  NoFile = NoFile
  Levels <- OneLevel
  Mutants = 1
  Records = 2
  BaseFds = 4
  MaxFds = 9
  UIntMod = 4
  MaxRounds = 2
  MaxSessions = 1
  Target = "gcc"
INVARIANT TimeoutsGenuine
