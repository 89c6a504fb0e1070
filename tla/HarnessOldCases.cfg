SPECIFICATION Spec
CONSTANTS
  short = short
  long = long
  Programs = {short, long}
  Size <- MCSize
  Dist <- MCDist
  NoFile = NoFile
  Levels <- OneLevel
  Mutants = 1
  Records = 2
  BaseFds = 4
  MaxFds = 9
  UIntMod = 4
  MaxRounds = 1
  MaxSessions = 2
  Target = "gcc"
INVARIANT ReproducersAreCopies
