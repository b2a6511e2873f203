\* The daemon and a pilotctl, the released binary, one save of the user.
SPECIFICATION Spec
CONSTANTS
  Procs = {d, ctl}
  Daemon = d
  FirstFiles <- MCFirstFiles
  UserTokens <- MCUserTokens
  Wants <- MCWants
  MaxEdits = 1
  MaxEvents = 1
INVARIANTS TypeOK FindsBlocks TidyTextSurvives CycleSettles ModeKept
PROPERTIES KeepsUsersPart Heals
