\* An orphaned begin before a block, a stray end after it; nobody edits.
SPECIFICATION Spec
CONSTANTS
  Procs = {d, ctl}
  Daemon = d
  FirstFiles <- MCOrphans
  UserTokens <- MCUserTokens
  Wants <- MCWants
  MaxEdits = 0
  MaxEvents = 1
INVARIANTS UsersTextSurvives
