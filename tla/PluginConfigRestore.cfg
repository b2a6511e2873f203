\* One process, and a user who sets something after the install.
SPECIFICATION Spec
CONSTANTS
  Procs = {ctl}
  Settings = {"own"}
  FirstFiles <- MCFirstFiles
  UserFiles <- MCUserFiles
  MaxEdits = 1
PROPERTY RestoreKeepsSettings
