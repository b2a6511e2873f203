\* Two processes and a user who saves twice.
SPECIFICATION Spec
CONSTANTS
  Procs = {d, ctl}
  Settings = {"own"}
  FirstFiles <- MCFirstFiles
  UserFiles <- MCUserFiles
  MaxEdits = 2
INVARIANTS TypeOK
PROPERTIES KeepsSettings BackupFirst UninstallUntrusts RetiredFilesLast
