\* One process and a file with a wide number.
SPECIFICATION Spec
CONSTANTS
  Procs = {ctl}
  Settings = {"own"}
  FirstFiles <- MCFirstFiles
  UserFiles <- MCUserFiles
  MaxEdits = 0
PROPERTY MergeKeepsNumbers
