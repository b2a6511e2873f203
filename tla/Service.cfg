\* Two Starts, two revisions of which the first may be bad, and one event.
SPECIFICATION Spec
CONSTANTS
  Clients = {1, 2}
  Configs <- MCConfigs
  MaxRev = 2
  MaxEvents = 1
  Off = {"disabled"}
INVARIANTS TypeOK OnePass StopMeansOver LateTickIsEmpty Genuine OneRotationSurvived
CHECK_DEADLOCK FALSE
PROPERTIES CancelledEnds CatchesUp
