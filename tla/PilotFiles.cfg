\* Two processes on config.json, a user who may leave any file behind; a gated
\* tool's turns of the daemon and a pilotctl, whose user uninstalls.
SPECIFICATION PilotSpec
CONSTANTS
  Callers = {c1, c2}
  UpdateValues = {"pinned", "off"}
  OtherValues = {"set"}
  NoKey = NoKey
  FirstFiles <- MCUserFiles
  UserFiles <- MCUserFiles
  Procs = {d, ctl}
  Uninstallers = {ctl}
  Home <- MCHome
  Links <- MCLinks
  RegularFile <- MCRegularFile
  Hosts <- MCHosts
  Saved <- MCSaved
  MaxDescription = 7
  DefaultText <- MCDefaultText
INVARIANTS TypeOK GatedTypeOK CopyLoads
PROPERTIES OnlyOverlapLoses SetModeIsRead OnlyAttested NoRewriting
