\* The user opts out and in again while the daemon and pilotctl run.
SPECIFICATION Spec
CONSTANTS
  Procs = {d, ctl}
  Daemon = d
  Tools = {"openclaw"}
  Plugins = {"injector"}
  Helpers = {"ask"}
  GatedTools = {"muse"}
  Files = {"f2"}
  PluginFiles = {"index"}
  None = None
  FileOf <- MCFileOf
  PluginOf <- MCPluginOf
  FilesOf <- MCFilesOf
  MaxRev = 1
  ManifestAt <- MCOneManifest
  Builtin <- MCBuiltin
  Attested = {"muse"}
  MaxEdits = 0
  Commands = {"tick", "plan", "uninstall"}
  UserModes = {"auto", "manual", "disabled"}
INVARIANT TypeOK
PROPERTIES OptOutHolds PlanLeavesSurfaces UninstallClean
