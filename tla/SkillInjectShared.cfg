\* Two tools share a heartbeat file an older list retired; upstream reorders them;
\* a pilotctl ticks beside the daemon, possibly from an older revision.
SPECIFICATION Spec
CONSTANTS
  Procs = {d, ctl}
  Daemon = d
  Tools = {"claude", "opencode"}
  Plugins = {"injector"}
  Helpers = {"ask"}
  GatedTools = {"muse"}
  Files = {"f1"}
  PluginFiles = {"index"}
  None = None
  FileOf <- MCFileOf
  PluginOf <- MCPluginOf
  FilesOf <- MCFilesOf
  MaxRev = 2
  ManifestAt <- MCSharedManifests
  Builtin <- MCSharedBuiltin
  Attested = {"muse"}
  MaxEdits = 1
  Commands = {"tick"}
  UserModes = {"auto"}
PROPERTIES NoChurn Converges
