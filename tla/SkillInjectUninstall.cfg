\* A manifest that drops a tool with a plugin, outages, and a pilotctl that ticks,
\* perhaps from an older revision, and uninstalls, online or from the cached manifest.
SPECIFICATION Spec
CONSTANTS
  Procs = {d, ctl}
  Daemon = d
  Tools = {"openclaw", "openhands"}
  Plugins = {"injector"}
  Helpers = {}
  GatedTools = {}
  Files = {"f2"}
  PluginFiles = {"index"}
  None = None
  FileOf <- MCFileOf
  PluginOf <- MCPluginOf
  FilesOf <- MCFilesOf
  MaxRev = 2
  ManifestAt <- MCManifests
  Builtin <- MCBuiltin
  Attested = {}
  MaxEdits = 0
  Commands = {"tick", "uninstall"}
  UserModes = {"auto"}
PROPERTIES UninstallClean Converges
