# A verification model of skillinject

skillinject keeps the Pilot skills installed in every agent tool of a host. A
daemon and the `pilotctl skills` commands fetch a manifest and its content from
upstream, compare them with what is on disk and write what differs: skill copies,
marker blocks in the tools' heartbeat files, plugin files, an entry in
`openclaw.json`, helper executables, and gated copies. The user owns several of
those files too, edits them at any moment and may opt out. This directory holds
TLA+ modules translated from the Go sources, TLC configurations that check them
on small hosts, and TLAPS proofs for any host.

Line numbers below refer to the files of the package (`skillinject.go:193` is
line 193 of that file).

## 1. Inventory

| Component | State it keeps | Operations | Modelled in |
|---|---|---|---|
| Atomic file replacement (`writeFile`, `writeHelperMaybe` in `reconcile.go`; `writeFileAtomic` in `plugin_allowlist.go`; `writeGatedSkill` in `gated.go`) | a directory entry, temp names, inodes | open, write, chmod, rename, give up | `AtomicFile`, `WholeFile` |
| Reconciler (`skillinject.go`, `state.go`) | everything on disk, the cached manifest; per pass: manifest, SKILL.md, owners of heartbeat files | `Tick`, `ForceTick`, `Plan` | `SkillInject` |
| Uninstaller (`uninstall.go`) | the same | `Uninstall` | `SkillInject` |
| Retired surfaces (`retired.go`) | built-in list, list of the manifest | prune at the end of a pass, prune of a disabled pass | `SkillInject`; the plugin in `PluginConfig`, the strip in `MarkerFile` |
| Service (`service.go`, `Run`) | a goroutine per `Start`, the fields `cancel` and `done`, `tickMu` | `Start`, `Stop`, ticker, panic boundary | `Service`; as one loop in `SkillInject` |
| Settings (`config.go`) | `~/.pilot/config.json` | `GetMode`, `SetMode`, `SetUpdateConfig` | `ModeConfig` |
| Plugin configuration (`plugin_allowlist.go`, and its undoing in `uninstall.go`, `retired.go`) | `openclaw.json`, its `.pilot-bak`, the plugin's files | merge, verify, roll back; restore or inverse merge; retire | `PluginConfig`; one item of a pass in `SkillInject` |
| Marker blocks (`reconcile.go`) | the user's heartbeat files | find, splice, strip, replace | `MarkerFile`; one item of a pass in `SkillInject` |
| Gated tools (`gated.go`) | marker files, copies in the user's skill directories | parse and compare the marker, install when attested, remove | `GatedTool`; one item of a pass in `SkillInject`, the write in `AtomicFile` |
| Fetcher (`manifest.go`) | the cached manifest | fetch, verify against `.sig`, retry once, cache | `Fetch`, composed in `Service` |
| Proxy (`proxy.go`) | credentials | how a refusal is recognised and waited out | `Fetch`; the client itself is not modelled |
| Formats (`skillformat.go`) | none | SKILL.md to a tool's dialect | `SkillFormat`, used by `GatedTool` |
| Stub (`service_disabled.go`) | none | none | not modelled |

How they interact. `Run` (the daemon) and the commands call the same `tick`; a
mutex, `tickMu`, serializes the passes of one process, nothing serializes two
processes, and `Uninstall` takes no lock at all. `tick` asks `GetMode` once,
fetches the manifest and SKILL.md, then walks its surfaces one by one: helpers,
per tool the skill copy, the marker block, the plugin files and the plugin's
trust, then gated copies, then the retired surfaces. Every write ends in one of
the atomic replacements. Several tools may resolve to one heartbeat file, so a
pass remembers which tool owns it.

What is hard here, and what makes each part correct:

* **Replacement.** Crashes leave temps behind, the fixed temp name is shared by
  processes, permissions come from the umask. A reader must find a whole file,
  executable from the moment it has its name.
* **Reconciler.** Passes mix revisions when upstream publishes between two
  fetches; fetches fail one by one; two processes interleave. The host must end
  up at the published revision, and stay there without rewriting anything.
* **Opt-out.** The mode changes under a running pass. No pass may begin to
  install after the opt-out.
* **Uninstall.** It knows only the manifest it loads; what an earlier revision
  installed is found through the retired lists.
* **Settings.** Read-modify-write of a file others write too, in three formats.
* **Plugin configuration.** The user's settings must survive every edit, the
  backup has to be there before the file is replaced, an Uninstall has to leave
  the id untrusted, and a retired plugin's files have to outlast its id.
* **Marker blocks.** The user's text must survive whatever delimiters they
  deleted, doubled or left behind, and the released binary may tick the same home.
* **Service.** A `Stop` may give up, a pass panic, the daemon crash: loops must not
  pass at the same time, must end when cancelled, and catch up when not.
* **Fetcher.** A body and its signature are two requests, credentials rotate
  between any two: what is installed has to be what was signed.
* **Gated tools.** Files in the user's own directories are written and deleted on the
  word of a marker, which may be anything, and may change under a turn.
* **Formats.** Whatever frontmatter is published, Muse must load the copy.

`PROJECT.json` lists each hazard at its line with the properties that would catch it. Where the code has no
defence, so that a property can only leave the case out, the hazard names none and a note says which step of the model it is;
section 5 has these cases.

## 2. Modules

### WholeFile, AtomicFile

`WholeFile` is the promise: a register that one step sets to a value some writer
wanted, or leaves alone. `AtomicFile` is the routine, in its three forms:
`plain` (`writeFile`, `writeFileAtomic`: temp `path.tmp`, `O_TRUNC`), `helper`
(the same and a chmod by name before the rename) and `gated` (a temp with a
random name and `O_EXCL`, chmod on the descriptor, removed on failure). `dir`
maps names to inodes, `content` inodes to their pieces, `exec` says whether an
inode has the permissions asked for, and per writer there are the program
counter, the wanted content, the temp name, the descriptor and the next piece.
`OpenNew` and `OpenExisting` are the two outcomes of the open, `WriteChunk` a
`write(2)`, `Chmod`, `RenameTmp`, `Crash` (the process dies, the temp stays), and
`OpenFails`, `WriteFails`, `StepFails` the error returns with the cleanup that
each variant does, or does not do. Umask is a choice at the creation of an inode.

### SkillInject

A *pass* is a process's run of `tick` or `Uninstall`. Its control points are the
blocking ones of the code: the mode check, the fetch of the manifest, the
caching of it, the fetch of SKILL.md, then a work list with one item per surface.
`TickWork`, `UninstallWork`, `OfflineWork` and `RetiredWork` build that list from
the manifest in the order the code walks it. One action takes one item:

| Actions | Code |
|---|---|
| `ReadMode` | `skillinject.go:208-227`: a disabled tick only prunes; a dry run goes on |
| `FetchManifest`, `FetchManifestFails` | `manifest.go:369-389`; without it a tick ends, and `Uninstall` takes the cached one (`uninstall.go:201-220`) |
| `CacheManifest`, `FetchEntry`, `FetchEntryFails` | `skillinject.go:236-250` |
| `SkipTool`, `PassOver` | a tool without its root directory; the rest of a skipped tool's items |
| `Skill`, `Marker`, `MarkerShared`, `MarkerFails`, `PluginFile`, `Trust` | `skillinject.go:308-375`, `399-535` |
| `Helper`, `FetchFails`, `Gated` | `skillinject.go:272-306`, `gated.go:265-330` |
| `RemoveSurface` | `retired.go:300-389`, and each removal of `Uninstall` |
| `Start`, `CheckMode`, `Ticker`, `Down` | `service.go:40-69`, `skillinject.go:105-146` |
| `Command`, `Killed` | a pilotctl process starts a pass, or is killed in it |
| `Publish`, `NetChanges`, `SetMode`, `UserEdits`, `ToolComesOrGoes` | the world |

`disk` maps a location (a skill copy, a heartbeat file, ...) to what is there:
nothing, something the user altered, the copy of a revision, a block with its
owner and the two revisions it was rendered from, a trusted id. Upstream content
is its revision; each fetch reads the one published at that moment, so a pass
mixes revisions as the code does. `classify` then `write unless identical` is one
step: what a crash does inside a write is `AtomicFile`'s subject, and a surface
that cannot be written does not occur. The one history variable is a pass's
`alone`, whether an `Uninstall` met no other pass.

### ModeConfig

`file` is `config.json`: missing, not JSON, the literal `null`, an object, or an
object with something after it; an object has the keys `skill_inject`, `update`
and one this package does not know. `SkillValues` are the values of
`skill_inject` that `GetMode` tells apart: the three modes, the legacy flag on
and off, an object with neither, a value of another type. `Read` is the first
half of `SetMode` or `SetUpdateConfig` (read, replace the key in memory),
`Commit` the rename, `GiveUp` the error returns or the process's death.
`json.Decoder`, which `GetMode` uses, reads an object and ignores what follows;
`json.Unmarshal`, which the setters use, refuses such a file and starts from an
empty object (`Decoded`, `Unmarshalled`). On the literal `null` the setters'
map becomes nil and the assignment panics, so `Read` is not enabled there.
`missed` is a history variable: the keys somebody wrote since the caller read.
Two callers that share the temp name are the `plain` variant of `AtomicFile`.

### PluginConfig

`cfg` and `bak` are `openclaw.json` and its `.pilot-bak`: missing, parseable or
malformed; what the allow-list and the entries say of our id; what the user set;
and whether a number is among it that a float64 cannot hold, and has been through
one. `files` are the plugin's files: absent, live, or the stub. `op` is where each
process is in one of the three operations, and what it read:

| Operation | Steps | Code |
|---|---|---|
| install | `InstallFiles`, `Classify`, `MergeRead`, `Backup`, `Swap`, `Verify`, `RollBack` | `skillinject.go:458-535`, `plugin_allowlist.go:103-202` |
| uninstall | `RemoveFiles`, `UnlistRead`, `Choose`, `Restore` or `InverseMerge`, `ForgetBackup` | `uninstall.go:151-183`, `286-361` |
| retire | `Look`, `DropRead`, `Rewrite`, `DeleteFiles`; or `Neutralize` | `retired.go:334-423`, `475-558` |

`GiveUp` is each error return in between and the process's death. The check of the
merged bytes before they are written (`plugin_allowlist.go:157`) cannot fail and has
no step. `MergeRead` leaves the backup out when the merge would change nothing;
whether the bytes differ in layout only is a choice. `stale` is a history variable:
did anybody else write one of the two files since the process last read.

### MarkerFile

A text is a sequence of tokens: the begin of a block (with its `hash=` and `r=`), the
`-->` that ends it, the end of a block, newlines, bodies, and the user's lines, one
of which contains a `>` and one mentions the begin token. `FindMarkers` is the scan
of `reconcile.go:152-195`, a recursive function of the position; `WithBlock` and
`WithoutBlocks` are the next contents of `writeMarker` and `stripMarkerFile`. They are
compared with `Blocks`, which says by quantifiers what a block is. Above the texts is
the file: `Tick` or `Strip` starts an operation of a process, `Classify`, `Read`,
`Stat`, `Swap` and `Chmod` are its steps, and `GiveUp` an error return or the
process's death. `OldTick` is a whole pass of the released binary, whose regular
expression `zz_mixed_binary_test.go` keeps; the user saves (one deletion or insertion
anywhere) and changes permissions between any two steps. `mode` says whether the file has the
permissions the user gave it; the temp that `Swap` puts there is 0600. What `OldTick` puts in
place of a file has the permissions of a new one: that the stand-in in the test writes into the file is
the test's shortcut, the released binary renamed (`CHANGELOG.md:93-96`). History
variables: `users`, what of the text was the user's when they last saved, and `spoilt`, whether something that can
lose the permissions has come since the user set them: a pass of the released binary, a crash or another process's stat
between a rename and its chmod, a chmod of the user's between `Stat` and `Chmod`. A chmod while nobody is
there makes it false again, so `ModeKept` also speaks of what follows a loss.

### Fetch, Service

`Fetch` is one resource fetched by one client: `fetch[c]` holds the request it is at
(body or signature, first or second try) and the body. `Send`, `Answer`, `Refused`
(407), `Garbled` (an answer that `net/http` cannot parse), `Waited`, `Fails` and
`Aborted` are the steps of `get` and `do`; `Publish`, `Rotate` and `Refresh` happen
between any two. `config` is what the fetcher was set up with and meets: a key, none,
or one that is refused; the refreshing client; and revisions whose manifest is
broken or whose SKILL.md is over the body limit.

`Service` EXTENDS it with the daemon: `Start`, `StopCalled`, `StopReturns`, `StopDeadline`,
`ContextEnds` and `Killed` are its calls; each `Start` has a goroutine with `Enter`,
`Lock` (`tickMu`), the pass (`ReadMode`, `FetchOn`, `FetchFailed`, `CacheManifest` in two steps
since `writeCache` truncates first, `Install`), `CheckMode`, `TickFires`, `Leave`, `Exit` and `Panic`,
which runs the deferred calls. `done` is the channel of a goroutine: the code reads the field
in the goroutine and not in `Start` (`service.go:46`), so a second `Start` may come
first; `rushed` is the history of that. The pass installs SKILL.md only: the rest is
`SkillInject`'s, whose passes in turn fetch in one step.

### SkillFormat

The operators of `skillformat.go` in its order: `ExtractDescription`, `Squeezed`, `Unquoted`,
`Shortened`, `Escaped`, `MuseSkillMD`. A text is a sequence of characters of eight classes
(a blank, the two quotes, the backslash, `n`, `#`, a control character, any other); tabs
and carriage returns are blanks, `\t` is `\n`. The reference is `LoadLine`, what a YAML
loader makes of a scalar on one line, read from left to right where the code
replaces one kind of escape after another. The scans are recursive functions of the position, which the proofs can
unfold, as folds cannot be.

### GatedTool

One gated tool on one host. A turn is what `tick` or `Uninstall` does about it:
`Begin`, `Regular` (what was done before about a regular tool that may keep its copy at the
same path), `ReadMarker` or `NoMarker`, `Resolve` or `Inactive`, `Look` or
`NothingToDo`, `Recheck` or `RecheckFails` (`writeGatedSkill` looks for links again), `Install` or
`Delete`; `TurnFails` is an error return or the process's death. A marker is missing, odd (no
regular file, too large), or a sequence of lines: skipped, bare, or a setting. A
path is where it starts (`~`, `/`, relative) and its names, `..` among them; `Links` maps
linked directories. `Documented` says of a marker, in the words of the package comment
(`gated.go:18-66`), that it turns the tool on; `turn[p].grounds` is the history of it. The user
or the installer writes the marker or the copy, or removes the folder, between any two steps. The
replacement is atomic here: `AtomicFile`'s `gated` variant is about the rest.

### The instances

`MCAtomicFile`, `MCSkillInject`, `MCPluginConfig`, `MCModeConfig`, `MCMarkerFile` and
`MCService` give the hosts, manifests, files and settings of the runs. `GatedHosts` has
the hosts of `GatedTool`. `MCPilotFiles` is the disjoint union of two state machines that
share no variable, `ModeConfig` and `GatedTool`: a behaviour chooses in its first state which
of the two files below `~/.pilot` it is about, and leaves the other alone.

## 3. Runs

| Run | Shows |
|---|---|
| `atomic` | one writer with the fixed temp name, or two with temps of their own, crashes and failures: the target is whole, executable, changed by renames only, and `WholeFile` is implemented |
| `atomic_shared` (violated) | two processes with the fixed temp name rename each other's half-written temp: `NoTornTarget` fails, against "no torn writes" (`plugin_allowlist.go:92-93`) |
| `opt_out` | all three commands beside the daemon while the mode changes freely: `OptOutHolds`, a preview changes neither a surface nor the cached manifest (`PlanLeavesSurfaces`), and `UninstallClean` |
| `uninstall` | a manifest that drops a tool with a plugin, outages, and a pilotctl that ticks, perhaps from an older revision, and uninstalls: the daemon converges (`Converges`), and an `Uninstall` that met no other pass leaves only skill copies of tools the manifest dropped and, if it worked offline from a cache that an older tick had overwritten, what came with the newer manifest (`UninstallClean`) |
| `rivals` | two tools on one heartbeat file, whose order the next manifest swaps and which the built-in list retires, the user interfering once, and a pilotctl that may write an older revision over the newer one: an up-to-date host is left alone (`NoChurn`) and the host converges |
| `pilot_files` | `config.json`: two processes and a user who leaves any file behind; only overlapping calls lose updates, and a mode that was set is what `GetMode` reads. A gated tool: it changes files only on a marker that says so line for line (`OnlyAttested`), one undisturbed tick settles the file for good (`NoRewriting`), and Muse loads every copy with the description published (`CopyLoads`) |
| `plugin_config` | installs, uninstalls and retirements of two processes on one `openclaw.json`, with failures, crashes and a user who saves twice: edits keep the user's settings (`KeepsSettings`), `BackupFirst`, `UninstallUntrusts`, `RetiredFilesLast` |
| `plugin_restore` (violated) | Uninstall restores the backup over what the user set after the install, against `uninstall.go:283-285` |
| `plugin_numbers` (violated) | one merge passes the user's numbers through float64, against `plugin_allowlist.go:85-87` |
| `marker_file` | a daemon, a pilotctl that installs and strips, the released binary and a user who saves: the scan finds the blocks (`FindsBlocks`), nobody's line is lost (`KeepsUsersPart`, `TidyTextSurvives`), installing and stripping does not grow the file (`CycleSettles`), passes and strips of the new release keep its permissions (`ModeKept`), and it settles at one current block (`Heals`) |
| `marker_orphan` (violated) | stripping the block between an orphaned begin and a stray end makes the two a block, and the next rewrite deletes the user's lines in it, against `reconcile.go:155-158` |
| `service` | two Starts, the second perhaps after a `Stop` that gave up, one panic, crash, outage, rotation or change of mode, and publications anywhere: `OnePass`, `StopMeansOver`, `LateTickIsEmpty`, `Genuine`, `OneRotationSurvived`, and as liveness `CancelledEnds` and `CatchesUp` |

`OptOutHolds` is what the code gives the opt-out: no pass gets past the mode check any
more, and nothing appears once those that had passed it are over. A pass in flight does go
on installing, see section 5. `NoChurn` is about the steps taken from an up-to-date host
by passes that saw the published revision, `Converges` about getting there from
anywhere. `TidyTextSurvives` is `UsersTextSurvives`, which `marker_orphan` refutes, under the condition
that the user's last save left no orphans which the removal of a block would join.

Bounds, and why they are enough:

* `AtomicFile`: content of two pieces, so a half-written file exists; two
  contents, so a mixture does; an inode per name and per open descriptor.
* `SkillInject`: two processes, since a pass interacts with others only through
  the disk and the mode; two revisions, so a pass can mix them or be older than
  its rival; two tools, which share a file (`rivals`), or of which one, with
  the plugin, goes and makes room for a third without a heartbeat file
  (`uninstall`); one plugin with one file. `MaxEdits` bounds the user to one intervention where
  there is one (none in `uninstall`, where pilotctl's ticks take its place), and `MaxRev` upstream; the mode,
  the network, commands and crashes are unbounded.
* `ModeConfig`: two callers, which is a lost update's number; every kind of file
  and five kinds of `skill_inject` value for the user to leave behind.
* `PluginConfig`: two processes; one setting of the user, which a write keeps or
  loses; two saves, so one can come before the install and one after, or both in
  the middle of operations; five files to save, one of them malformed and listing
  us.
* `MarkerFile`: two processes and the released binary; four first files with each kind of
  token; one save (`MaxEdits`), which together with the first files gives texts with an orphan,
  a stray end and two blocks; one other event (`MaxEvents`): a strip, a crash, a chmod or a
  publication.
* `Service`: two Starts, so that the second can meet the goroutine of the first; two revisions,
  of which the first may be broken, so there is skew between a body and its
  signature; one event. Ticks are unbounded.
* `GatedTool`: the good row under every marker and every row under its good marker, with one
  intervention, and two for the good pair; every description of up to three characters, the quoted
  ones of up to four, and those of eight characters (`MaxDescription` is 7), under the good pair with none.

Deadlock is checked in every run but `service`, where the system may really stop: with
both loops over and `Stop` returned nothing is left to happen.

Fairness:

* `SkillInject`: `WF(Step(Daemon))`, the goroutine that is in a
  pass gets on with it (its fetches have deadlines and so end, one way or the
  other); `WF(CheckMode)` and `WF(Ticker)`, the code after the first pass runs and
  the ticker's channel fires. Nothing is assumed of pilotctl, which may be stopped
  or killed in any pass, of the user, the network or upstream: `Converges` has as
  hypothesis that from some moment on the network is up, the mode is auto, the
  daemon is in its loop and nobody uninstalls.
* `MarkerFile`: the daemon goes on ticking and gets on with each operation; nothing of
  the others. `Heals` has as hypothesis that pilotctl is done with the file in the end. The user,
  strips and publications are bounded; the released binary may tick for ever.
* `Service`: each goroutine's steps are weakly fair, and `Lock` and `Leave` strongly: Go's
  mutex does not starve a waiter, and a `select` chooses at random among what is ready.
  `Refresh` is weakly fair: the resolver has an interval. Nothing is assumed of `Start`,
  `Stop` or upstream.

## 4. Proofs

For every value of the constants that the named assumptions allow:

* `AtomicFile_proofs`: `TypeCorrect`, `Untorn`, `ModeBeforeName` (invariants), `OnlyRename` (an
  action property) and `Refinement` (`AtomicFile` implements `WholeFile`). They
  hold while no two writers share a temp name, which is the assumption
  `NoSharedTemp` (a single writer, or the gated variant); `atomic_shared` shows
  it is needed. The invariant says that a descriptor's inode is the one under its
  writer's temp name and under no other, and that the pieces before the next one
  are the wanted ones; the pieces are then all there at the rename.
* `SkillInject_proofs`: `TypeCorrect`, `OptOut`, `PlanLeaves`, `UninstallIsClean` and `NothingChurns`, from
  `ConstantsAssumption`, `ManifestAssumption` (the types of what manifests name) and
  `RetirementAssumption` (a manifest that drops a surface lists it as retired, as the publishing side does). What is on a
  work list is proved from the manifest (`TickItems`, `UninstallItems`), in whatever order the code walks it.
  Two facts make the first invariant, `IInv`, inductive: `RemovalsOnly`, the list of a disabled pass or of an
  `Uninstall` has removals only, so that no step of it makes anything appear; and `Ordered`, what the
  control points say about the kind of the pass and what it has fetched. `UninstallIsClean` adds, in `UInv`, that all
  that is on disk is managed by a revision up to the newest any pass has cached (`Installed`), and that a lone `Uninstall`
  has everything of those still on its list, or gone (`Removing`). `NothingChurns` adds, in `NInv`, that the markers left
  on a tick's list stand in the order of the manifest's tools (`AllInTurn`), so that the tool that takes a shared file is
  the one whose block is there.
* `ModeConfig_proofs`: `TypeCorrect`, `OverlapOnly` and `ModeIsRead`. `ViewsCurrent`, what a
  caller carries of the keys it does not miss is what the file holds, is the
  strengthening; the history `missed` is what makes it expressible.
* `PluginConfig_proofs`: `TypeCorrect`, `SettingsKept`, `BackupComesFirst`, `Untrusted`,
  `FilesLast`. The invariant is `SeenCurrent` (unless stale, what a process goes by
  is what the file holds, and a rollback is never reached), `SeenSound` (what it is
  about to write parses; a snapshot about to be restored is free of the id) and
  `Saved` (the backup is there). It is stated for one process's record and the two
  files, so that a step of another process needs one lemma, `OthersHold`: whoever
  changes a file makes the rest stale.
* `MarkerFile_proofs`: what the text operators compute, for every text, and with it every safety property of the run.
  `FindMarkersRight`: the scan, which jumps from block to block, orphan or end, returns exactly `Blocks`, from left
  to right; its invariant is that from each position on it finds the blocks that begin there or later. `TypeCorrect`,
  `ScanFindsBlocks` and `LinesKept` follow with what a splice leaves: of any set of tokens but newlines exactly those
  outside of every block, in order (`RewritesKeep`, the induction over the gaps between blocks is `SpliceKeeps`).
  `TidyTextIsKept` needs the invariant `TidyInv`: as long as the text the user saved has no joinable delimiters, the file
  has none and the same user's part. `RewritesKeep`, taken for the delimiters, is what keeps it: a rewrite puts
  delimiters next to each other only in the order in which they stood outside, so it makes no begin before an end, and
  around the one block it writes there is none to be paired with (`OneBlock`). `CyclesSettle`: a cycle turns a text without
  blocks into its `Margin` (the text without trailing newlines, and a blank line), and the margin of a margin is itself.
  `ReplacesWhatItRead` says that what is renamed over a file nobody saved since is `WithBlock` or `WithoutBlocks` of the very
  text it replaces, which carries those facts over to the file; and `ModeSurvives` has as invariant `NotesMode`: unless
  spoilt, whoever is between `Stat` and `Chmod` has noted the permissions the user wants. It says so of
  the new release only, see section 5.
* `Service_proofs`: `TypeCorrect`, `PassesAlone`, `StopSeesTheEnd`, `LateTicksAreEmpty`,
  `InstallsGenuine`, `SurvivesARotation`, `ClosesOnce`, for any number of Starts, revisions and events, and any configurations.
  The invariant relates a goroutine's place to its fetch (`LoopInv`), a fetch's try and reason
  to the rotations since (`FetchInv`), and closed channels to the loops that are over (`ChannelInv`).
* `GatedTool_proofs`: `TypeCorrect`, `SettledStays`, `AttestedOnly`, `CopiesLoad`. A quiet host is one where only ticks run
  since one ran undisturbed; `QuietInv` says that each of its turns goes by the world as
  it is, and that the file is then what a tick would make of it, or nothing a tick would touch. `AttestedOnly` relates
  the parser to the package comment: `Parsed`, a recursive function of the lines read, accepts a marker only if it is
  `Documented`, and `Clean`, the same of the names in a path, keeps a prefix without `..` in front, so that a skill file
  is below its root. `GroundsInv` carries that along a turn.
* `CopiesLoad`, in the same module, is about what the chain of replacements makes of a published description, for a file
  of any length (`FormatAssumption`: the cap leaves room for the dots, and the default text is not empty).
  The state machine needs little, `CopyInv`: where no regular tool has its copy, the only copy is the one wanted.
  The rest is `MuseLoads` (whatever is published, the line written for it loads as the text that was to be written, which
  is `EscapedLoads`) and `MuseKeeps` (a value on one line that could be read before, and fits, reads the same, blanks aside). For these each
  scan, `ReplacePair`, `ReplaceChar`, `Squeezed`, `LoadDouble` and `LoadSingle`, becomes equations on the
  first one or two characters (`PairValue` to `CharValue`). `DoubleInduction` is induction along what a loader accepts, a
  character or an escape at a time; by it the replacements, one kind of escape after the other, undo each escape
  once (`UnescapeLoads`, where the mark for `\\` matters), and squeezing the blanks of what is between
  the quotes changes nothing but blanks (`CollapsedDouble`). `LineKept` puts the three cases together:
  a plain scalar is squeezed and nothing else, one in quotes loads as before.
* `SequenceFacts`: what the others need of sequences and recursion: recursive functions that count up
  (`RecursionSolved`) or jump through a sequence (`ScanSolved`) are what their equations say; a scan from the end, whose value
  at a position comes from the next one or two, has one solution, which depends on the rest of the sequence only
  (`ScannedValue`, `ScanningScans`); what `FlattenSeq` does to appending, joining and the order of elements.

Inductions over data are proved from the well-founded order of the naturals: `LeastNat` takes the least number at which a
claim fails out of `WFMin` and `NatLessThanWellFounded`, with the order as a defined relation, and `InductionUpTo`,
`InductionDownFrom` and, for sequences, `ConsInduction` follow from that, stated for a set, so that no
operator is a parameter.

Only model-checked: liveness (`Converges`, `CancelledEnds`, `CatchesUp`, `Heals`), which is beyond the
prover. Every invariant and every action property of the passing runs is stated by a theorem. `LoadLine` and the loaders
below it are this project's reading of YAML, on one line and of the escapes that the code writes; the proofs are
relative to it.

## 5. Observations with no run of their own

* `reconcilePluginFiles` caches the fetched plugin source even in a dry run
  (`skillinject.go:481`), though `Plan` "writes nothing to disk"
  (`skillinject.go:181-183`). Nothing reads that copy again.
* `Run` looks at the mode once, after its first pass (`skillinject.go:130`): a
  daemon in its loop goes on ticking when the mode becomes manual, and one that
  started disabled or manual does not tick again before a restart when it becomes
  auto.
* A tool that the manifest drops keeps its skill copy through `Uninstall`, though
  `uninstall.go:78-79` says it "removes every file/marker the daemon has ever
  written": the retired lists have no skill copies. And a tick that fetched an older manifest than another process's may
  cache it over the newer one; an `Uninstall` that works offline from that cache leaves what came with the newer.
  `UninstallClean` states both exceptions.
* `SetUpdateConfig` "updates only the update key" (`config.go:189-190`), and with a
  `SetMode` overlapping takes the mode back to what it read; `OnlyOverlapLoses`
  states that it takes an overlap.
* An install trusts the id also when the plugin's files could not be fetched, and
  `Uninstall` deletes the files before it edits the configuration, so a
  configuration it cannot edit goes on trusting an id with no files, which
  `retired.go:345-347` avoids.
* Retiring a plugin leaves `.pilot-bak` (`retired.go:499-500`), and an `Uninstall`
  after that has no plugin to remove it for.
* `mergePluginAllowList` replaces an allow-list or entries value of another type
  than it expects, and its checks see the top-level key only.
* `defaultMode` (`config.go:31-32`) is manual and documented as the mode when
  nothing is persisted, and `GetMode` returns auto then, as its own comment says.
* An object with something after it has a mode for `GetMode` and none for the
  setters, so a `SetUpdateConfig` alone undoes an opt-out kept in such a file; and
  both setters panic on a file that holds `null`.

* A pass that was past its mode check installs after the opt-out; what `skillinject.go:208-209` says of the
  disabled mode holds from the next pass on.
* After the last `Stop` or a recovered panic no loop ticks until the next `Start`: `RecoverPlugin` ends the
  goroutine, and the daemon runs on without skills.
* The goroutine reads the field `done` when it is scheduled (`service.go:46`). If the next `Start` has come
  by then, two goroutines close one channel, outside the panic boundary: `Exit` has that step. `StopMeansOver` and
  `CancelledEnds` leave the case out (`rushed`); `ClosesOnce` states that nothing else leads to it.
* Each tick tears the cached manifest for a moment, so an offline `Uninstall` may find a torn one;
  the comment that there is "currently no fallback" that reads the cache (`manifest.go:469-470`) is out of date.
* Without a key a SKILL.md over the body limit is installed cut (`manifest.go:356`).
* An edit of the user's inside a block stays until the next publication: `classifyMarker` compares hashes in
  the begin only.
* A crash between the rename and the chmod of `writeUserFile` leaves the heartbeat file 0600
  (`reconcile.go:340-343`), as does another process that takes its stat just there; the comment "keeps an existing file's mode"
  (`reconcile.go:323-326`) does not speak of that, and later passes keep the 0600. A pass of the released binary that rewrites the
  file also loses its permissions, and replaces a link by a copy. `ModeKept` leaves these out (`spoilt`).
* What the user or the tool saves between the read and the swap of `openclaw.json`, of a heartbeat file or of a
  rollback is lost (`plugin_allowlist.go:112` and `192`, `reconcile.go:244`). The models have these steps; `KeepsSettings` and
  `KeepsUsersPart` are about what was read (`stale`).
* A pass that overlaps with an `Uninstall` writes surfaces back behind it (`uninstall.go:99`). `OptOutHolds` says that
  the mode set afterwards stops further ones; those that are back stay, and `UninstallClean` leaves the overlap out (`alone`).
* Two new processes that write from stale reads and the released binary can, in an adversarial schedule, swap an
  orphan in and out for ever; `Heals` therefore asks that pilotctl is done in the end.
* A description in a block scalar whose whole text is in quotes loses them, and one in quotes with blanks only is
  not replaced by the default (`skillformat.go:203-219`). The cut counts bytes, so it may split a character, and counts them
  before escaping.
* Two gated rows on one path are not told apart by `taken`, which knows the regular tools only (`gated.go:303`).
* A crash of `writeGatedSkill` leaves a temp with a random name that nothing removes (`gated.go:479`).

## 6. Not modelled

Power loss (nobody fsyncs); a surface that cannot be read or written in a pass of `SkillInject`; how the
refresh command and the proxy's address are found, the HTTP client and URLs; which of the key sources wins and
how keys are decoded; the rendering of heartbeat templates; `validIdentifier`, and links on the way to a gated copy
other than the copy itself; the pruning of empty directories after an uninstall; values of an unexpected type on the
way to the allow-list; the build without the service, in which every method does nothing.

## 7. Plan

The modules of the plan are there: `WholeFile`/`AtomicFile`, `SkillInject`, `PluginConfig`, `ModeConfig`, `MarkerFile`,
`Fetch`/`Service`, `SkillFormat`/`GatedTool`, each with its proofs (`SkillFormat`'s are `GatedTool`'s). What is left:

1. Failing reads and writes of a surface in a pass of `SkillInject`, with `Converges` over them.
2. Of `SkillInject`, a proof that the owner of a heartbeat file is one of the pass's manifest and does not change
   within a pass.
3. A refinement of `SkillInject`'s one-step fetch by `Fetch`, and of its marker item by `MarkerFile`.
4. More of a gated copy's path: directories that are links, and the entrypoint directory that goes with the copy.
