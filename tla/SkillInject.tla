----------------------------- MODULE SkillInject -----------------------------
(***************************************************************************)
(* The reconciler: passes over the host's surfaces by the daemon (service. *)
(* go, Run) and by pilotctl processes (ForceTick, Plan, Uninstall), while  *)
(* the user edits the same files, flips the mode and installs tools, and   *)
(* upstream publishes new manifests.  tickMu is per process, so a process  *)
(* runs one pass at a time and passes of different processes interleave.   *)
(*                                                                         *)
(* A pass is a work list: one item per surface, in the order of the code,  *)
(* each item one atomic classify-and-write (AtomicFile is the write).      *)
(* Upstream content is its revision: a manifest, SKILL.md, templates,      *)
(* plugin sources and helpers of one revision belong together, but every   *)
(* fetch reads whatever is published at that moment.                       *)
(***************************************************************************)
EXTENDS Naturals, Sequences, SequencesExt

CONSTANTS
    Procs,       \* processes that run passes
    Daemon,      \* the one that runs Run's loop
    Tools, Plugins, Helpers, GatedTools,
    Files,       \* heartbeat files, after canonicalPath
    PluginFiles,
    None,        \* no tool, no file, no plugin
    FileOf,      \* tool -> its heartbeat file, or None
    PluginOf,    \* tool -> its plugin, or None
    FilesOf,     \* plugin -> sequence of its files
    MaxRev,      \* upstream revisions
    ManifestAt,  \* revision -> [tools, helpers, gated, retired]
    Builtin,     \* the built-in retired list [markers, plugins, helpers]
    Attested,    \* gated tools whose marker under ~/.pilot names them
    MaxEdits,    \* bound on the user's interference
    Commands,    \* what pilotctl is asked to do: a part of Kinds
    UserModes    \* modes the user sets: a part of Modes

Revs == 1..MaxRev
Modes == {"auto", "manual", "disabled"}
Kinds == {"tick", "plan", "uninstall"}

Locs == ({"skill"} \X Tools) \cup ({"marker"} \X Files) \cup ({"file"} \X PluginFiles)
        \cup ({"trust"} \X Plugins) \cup ({"helper"} \X Helpers) \cup ({"gated"} \X GatedTools)

\* What can be at a location: nothing, the user's alteration, a copy of a
\* revision, a marker block (tool, SKILL.md hash, template), a trusted id.
Absent == <<>>
Altered == <<0>>
Trusted == <<0>>
Copy(r) == <<r>>
Block(t, skill, tmpl) == <<skill, tmpl, t>>
Contents == {Absent, Altered} \cup {Copy(r) : r \in Revs}
            \cup {Block(t, s, m) : t \in Tools, s \in Revs, m \in Revs}
-----------------------------------------------------------------------------
(***************************************************************************)
(* Work lists.                                                             *)
(***************************************************************************)
Item(do, loc, t) == [do |-> do, loc |-> loc, tool |-> t]
Items == [do : {"marker"}, loc : {"marker"} \X Files, tool : Tools]
         \cup [do : {"skill", "file", "trust"}, loc : Locs, tool : Tools]
         \cup [do : {"helper", "gated", "rm"}, loc : Locs, tool : {None}]

ForEach(s, Op(_)) == FlattenSeq([i \in DOMAIN s |-> Op(s[i])])
Rm(loc) == Item("rm", loc, None)

PluginFilesOf(t) == IF PluginOf[t] = None THEN <<>> ELSE FilesOf[PluginOf[t]]

\* A tool with no heartbeat file gets its skill copy only.
ToolWork(t) ==
    <<Item("skill", <<"skill", t>>, t)>> \o
    IF FileOf[t] = None THEN <<>>
    ELSE <<Item("marker", <<"marker", FileOf[t]>>, t)>> \o
         ForEach(PluginFilesOf(t), LAMBDA f : <<Item("file", <<"file", f>>, t)>>) \o
         IF PluginOf[t] = None THEN <<>>
         ELSE <<Item("trust", <<"trust", PluginOf[t]>>, t)>>

ActiveFiles(m) == {FileOf[t] : t \in ToSet(m.tools)}
ActivePlugins(m) == {PluginOf[t] : t \in ToSet(m.tools)}

\* The built-in list comes first; what both name is kept once.
Merged(a, b) == LET both == a \o b IN
    FlattenSeq([i \in DOMAIN both |-> IF \E j \in 1..(i - 1) : both[j] = both[i] THEN <<>> ELSE <<both[i]>>])

\* collectRetired and applyRetired: what m still manages is skipped; of a
\* plugin the trust goes before the files.
RetiredWork(m) ==
    ForEach(Merged(Builtin.markers, m.retired.markers), LAMBDA f :
        IF f \in ActiveFiles(m) THEN <<>> ELSE <<Rm(<<"marker", f>>)>>) \o
    ForEach(Merged(Builtin.plugins, m.retired.plugins), LAMBDA p :
        IF p \in ActivePlugins(m) THEN <<>>
        ELSE <<Rm(<<"trust", p>>)>> \o ForEach(FilesOf[p], LAMBDA f : <<Rm(<<"file", f>>)>>)) \o
    ForEach(Merged(Builtin.helpers, m.retired.helpers), LAMBDA h :
        IF h \in ToSet(m.helpers) THEN <<>> ELSE <<Rm(<<"helper", h>>)>>)

\* Mutant: a tick removes nothing that is retired.
TickWorkUnretired(r) == LET m == ManifestAt[r] IN
    ForEach(m.helpers, LAMBDA h : <<Item("helper", <<"helper", h>>, None)>>) \o
    ForEach(m.tools, ToolWork) \o
    ForEach(m.gated, LAMBDA g :
        IF g \in Attested THEN <<Item("gated", <<"gated", g>>, None)>> ELSE <<>>)

TickWork(r) == LET m == ManifestAt[r] IN
    ForEach(m.helpers, LAMBDA h : <<Item("helper", <<"helper", h>>, None)>>) \o
    ForEach(m.tools, ToolWork) \o
    ForEach(m.gated, LAMBDA g :
        IF g \in Attested THEN <<Item("gated", <<"gated", g>>, None)>> ELSE <<>>) \o
    RetiredWork(m)

\* Uninstall looks at no root directory, and deletes a plugin's files
\* before its trust.
RemoveTool(t) ==
    <<Rm(<<"skill", t>>)>> \o
    (IF FileOf[t] = None THEN <<>> ELSE <<Rm(<<"marker", FileOf[t]>>)>>) \o
    ForEach(PluginFilesOf(t), LAMBDA f : <<Rm(<<"file", f>>)>>) \o
    (IF PluginOf[t] = None THEN <<>> ELSE <<Rm(<<"trust", PluginOf[t]>>)>>)

\* Mutant: Uninstall leaves the gated copies.
UninstallWorkUngated(r) == LET m == ManifestAt[r] IN
    ForEach(m.helpers, LAMBDA h : <<Rm(<<"helper", h>>)>>) \o
    ForEach(m.tools, RemoveTool) \o
    RetiredWork(m)

\* Mutant: Uninstall removes nothing that is retired.
UninstallWorkUnretired(r) == LET m == ManifestAt[r] IN
    ForEach(m.helpers, LAMBDA h : <<Rm(<<"helper", h>>)>>) \o
    ForEach(m.tools, RemoveTool) \o
    ForEach(m.gated, LAMBDA g :
        IF g \in Attested THEN <<Rm(<<"gated", g>>)>> ELSE <<>>)

UninstallWork(r) == LET m == ManifestAt[r] IN
    ForEach(m.helpers, LAMBDA h : <<Rm(<<"helper", h>>)>>) \o
    ForEach(m.tools, RemoveTool) \o
    ForEach(m.gated, LAMBDA g :
        IF g \in Attested THEN <<Rm(<<"gated", g>>)>> ELSE <<>>) \o
    RetiredWork(m)

\* A disabled pass: the built-in list and the cached manifest's, nothing active.
OfflineWork(cached) ==
    RetiredWork([tools |-> <<>>, helpers |-> <<>>, gated |-> <<>>,
                 retired |-> IF cached = 0 THEN [markers |-> <<>>, plugins |-> <<>>, helpers |-> <<>>]
                             ELSE ManifestAt[cached].retired])

Retirements == [markers : Seq(Files), plugins : Seq(Plugins), helpers : Seq(Helpers)]

ASSUME ConstantsAssumption ==
    /\ Daemon \in Procs
    /\ MaxRev \in Nat \ {0} /\ MaxEdits \in Nat
    /\ None \notin Tools
    /\ Commands \subseteq Kinds /\ UserModes \subseteq Modes
    /\ FileOf \in [Tools -> Files \cup {None}]
    /\ \A r \in Revs : ManifestAt[r].tools # <<>>  \* fetchManifest refuses it

ASSUME ManifestAssumption ==
    /\ PluginOf \in [Tools -> Plugins \cup {None}]
    /\ FilesOf \in [Plugins -> Seq(PluginFiles)]
    /\ ManifestAt \in [Revs -> [tools : Seq(Tools), helpers : Seq(Helpers), gated : Seq(GatedTools),
                                retired : Retirements]]
    /\ Builtin \in Retirements

\* "The surfaces released manifests installed and later dropped" (retired.go:
\* 83-84) are on the built-in list or on the retired list that comes with
\* the drop; skill and gated copies have no such list.
ASSUME RetirementAssumption ==
    \A r \in Revs : \A q \in 1..r :
        LET new == ManifestAt[r]
            old == ManifestAt[q]
        IN /\ ActiveFiles(old) \ {None}
                \subseteq ActiveFiles(new) \cup ToSet(Builtin.markers) \cup ToSet(new.retired.markers)
           /\ ActivePlugins(old) \ {None}
                \subseteq ActivePlugins(new) \cup ToSet(Builtin.plugins) \cup ToSet(new.retired.plugins)
           /\ ToSet(old.helpers)
                \subseteq ToSet(new.helpers) \cup ToSet(Builtin.helpers) \cup ToSet(new.retired.helpers)
-----------------------------------------------------------------------------
VARIABLES
    up,     \* published revision
    net,    \* can upstream be reached?
    mode,   \* what GetMode reads
    root,   \* tools whose root directory exists
    disk,   \* location -> content
    cached, \* revision of the cached manifest, 0 = none
    run,    \* Run's loop: "off", "first", "loop", "done"
    pass,   \* process -> its pass
    edits   \* user interference so far

vars == <<up, net, mode, root, disk, cached, run, pass, edits>>
env == <<up, net, mode, root, edits>>

Idle == [kind |-> "tick", pc |-> "idle", man |-> 0, body |-> 0, todo |-> <<>>,
         owner |-> [f \in Files |-> None], skip |-> {}, offline |-> FALSE, alone |-> FALSE]

Passes == [kind : Kinds,
           pc : {"idle", "mode", "manifest", "cache", "entry", "work"},
           man : 0..MaxRev, body : 0..MaxRev, todo : Seq(Items),
           owner : [Files -> Tools \cup {None}], skip : SUBSET Tools,
           offline : BOOLEAN, alone : BOOLEAN]

HostTypes == /\ up \in Revs /\ net \in BOOLEAN /\ mode \in Modes
             /\ root \in SUBSET Tools
             /\ disk \in [Locs -> Contents]
             /\ cached \in 0..MaxRev
             /\ run \in {"off", "first", "loop", "done"}
             /\ edits \in 0..MaxEdits

\* A pass that installs knows its manifest and its SKILL.md.
Informed(x) == x.pc = "work" /\ ~x.offline /\ x.kind # "uninstall"
               => x.man # 0 /\ x.body # 0

TypeOK == /\ HostTypes
          /\ pass \in [Procs -> Passes]
          /\ \A p \in Procs : Informed(pass[p])

Init == /\ up = 1 /\ net = TRUE
        /\ mode \in UserModes
        /\ root \in SUBSET Tools
        /\ disk = [l \in Locs |-> Absent]
        /\ cached = 0
        /\ run = "off"
        /\ pass = [p \in Procs |-> Idle]
        /\ edits = 0
-----------------------------------------------------------------------------
(***************************************************************************)
(* The world around the reconciler.                                        *)
(***************************************************************************)
Publish == /\ up < MaxRev
           /\ up' = up + 1
           /\ UNCHANGED <<net, mode, root, disk, cached, run, pass, edits>>

NetChanges == /\ net' = ~net
              /\ UNCHANGED <<up, mode, root, disk, cached, run, pass, edits>>

\* SetMode, by pilotctl: it takes no lock and looks at no running pass.
SetMode(m) == /\ mode' = m
              /\ UNCHANGED <<up, net, root, disk, cached, run, pass, edits>>

\* The user deletes one of our surfaces or overwrites a file of ours.
UserEdits(l) ==
    /\ edits < MaxEdits
    /\ disk[l] # Absent
    /\ \E c \in {Absent} \cup (IF l[1] \in {"skill", "file", "helper", "gated"} THEN {Altered} ELSE {}) :
          disk' = [disk EXCEPT ![l] = c]
    /\ edits' = edits + 1
    /\ UNCHANGED <<up, net, mode, root, cached, run, pass>>

\* A tool appears on the host, or goes (its home directory with it).
ToolComesOrGoes(t) ==
    /\ edits < MaxEdits
    /\ IF t \in root THEN /\ root' = root \ {t}
                          /\ disk' = [disk EXCEPT ![<<"skill", t>>] = Absent]
                     ELSE root' = root \cup {t} /\ disk' = disk
    /\ edits' = edits + 1
    /\ UNCHANGED <<up, net, mode, cached, run, pass>>
-----------------------------------------------------------------------------
(***************************************************************************)
(* Passes.                                                                 *)
(***************************************************************************)
Busy(p) == pass[p].pc # "idle"

\* A pass of p starts: a tick or a preview gets tickMu, Uninstall takes no
\* lock.  An Uninstall knows (history) whether it ran alone.
Begin(p, k) ==
    pass' = [q \in Procs |->
        IF q = p THEN [Idle EXCEPT !.kind = k, !.pc = IF k = "uninstall" THEN "manifest" ELSE "mode",
                                   !.alone = k = "uninstall" /\ \A x \in Procs : ~Busy(x)]
        ELSE [pass[q] EXCEPT !.alone = FALSE]]

\* A pilotctl command; the next one may come when this one is over.
Command(p, k) == /\ p # Daemon /\ ~Busy(p)
                 /\ Begin(p, k)
                 /\ UNCHANGED <<env, disk, cached, run>>

\* Mutant: a forced tick does not look at the mode.
ReadModeForced(p) ==
    /\ pass[p].pc = "mode"
    /\ pass' = [pass EXCEPT ![p].pc = "manifest"]
    /\ UNCHANGED <<env, disk, cached, run>>

\* GetMode, once, before anything else.  A dry run previews even when disabled.
ReadMode(p) ==
    /\ pass[p].pc = "mode"
    /\ pass' = [pass EXCEPT ![p] =
          IF mode = "disabled" /\ @.kind # "plan"
          THEN [@ EXCEPT !.pc = "work", !.offline = TRUE, !.todo = OfflineWork(cached)]
          ELSE [@ EXCEPT !.pc = "manifest"]]
    /\ UNCHANGED <<env, disk, cached, run>>

FetchManifest(p) ==
    /\ pass[p].pc = "manifest" /\ net
    /\ pass' = [pass EXCEPT ![p] =
          IF @.kind = "uninstall"
          THEN [@ EXCEPT !.pc = "work", !.man = up, !.todo = UninstallWork(up)]
          ELSE [@ EXCEPT !.pc = "cache", !.man = up]]
    /\ UNCHANGED <<env, disk, cached, run>>

\* Without the manifest a tick ends with an error; Uninstall falls back to
\* the cached one.
FetchManifestFails(p) ==
    /\ pass[p].pc = "manifest" /\ ~net
    /\ pass' = [pass EXCEPT ![p] =
          IF @.kind = "uninstall" /\ cached # 0
          THEN [@ EXCEPT !.pc = "work", !.man = cached, !.offline = TRUE, !.todo = UninstallWork(cached)]
          ELSE Idle]
    /\ UNCHANGED <<env, disk, cached, run>>

CacheManifest(p) ==
    /\ pass[p].pc = "cache"
    /\ pass' = [pass EXCEPT ![p].pc = "entry"]
    /\ cached' = IF pass[p].kind = "plan" THEN cached ELSE pass[p].man
    /\ UNCHANGED <<env, disk, run>>

FetchEntry(p) ==
    /\ pass[p].pc = "entry" /\ net
    /\ pass' = [pass EXCEPT ![p].pc = "work", ![p].body = up, ![p].todo = TickWork(pass[p].man)]
    /\ UNCHANGED <<env, disk, cached, run>>

\* Mutant: a tick goes on without its SKILL.md.
FetchEntryGoesOn(p) ==
    /\ pass[p].pc = "entry" /\ ~net
    /\ pass' = [pass EXCEPT ![p].pc = "work", ![p].todo = TickWork(pass[p].man)]
    /\ UNCHANGED <<env, disk, cached, run>>

FetchEntryFails(p) ==
    /\ pass[p].pc = "entry" /\ ~net
    /\ pass' = [pass EXCEPT ![p] = Idle]
    /\ UNCHANGED <<env, disk, cached, run>>

\* p's next item is one of these.
AtItem(p, do) == /\ pass[p].pc = "work" /\ pass[p].todo # <<>>
                /\ Head(pass[p].todo).do = do
                /\ Head(pass[p].todo).tool \notin pass[p].skip
At(p) == Head(pass[p].todo).loc
For(p) == Head(pass[p].todo).tool

Advance(p) == pass' = [pass EXCEPT ![p].todo = Tail(@)]

\* Mutants: writing in a dry run too; writing only what is missing.
PutAlways(p, c) == disk' = [disk EXCEPT ![At(p)] = c]
PutMissing(p, c) == disk' = IF pass[p].kind = "plan" \/ (disk[At(p)] # Absent /\ c # Absent)
                            THEN disk ELSE [disk EXCEPT ![At(p)] = c]

\* Classify and, unless identical or a dry run, write.
Put(p, c) == disk' = IF pass[p].kind = "plan" THEN disk ELSE [disk EXCEPT ![At(p)] = c]

\* The root directory is missing: the tool is skipped.
SkipTool(p) == /\ AtItem(p, "skill")
               /\ For(p) \notin root
               /\ pass' = [pass EXCEPT ![p].todo = Tail(@), ![p].skip = @ \cup {For(p)}]
               /\ UNCHANGED <<env, disk, cached, run>>

PassOver(p) == /\ pass[p].pc = "work" /\ pass[p].todo # <<>>
               /\ For(p) \in pass[p].skip
               /\ Advance(p)
               /\ UNCHANGED <<env, disk, cached, run>>

Skill(p) == /\ AtItem(p, "skill")
            /\ For(p) \in root
            /\ Put(p, Copy(pass[p].body))
            /\ Advance(p)
            /\ UNCHANGED <<env, cached, run>>

\* reconcileMarker.  The first tool of the pass to render its block owns the
\* file; a failed template ends the tool's turn.
MarkerShared(p) == /\ AtItem(p, "marker")
                   /\ pass[p].owner[At(p)[2]] # None
                   /\ Advance(p)
                   /\ UNCHANGED <<env, disk, cached, run>>

\* Mutant: the owner of a shared file is not recorded.
MarkerUnowned(p) ==
    /\ AtItem(p, "marker") /\ net
    /\ Put(p, Block(For(p), pass[p].body, up))
    /\ Advance(p)
    /\ UNCHANGED <<env, cached, run>>

Marker(p) ==
    /\ AtItem(p, "marker") /\ net
    /\ pass[p].owner[At(p)[2]] = None
    /\ Put(p, Block(For(p), pass[p].body, up))
    /\ pass' = [pass EXCEPT ![p].todo = Tail(@), ![p].owner[At(p)[2]] = For(p)]
    /\ UNCHANGED <<env, cached, run>>

MarkerFails(p) ==
    /\ AtItem(p, "marker") /\ ~net
    /\ pass[p].owner[At(p)[2]] = None
    /\ pass' = [pass EXCEPT ![p].todo = Tail(@), ![p].skip = @ \cup {For(p)}]
    /\ UNCHANGED <<env, disk, cached, run>>

\* reconcilePluginFiles.  Copies of what is fetched go to ~/.pilot/skills-cache,
\* those of the plugin sources even in a dry run; nothing reads them again.
PluginFile(p) == /\ AtItem(p, "file") /\ net
                 /\ Put(p, Copy(up))
                 /\ Advance(p)
                 /\ UNCHANGED <<env, cached, run>>

Helper(p) == /\ AtItem(p, "helper") /\ net
             /\ Put(p, Copy(up))
             /\ Advance(p)
             /\ UNCHANGED <<env, cached, run>>

\* Helpers and plugin files fail one by one.
FetchFails(p) == /\ AtItem(p, "helper") \/ AtItem(p, "file")
                 /\ ~net
                 /\ Advance(p)
                 /\ UNCHANGED <<env, disk, cached, run>>

\* reconcilePluginAllowList, whatever became of the files.
Trust(p) == /\ AtItem(p, "trust")
            /\ Put(p, Trusted)
            /\ Advance(p)
            /\ UNCHANGED <<env, cached, run>>

Gated(p) == /\ AtItem(p, "gated")
            /\ Put(p, Copy(pass[p].body))
            /\ Advance(p)
            /\ UNCHANGED <<env, cached, run>>

\* One removal: a retired surface, or one Uninstall walks over.
RemoveSurface(p) == /\ AtItem(p, "rm")
             /\ Put(p, Absent)
             /\ Advance(p)
             /\ UNCHANGED <<env, cached, run>>

Finish(p) == /\ pass[p].pc = "work" /\ pass[p].todo = <<>>
             /\ pass' = [pass EXCEPT ![p] = Idle]
             /\ UNCHANGED <<env, disk, cached, run>>

\* A pilotctl process is killed.
Killed(p) == /\ p # Daemon /\ Busy(p)
             /\ pass' = [pass EXCEPT ![p] = Idle]
             /\ UNCHANGED <<env, disk, cached, run>>

Step(p) == \/ ReadMode(p) \/ FetchManifest(p) \/ FetchManifestFails(p) \/ CacheManifest(p)
           \/ FetchEntry(p) \/ FetchEntryFails(p)
           \/ SkipTool(p) \/ PassOver(p) \/ Skill(p)
           \/ MarkerShared(p) \/ Marker(p) \/ MarkerFails(p)
           \/ PluginFile(p) \/ Helper(p) \/ FetchFails(p) \/ Trust(p) \/ Gated(p)
           \/ RemoveSurface(p) \/ Finish(p)
-----------------------------------------------------------------------------
(***************************************************************************)
(* Run: one pass at startup whatever the mode, then the mode decides, once,*)
(* between returning and ticking until the daemon stops.                   *)
(***************************************************************************)
Start == /\ run = "off"
         /\ run' = "first"
         /\ Begin(Daemon, "tick")
         /\ UNCHANGED <<env, disk, cached>>

CheckMode == /\ run = "first" /\ ~Busy(Daemon)
             /\ run' = IF mode \in {"manual", "disabled"} THEN "done" ELSE "loop"
             /\ UNCHANGED <<env, disk, cached, pass>>

Ticker == /\ run = "loop" /\ ~Busy(Daemon)
          /\ Begin(Daemon, "tick")
          /\ UNCHANGED <<env, disk, cached, run>>

\* Stop between passes, or a crash in the middle of one.
Down == /\ run # "off"
        /\ run' = "off"
        /\ pass' = [pass EXCEPT ![Daemon] = Idle]
        /\ UNCHANGED <<env, disk, cached>>

Next == \/ Publish \/ NetChanges
        \/ \E m \in UserModes : SetMode(m)
        \/ \E l \in Locs : UserEdits(l)
        \/ \E t \in Tools : ToolComesOrGoes(t)
        \/ \E p \in Procs : Step(p) \/ Killed(p) \/ \E k \in Commands : Command(p, k)
        \/ Start \/ CheckMode \/ Ticker \/ Down

\* The Go scheduler runs the daemon's goroutine and its ticker fires; nothing
\* is assumed of pilotctl, the user, the network or upstream.
Fairness == /\ WF_vars(Step(Daemon))
            /\ WF_vars(CheckMode)
            /\ WF_vars(Ticker)

Spec == Init /\ [][Next]_vars /\ Fairness
-----------------------------------------------------------------------------
(***************************************************************************)
(* What should be on disk for a revision: every present tool's surfaces,   *)
(* one block per heartbeat file, written for the first present tool that   *)
(* uses it; and nothing that is retired.                                   *)
(***************************************************************************)
Present(r) == ToSet(ManifestAt[r].tools) \cap root

\* The first in the manifest's order.
OwnerOf(f, r) ==
    LET m == ManifestAt[r]
        users == {i \in DOMAIN m.tools : m.tools[i] \in root /\ FileOf[m.tools[i]] = f}
    IN IF users = {} THEN None
       ELSE m.tools[CHOOSE i \in users : \A j \in users : i <= j]

Equipped(r) == {t \in Present(r) : FileOf[t] # None /\ PluginOf[t] # None}

Wanted(r) ==
    [l \in ({"helper"} \X ToSet(ManifestAt[r].helpers))
           \cup ({"skill"} \X Present(r))
           \cup ({"marker"} \X {f \in Files : OwnerOf(f, r) # None})
           \cup ({"file"} \X UNION {ToSet(PluginFilesOf(t)) : t \in Equipped(r)})
           \cup ({"trust"} \X {PluginOf[t] : t \in Equipped(r)})
           \cup ({"gated"} \X (ToSet(ManifestAt[r].gated) \cap Attested))
     |-> CASE l[1] = "marker" -> Block(OwnerOf(l[2], r), r, r)
           [] l[1] = "trust" -> Trusted
           [] OTHER -> Copy(r)]

Retired(r) == {x.loc : x \in ToSet(RetiredWork(ManifestAt[r]))}

UpToDate == LET wanted == Wanted(up) IN
            /\ \A l \in DOMAIN wanted : disk[l] = wanted[l]
            /\ \A l \in Retired(up) : disk[l] = Absent

\* A pass that may install: it got past the mode check.
Installing(p) == /\ pass[p].kind = "tick" /\ ~pass[p].offline
                 /\ pass[p].pc \notin {"idle", "mode"}

Appears(l) == disk[l] = Absent /\ disk'[l] # Absent

\* The opt-out holds: while the mode is disabled no further pass gets to
\* install (`skills check`, an update's reconcile, a daemon restart), and
\* once the passes that were past their mode check are over nothing appears.
OptOutHolds ==
    [][mode = "disabled" =>
         /\ \A p \in Procs : Installing(p)' => Installing(p)
         /\ (\A p \in Procs : ~Installing(p)) => \A l \in Locs : ~Appears(l)]_vars

\* A preview changes no surface, nor the manifest a later offline Uninstall
\* or disabled pass will work from.
PlanLeavesSurfaces ==
    [][\A p \in Procs : pass[p].kind = "plan" /\ pass'[p] # pass[p] /\ pass'[p].pc # "mode"
                        => UNCHANGED <<disk, cached>>]_vars

\* Nothing stands between the passes in flight and the published revision:
\* they saw that revision, own the blocks they should, skipped only what is
\* not there, and none is removing or working from the opt-out's list.
InStep(p) == /\ pass[p].pc = "idle"
             \/ pass[p].kind = "plan"
             \/ /\ pass[p].kind = "tick" /\ ~pass[p].offline
                /\ pass[p].man \in {0, up} /\ pass[p].body \in {0, up}
                /\ pass[p].skip \cap root = {}
                /\ pass[p].todo # <<>> /\ For(p) \notin pass[p].skip \cup root \cup {None}
                   => Head(pass[p].todo).do = "skill"
                /\ \A f \in Files : pass[p].owner[f] \in {None, OwnerOf(f, up)}

\* Once everything is up to date, passes leave it alone: two tools sharing a
\* heartbeat file do not rewrite it in turns, and a surface that is both
\* retired by an older list and managed now is not stripped and restored.
NoChurn ==
    [][UpToDate /\ net /\ mode # "disabled" /\ (\A p \in Procs : InStep(p)) /\ edits' = edits
       => UNCHANGED disk]_vars

\* Skill and gated copies of a tool that manifest r no longer has: there is
\* no retired list for those.
Forgotten(r) ==
    UNION {({"skill"} \X (ToSet(ManifestAt[q].tools) \ ToSet(ManifestAt[r].tools)))
           \cup ({"gated"} \X (ToSet(ManifestAt[q].gated) \ ToSet(ManifestAt[r].gated))) : q \in 1..r}

\* What a tick installs from manifest r.
Managed(r) == {x.loc : x \in {y \in ToSet(TickWork(r)) : y.do # "rm"}}

\* What only manifests after r manage.
Unseen(r) == (UNION {Managed(q) : q \in (r + 1)..MaxRev}) \ (UNION {Managed(q) : q \in 1..r})

\* An Uninstall that met no other pass leaves nothing of any revision behind
\* but forgotten copies, whether it read the published manifest or, offline,
\* the one that the last tick cached before it installed anything.  The last
\* to cache may have read an older manifest than another process's tick, and
\* what came with the newer is then left, too, if it works offline.
UninstallClean ==
    [][\A p \in Procs :
         pass[p].kind = "uninstall" /\ pass[p].alone /\ Finish(p)
         => \A l \in Locs : disk[l] # Absent =>
               \/ l \in Forgotten(pass[p].man)
               \/ "tick" \in Commands /\ pass[p].offline /\ l \in Unseen(pass[p].man)]_vars

\* When the network stays up, the mode auto and the daemon in its loop, and
\* nobody uninstalls, the host converges to the published revision and stays
\* there, whatever upstream, the user and other passes did before.
Settled == /\ net /\ mode = "auto" /\ run = "loop"
           /\ \A p \in Procs : pass[p].kind # "uninstall"
Converges == (<>[]Settled) => <>[]UpToDate
=============================================================================
