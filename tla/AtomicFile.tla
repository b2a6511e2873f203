----------------------------- MODULE AtomicFile -----------------------------
(***************************************************************************)
(* The write-to-temp-then-rename routine behind every file skillinject     *)
(* installs, at the level of directory entries and inodes.  One target     *)
(* path, any number of writers, each a goroutine or process running        *)
(*                                                                         *)
(*   "plain"   writeFile (reconcile.go), writeFileAtomic                   *)
(*             (plugin_allowlist.go): temp name path+".tmp", O_TRUNC       *)
(*   "helper"  writeHelperMaybe (reconcile.go): the same, plus a chmod of  *)
(*             the temp name before the rename                             *)
(*   "gated"   writeGatedSkill (gated.go): an O_EXCL temp with a random    *)
(*             name, chmod on the descriptor, the temp removed on failure  *)
(*                                                                         *)
(* Content is Chunks pieces so that a half-written file exists.  Power     *)
(* loss is not modelled: no writer fsyncs, only process crashes are.       *)
(***************************************************************************)
EXTENDS Naturals

CONSTANTS Writers,  \* threads that may write the target
          Values,   \* contents they may want there
          NoValue,  \* not a content
          Chunks,   \* pieces one content is written in
          Temps,    \* temp names
          Fixed,    \* the one among them that is path+".tmp"
          Target,   \* the path being installed
          Inodes,   \* enough for every name and every open descriptor
          NoInode,  \* no entry under a name, no open descriptor
          WritersOf \* routine -> the writers that may run it on the target

Variants == {"plain", "helper", "gated"}

ASSUME ChunksAssumption == Chunks \in Nat \ {0}
ASSUME NamesAssumption == Target \notin Temps /\ Fixed \in Temps /\ NoInode \notin Inodes
ASSUME ValueAssumption == NoValue \notin Values
ASSUME WritersAssumption == WritersOf \in [Variants -> SUBSET Writers]

VARIABLES variant,  \* the routine that writes this target
          dir,      \* directory: name -> inode
          content,  \* inode -> its pieces
          exec,     \* inode -> does it carry the permissions asked for?
          pc, val, tmp, fd, next  \* per writer

vars == <<variant, dir, content, exec, pc, val, tmp, fd, next>>

Names == Temps \cup {Target}
Pieces == 1..Chunks
Hole == [k \in Pieces |-> NoValue]

\* A gated temp has a random name, the others all have the one.
TempNames == IF variant = "gated" THEN Temps \ {Fixed} ELSE {Fixed}

TypeOK == /\ variant \in Variants
          /\ dir \in [Names -> Inodes \cup {NoInode}]
          /\ content \in [Inodes -> [Pieces -> Values \cup {NoValue}]]
          /\ exec \in [Inodes -> BOOLEAN]
          /\ pc \in [Writers -> {"idle", "open", "write", "chmod", "rename"}]
          /\ val \in [Writers -> Values \cup {NoValue}]
          /\ tmp \in [Writers -> Names]
          /\ fd \in [Writers -> Inodes \cup {NoInode}]
          /\ next \in [Writers -> 1..(Chunks + 1)]

Init == /\ variant \in {s \in Variants : WritersOf[s] # {}}
        /\ dir = [n \in Names |-> NoInode]
        /\ content = [i \in Inodes |-> Hole]
        /\ exec = [i \in Inodes |-> FALSE]
        /\ pc = [w \in Writers |-> "idle"]
        /\ val = [w \in Writers |-> NoValue]
        /\ tmp = [w \in Writers |-> Target]
        /\ fd = [w \in Writers |-> NoInode]
        /\ next = [w \in Writers |-> 1]
-----------------------------------------------------------------------------
Free(i) == /\ \A n \in Names : dir[n] # i
           /\ \A w \in Writers : fd[w] # i

Unlink(n) == dir' = [dir EXCEPT ![n] = NoInode]

\* Mutant: the next call goes on where this one stopped.
ReturnUnreset(w) == /\ pc' = [pc EXCEPT ![w] = "idle"]
                    /\ val' = [val EXCEPT ![w] = NoValue]
                    /\ tmp' = [tmp EXCEPT ![w] = Target]
                    /\ fd' = [fd EXCEPT ![w] = NoInode]
                    /\ UNCHANGED next

\* The routine returns: descriptor closed, nothing wanted any more.
Return(w) == /\ pc' = [pc EXCEPT ![w] = "idle"]
             /\ val' = [val EXCEPT ![w] = NoValue]
             /\ tmp' = [tmp EXCEPT ![w] = Target]
             /\ fd' = [fd EXCEPT ![w] = NoInode]
             /\ next' = [next EXCEPT ![w] = 1]

Call(w, v) == /\ w \in WritersOf[variant]
              /\ pc[w] = "idle"
              /\ pc' = [pc EXCEPT ![w] = "open"]
              /\ val' = [val EXCEPT ![w] = v]
              /\ UNCHANGED <<dir, content, exec, tmp, fd, next>>

Opened(w, n, i) == /\ pc' = [pc EXCEPT ![w] = "write"]
                   /\ tmp' = [tmp EXCEPT ![w] = n]
                   /\ fd' = [fd EXCEPT ![w] = i]
                   /\ content' = [content EXCEPT ![i] = Hole]
                   /\ UNCHANGED <<val, next>>

\* The temp name is new.  The permissions given to open pass through the
\* umask; a gated temp is made 0600.
OpenNew(w, n) == LET i == CHOOSE j \in Inodes : Free(j) IN
    /\ pc[w] = "open"
    /\ dir[n] = NoInode
    /\ \E j \in Inodes : Free(j)
    /\ dir' = [dir EXCEPT ![n] = i]
    /\ \E masked \in BOOLEAN : exec' = [exec EXCEPT ![i] = ~masked /\ variant # "gated"]
    /\ Opened(w, n, i)

\* Mutant: the gated temp is opened without O_EXCL.
OpenExistingShared(w, n) ==
    /\ pc[w] = "open"
    /\ dir[n] # NoInode
    /\ Opened(w, n, dir[n])
    /\ UNCHANGED <<dir, exec>>

\* O_TRUNC on a temp that exists: left by a crash, or in use by another writer.
OpenExisting(w, n) ==
    /\ pc[w] = "open"
    /\ variant # "gated"
    /\ dir[n] # NoInode
    /\ Opened(w, n, dir[n])
    /\ UNCHANGED <<dir, exec>>

OpenFails(w) == /\ pc[w] = "open"
                /\ Return(w)
                /\ UNCHANGED <<dir, content, exec>>

\* Mutants: a short write passes for a whole one; nobody sets the mode.
WriteChunkShort(w) ==
    /\ pc[w] = "write"
    /\ content' = [content EXCEPT ![fd[w]][next[w]] = val[w]]
    /\ next' = [next EXCEPT ![w] = @ + 1]
    /\ pc' = [pc EXCEPT ![w] = IF variant = "plain" THEN "rename" ELSE "chmod"]
    /\ UNCHANGED <<dir, exec, val, tmp, fd>>
WriteChunkUnmoded(w) ==
    /\ pc[w] = "write"
    /\ content' = [content EXCEPT ![fd[w]][next[w]] = val[w]]
    /\ next' = [next EXCEPT ![w] = @ + 1]
    /\ pc' = [pc EXCEPT ![w] = IF next[w] < Chunks THEN "write" ELSE "rename"]
    /\ UNCHANGED <<dir, exec, val, tmp, fd>>

WriteChunk(w) ==
    /\ pc[w] = "write"
    /\ content' = [content EXCEPT ![fd[w]][next[w]] = val[w]]
    /\ next' = [next EXCEPT ![w] = @ + 1]
    /\ pc' = [pc EXCEPT ![w] = IF next[w] < Chunks THEN "write"
                               ELSE IF variant = "plain" THEN "rename" ELSE "chmod"]
    /\ UNCHANGED <<dir, exec, val, tmp, fd>>

\* os.WriteFile's error returns at once and leaves the temp; the gated
\* writer removes its own.
WriteFails(w) ==
    /\ pc[w] = "write"
    /\ Return(w)
    /\ IF variant = "gated" THEN Unlink(tmp[w]) ELSE UNCHANGED dir
    /\ UNCHANGED <<content, exec>>

\* os.Chmod goes by name, f.Chmod by descriptor.
Chmod(w) == LET i == IF variant = "gated" THEN fd[w] ELSE dir[tmp[w]] IN
    /\ pc[w] = "chmod"
    /\ i # NoInode
    /\ exec' = [exec EXCEPT ![i] = TRUE]
    /\ pc' = [pc EXCEPT ![w] = "rename"]
    /\ UNCHANGED <<dir, content, val, tmp, fd, next>>

\* Mutant: the clean-up removes the target's name.
StepFailsTarget(w) ==
    /\ pc[w] \in {"chmod", "rename"}
    /\ Unlink(Target)
    /\ Return(w)
    /\ UNCHANGED <<content, exec>>

\* A failing chmod or rename removes the temp, by name.
StepFails(w) ==
    /\ pc[w] \in {"chmod", "rename"}
    /\ Unlink(tmp[w])
    /\ Return(w)
    /\ UNCHANGED <<content, exec>>

RenameTmp(w) ==
    /\ pc[w] = "rename"
    /\ dir[tmp[w]] # NoInode
    /\ dir' = [dir EXCEPT ![Target] = dir[tmp[w]], ![tmp[w]] = NoInode]
    /\ Return(w)
    /\ UNCHANGED <<content, exec>>

\* The writer's process dies; its temp stays in the directory.
Crash(w) == /\ pc[w] # "idle"
            /\ Return(w)
            /\ UNCHANGED <<dir, content, exec>>

Next == UNCHANGED variant /\ \E w \in Writers :
           \/ \E v \in Values : Call(w, v)
           \/ \E n \in TempNames : OpenNew(w, n) \/ OpenExisting(w, n)
           \/ OpenFails(w)
           \/ WriteChunk(w)
           \/ WriteFails(w)
           \/ Chmod(w)
           \/ StepFails(w)
           \/ RenameTmp(w)
           \/ Crash(w)

Spec == Init /\ [][Next]_vars
-----------------------------------------------------------------------------
Whole(i, v) == \A k \in Pieces : content[i][k] = v

\* What a reader of the target sees.  A torn file is none of Values.
Visible == IF dir[Target] = NoInode THEN NoValue
           ELSE IF \E v \in Values : Whole(dir[Target], v)
                THEN CHOOSE v \in Values : Whole(dir[Target], v)
                ELSE "torn"

Abstract == INSTANCE WholeFile WITH file <- Visible, want <- val

\* A reader never finds a half-written, mixed or truncated file under the
\* target's name, whoever crashed or failed before: "no torn writes" of
\* mergePluginAllowList's contract, relied on by every surface.
NoTornTarget == dir[Target] # NoInode => \E v \in Values : Whole(dir[Target], v)

\* Between two renames the file under the target's name does not change: no
\* descriptor left open on it by another writer still alters it.
OnlyRenameChangesTarget ==
    [][dir'[Target] = dir[Target] => Visible' = Visible]_vars

\* A helper script is executable from the first moment it has its name, and
\* a gated skill copy readable, even when the temp was a leftover or the
\* umask stripped bits: the chmod comes before the rename.
NeverInstalledWithoutMode ==
    variant # "plain" => (dir[Target] # NoInode => exec[dir[Target]])

\* The routine implements the one-step register.
RefinesWholeFile == Abstract!WSpec
-----------------------------------------------------------------------------
(***************************************************************************)
(* Why it works.  The routine is safe when no two writers hold the same    *)
(* temp name: one writer at a time (tickMu, within one process) or names   *)
(* that O_EXCL keeps apart.                                                *)
(***************************************************************************)
NoSharedTemp == \A s \in Variants \ {"gated"} : \A w, x \in WritersOf[s] : w = x

Holding(w) == pc[w] \in {"write", "chmod", "rename"}

\* A writer that waits holds nothing; one that works knows its content.
PhasesAgree == \A w \in Writers :
    /\ pc[w] # "idle" => w \in WritersOf[variant]
    /\ pc[w] = "idle" <=> val[w] = NoValue
    /\ ~Holding(w) => fd[w] = NoInode /\ next[w] = 1
    /\ pc[w] = "write" => next[w] <= Chunks
    /\ pc[w] \in {"chmod", "rename"} => next[w] = Chunks + 1

\* The inode a writer holds is the one under its temp name, and no two names
\* or two writers share one; so none of them is the target's.
TempsApart ==
    /\ \A m, n \in Names : dir[m] = dir[n] /\ dir[m] # NoInode => m = n
    /\ \A w \in Writers : Holding(w) =>
          tmp[w] \in Temps /\ fd[w] # NoInode /\ dir[tmp[w]] = fd[w]
    /\ \A w, x \in Writers : Holding(w) /\ Holding(x) /\ tmp[w] = tmp[x] => w = x

\* What was written so far is the writer's own content, and the mode is set
\* by the time the rename comes.
TempsFilled == \A w \in Writers :
    /\ Holding(w) => \A k \in 1..(next[w] - 1) : content[fd[w]][k] = val[w]
    /\ pc[w] = "rename" /\ variant # "plain" => exec[fd[w]]

IInv == /\ TypeOK
        /\ PhasesAgree
        /\ TempsApart
        /\ TempsFilled
        /\ NoTornTarget
        /\ NeverInstalledWithoutMode
=============================================================================
