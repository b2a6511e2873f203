------------------------------ MODULE GatedTool ------------------------------
(***************************************************************************)
(* One gated tool (today Muse) on one host: its skill copy is installed,   *)
(* refreshed and removed only while a marker file below ~/.pilot says that *)
(* an installer set up this very folder in this very format.  A turn is    *)
(* what one pass of tick or Uninstall does about the tool, after what it   *)
(* did about a regular tool that may keep its copy at the same path.       *)
(* Turns of several processes interleave with each other and with the user *)
(* (or the installer), who writes the marker, the copy, and the folder.    *)
(* The replacement of the copy is AtomicFile's gated variant.              *)
(***************************************************************************)
EXTENDS SkillFormat

CONSTANTS
    Procs, Uninstallers,  \* processes that run passes; those that uninstall, too
    Home,                 \* the home directory
    Links,                \* symbolic links to directories: path -> path
    RegularFile,          \* where a regular tool has its skill copy
    Hosts,                \* [row, marker, src, copy, edits] to begin with
    Saved                 \* markers the user may write later

\* A path as written: from "~", "/" or relative, and the names in it.
NoPath == [from |-> "", to |-> <<>>]
Absolute(p) == p.from \in {"~", "/"}

\* A recursive function, which the proofs can unfold, and not a fold.
Enter(q, e) == IF e # ".." THEN Append(q, e) ELSE IF q = <<>> THEN q ELSE Front(q)
Clean(s) == LET at[i \in 0..Len(s)] == IF i = 0 THEN <<>> ELSE Enter(at[i - 1], s[i])
            IN at[Len(s)]

\* expandHome, then filepath.Clean.
Resolved(p) == Clean(IF p.from = "~" THEN Home \o p.to ELSE p.to)

\* canonicalPath.
Canonical(s) ==
    LET at == {l \in DOMAIN Links : IsPrefix(l, s)}
    IN IF at = {} THEN s
       ELSE LET l == CHOOSE l \in at : TRUE IN Links[l] \o SubSeq(s, Len(l) + 1, Len(s))
-----------------------------------------------------------------------------
(***************************************************************************)
(* The marker: missing; not a regular file, or too large ("odd"); or lines *)
(* that are blank or a comment ("skip"), without "=" ("bare"), or settings.*)
(***************************************************************************)
Setting(k, v) == [is |-> "set", key |-> k, value |-> v]
Format(row) == IF row.format = "" THEN "canonical" ELSE row.format

Nothing == [dir |-> NoPath, format |-> "", seen |-> {}, ok |-> TRUE]

\* Mutant: of two settings of a key the last one counts.
ParseLineLax(m, l) ==
    IF ~m.ok \/ l.is = "skip" THEN m
    ELSE IF l.is = "bare" THEN [Nothing EXCEPT !.ok = FALSE]
    ELSE CASE l.key = "skills_dir" -> [m EXCEPT !.dir = l.value]
           [] l.key = "skill_format" -> [m EXCEPT !.format = l.value]
           [] OTHER -> m

ParseLine(m, l) ==
    IF ~m.ok \/ l.is = "skip" THEN m
    ELSE IF l.is = "bare" \/ l.key \in m.seen THEN [Nothing EXCEPT !.ok = FALSE]
    ELSE LET n == [m EXCEPT !.seen = @ \cup {l.key}] IN
         CASE l.key = "skills_dir" -> [n EXCEPT !.dir = l.value]
           [] l.key = "skill_format" -> [n EXCEPT !.format = l.value]
           [] OTHER -> n

Parsed(marker) == IF marker.kind = "odd" THEN [Nothing EXCEPT !.ok = FALSE]
                  ELSE LET after[i \in 0..Len(marker.lines)] ==
                             IF i = 0 THEN Nothing ELSE ParseLine(after[i - 1], marker.lines[i])
                       IN after[Len(marker.lines)]

Attests(m, row) ==
    /\ m.ok
    /\ Absolute(m.dir)
    /\ Canonical(Resolved(m.dir)) = Canonical(Resolved(row.skills))
    /\ m.format = Format(row)

\* gatedMarkerPath and resolveGatedTarget: the paths of a row.
MarkerPathOK(row) == /\ Absolute(row.marker)
                     /\ IsStrictPrefix(Append(Home, ".pilot"), Resolved(row.marker))
TargetOK(row) == /\ Absolute(row.root) /\ IsStrictPrefix(Home, Resolved(row.root))
                 /\ Absolute(row.skills) /\ IsPrefix(Resolved(row.root), Resolved(row.skills))
SkillFile(row) == Resolved(row.skills) \o <<"pilot-protocol", "SKILL.md">>

\* Mutant: two spellings of one file are two files.
SharedAsSpelt(row) == SkillFile(row) = RegularFile

Shared(row) == Canonical(SkillFile(row)) = Canonical(RegularFile)
-----------------------------------------------------------------------------
VARIABLES row, src,  \* the tool's manifest row, the published SKILL.md
          marker,    \* the marker file
          there,     \* does the root directory exist?
          copy,      \* what is at its skill file's path
          turn,      \* process -> its turn
          quiet,     \* "no"; "pass": a tick runs undisturbed; "yes": one has run (history)
          edits      \* the user's interventions left

gatedVars == <<row, src, marker, there, copy, turn, quiet, edits>>
world == <<row, src, marker, there, edits>>

Absent == [kind |-> "absent", text |-> <<>>]
Link == [kind |-> "link", text |-> <<>>]
Theirs == [kind |-> "theirs", text |-> <<>>]
Copy(text) == [kind |-> "copy", text |-> text]
Want == Copy(FormatSkill(src, row.format))

Idle == [kind |-> "tick", pc |-> "idle", decl |-> Nothing, taken |-> FALSE, grounds |-> FALSE]
Busy(p) == turn[p].pc # "idle"

\* Whatever may be at the marker's path, and whatever a row may say.
MarkerKinds == {"missing", "odd", "lines"}
Paths == [from : {"", ".", "~", "/"}, to : Seq(STRING)]
Lines == [is : {"skip", "bare"}]
         \cup [is : {"set"}, key : {"skills_dir"}, value : Paths]
         \cup [is : {"set"}, key : STRING \ {"skills_dir"}, value : STRING]
IsMarker(m) == m.kind \in MarkerKinds /\ m.lines \in Seq(Lines)

ASSUME HostsAssumption ==
    /\ Home \in Seq(STRING)
    /\ \A h \in Hosts : /\ h.row.skills \in Paths /\ h.row.root \in Paths
                        /\ IsMarker(h.marker)
                        /\ h.src \in Seq([kind : STRING, text : Seq(STRING)])
                        /\ h.copy \in {Absent, Link, Theirs} /\ h.edits \in Nat
    /\ \A m \in Saved : IsMarker(m)

GatedTypeOK ==
    /\ marker.kind \in MarkerKinds
    /\ there \in BOOLEAN /\ ~there => copy = Absent
    /\ copy \in {Absent, Link, Theirs, Copy(src), Want}
    /\ quiet \in {"no", "pass", "yes"} /\ edits \in Nat
    /\ \A p \in Procs :
         LET t == turn[p] IN
         /\ t.kind \in {"tick", "uninstall"} /\ t.pc \in {"idle", "regular", "marker", "resolve", "look", "write", "rename"}
         /\ ~Busy(p) => t = Idle
         /\ t.pc \in {"look", "write", "rename"} => t.decl.ok /\ ~t.taken

GatedInit == \E h \in Hosts :
    /\ row = h.row /\ src = h.src /\ marker = h.marker /\ copy = h.copy /\ edits = h.edits
    /\ there = TRUE
    /\ turn = [p \in Procs |-> Idle]
    /\ quiet = "no"
-----------------------------------------------------------------------------
(***************************************************************************)
(* A turn.                                                                 *)
(***************************************************************************)
At(p, pc) == turn[p].pc = pc
Goto(p, pc) == turn' = [turn EXCEPT ![p].pc = pc] /\ UNCHANGED quiet

\* The turn is over: the pass goes on, or ends.
Over(p) == /\ turn' = [turn EXCEPT ![p] = Idle]
           /\ quiet' = IF quiet = "pass" THEN "yes" ELSE quiet

Begin(p, k) ==
    /\ ~Busy(p)
    /\ k = "tick" \/ p \in Uninstallers
    /\ turn' = [turn EXCEPT ![p].kind = k, ![p].pc = "regular"]
    /\ quiet' = CASE quiet = "yes" /\ k = "tick" -> "yes"
                  [] quiet = "no" /\ k = "tick" /\ (\A q \in Procs : ~Busy(q)) -> "pass"
                  [] OTHER -> "no"
    /\ UNCHANGED <<world, copy>>

\* The regular tool's skill copy; a tick notes where it is.
Regular(p) ==
    /\ At(p, "regular")
    /\ copy' = IF ~there \/ Canonical(SkillFile(row)) # Canonical(RegularFile) THEN copy
               ELSE IF turn[p].kind = "tick" THEN Copy(src) ELSE Absent
    /\ turn' = [turn EXCEPT ![p].pc = "marker",
                            ![p].taken = turn[p].kind = "tick" /\ there /\ Shared(row)]
    /\ UNCHANGED <<world, quiet>>

\* A row whose marker would not be below ~/.pilot, or no marker.
NoMarker(p) ==
    /\ At(p, "marker")
    /\ ~MarkerPathOK(row) \/ marker.kind = "missing"
    /\ Over(p)
    /\ UNCHANGED <<world, copy>>

\* What the package comment says of a marker that turns the tool on.
Documented(m) ==
    LET set == {i \in DOMAIN m.lines : m.lines[i].is = "set"}
        Says(k, Holds(_)) == \E i \in set : m.lines[i].key = k /\ Holds(m.lines[i].value)
    IN /\ m.kind = "lines"
       /\ \A i \in DOMAIN m.lines : m.lines[i].is # "bare"
       /\ \A i, j \in set : i # j => m.lines[i].key # m.lines[j].key
       /\ Says("skills_dir", LAMBDA d : Absolute(d) /\ Canonical(Resolved(d)) = Canonical(Resolved(row.skills)))
       /\ Says("skill_format", LAMBDA f : f = IF row.format = "" THEN "canonical" ELSE row.format)

ReadMarker(p) ==
    /\ At(p, "marker")
    /\ MarkerPathOK(row) /\ marker.kind # "missing"
    /\ turn' = [turn EXCEPT ![p].pc = "resolve", ![p].decl = Parsed(marker), ![p].grounds = Documented(marker)]
    /\ UNCHANGED <<world, copy, quiet>>

Active(p) ==
    /\ TargetOK(row)
    /\ there
    /\ Attests(turn[p].decl, row)
    /\ turn[p].kind = "tick" => ~turn[p].taken /\ row.format \in {"", "muse"}

\* The row is in error, the folder missing, or the marker for another target.
Inactive(p) == /\ At(p, "resolve") /\ ~Active(p)
               /\ Over(p)
               /\ UNCHANGED <<world, copy>>

Resolve(p) == /\ At(p, "resolve") /\ Active(p)
              /\ Goto(p, "look")
              /\ UNCHANGED <<world, copy>>

\* Mutant: nobody looks whether the folder is still there.
ToDoRootless(p) == /\ copy # Link
                   /\ IF turn[p].kind = "tick" THEN copy # Want ELSE copy # Absent

\* The root is opened, no component may be a link; is there something to do?
ToDo(p) == /\ there /\ copy # Link
           /\ IF turn[p].kind = "tick" THEN copy # Want ELSE copy # Absent

NothingToDo(p) == /\ At(p, "look") /\ ~ToDo(p)
                  /\ Over(p)
                  /\ UNCHANGED <<world, copy>>

\* Uninstall goes straight to the removal.
Look(p) == /\ At(p, "look") /\ ToDo(p)
           /\ Goto(p, IF turn[p].kind = "tick" THEN "write" ELSE "rename")
           /\ UNCHANGED <<world, copy>>

\* writeGatedSkill looks for links again before it makes its temp file.
Recheck(p) == /\ At(p, "write") /\ copy # Link
              /\ Goto(p, "rename")
              /\ UNCHANGED <<world, copy>>

RecheckFails(p) == /\ At(p, "write") /\ copy = Link
                   /\ Over(p)
                   /\ UNCHANGED <<world, copy>>

\* Whatever is there by now is replaced, a link itself and not its target.
Install(p) == /\ At(p, "rename") /\ turn[p].kind = "tick"
              /\ copy' = Want
              /\ Over(p)
              /\ UNCHANGED world

Delete(p) == /\ At(p, "rename") /\ turn[p].kind = "uninstall"
             /\ copy' = Absent
             /\ Over(p)
             /\ UNCHANGED world

\* A read or write fails, or the process dies.
TurnFails(p) == /\ Busy(p)
             /\ turn' = [turn EXCEPT ![p] = Idle]
             /\ quiet' = "no"
             /\ UNCHANGED <<world, copy>>
-----------------------------------------------------------------------------
(***************************************************************************)
(* The user, or the tool's installer.                                      *)
(***************************************************************************)
Intervention == edits > 0 /\ edits' = edits - 1 /\ quiet' = "no" /\ UNCHANGED <<row, src>>

SavesMarker(m) == /\ Intervention
                  /\ marker' = m
                  /\ UNCHANGED <<there, copy, turn>>

SavesFile(c) == /\ Intervention /\ there
                /\ copy' = c
                /\ UNCHANGED <<marker, there, turn>>

\* The folder goes, and the turns that hold it open find nothing in it.
RootGoes == /\ Intervention /\ there
            /\ there' = FALSE /\ copy' = Absent
            /\ turn' = [p \in Procs |-> IF turn[p].pc \in {"write", "rename"} THEN Idle ELSE turn[p]]
            /\ UNCHANGED marker

RootComes == /\ Intervention /\ ~there
             /\ there' = TRUE
             /\ UNCHANGED <<marker, copy, turn>>

Step(p) == \/ \E k \in {"tick", "uninstall"} : Begin(p, k)
           \/ Regular(p) \/ NoMarker(p) \/ ReadMarker(p) \/ Inactive(p) \/ Resolve(p)
           \/ NothingToDo(p) \/ Look(p) \/ Recheck(p) \/ RecheckFails(p)
           \/ Install(p) \/ Delete(p) \/ TurnFails(p)

GatedNext == \/ \E p \in Procs : Step(p)
        \/ \E m \in Saved : SavesMarker(m)
        \/ \E c \in {Absent, Link, Theirs} : SavesFile(c)
        \/ RootGoes \/ RootComes

GatedSpec == GatedInit /\ [][GatedNext]_gatedVars
-----------------------------------------------------------------------------
\* A gated tool's turn changes the file under its root only if the marker it
\* read is, line for line, what the package comment asks for, the marker is
\* below ~/.pilot, and the file is below the root and the root in the home
\* directory: whatever the marker and the row say, and whoever edits them.
AttestedStep ==
    \A p \in Procs :
        turn[p].pc # "regular" /\ turn'[p] # turn[p] /\ copy' # copy /\ there'
        => /\ turn[p].grounds
           /\ IsStrictPrefix(Append(Home, ".pilot"), Resolved(row.marker))
           /\ IsStrictPrefix(Resolved(row.root), SkillFile(row))
           /\ IsStrictPrefix(Home, Resolved(row.root))
OnlyAttested == [][AttestedStep]_gatedVars

\* One tick that nobody disturbs settles the file: later ticks, of any
\* process, leave it alone.  No two tools rewrite one file in turns, under
\* whatever name each knows it, and a link or an odd marker is no reason to
\* try again and again.
SettledStep == quiet = "yes" /\ quiet' = "yes" => copy' = copy
NoRewriting == [][SettledStep]_gatedVars

\* Whatever frontmatter is published, a Muse copy has the shape Muse loads,
\* with the body and, unless it is cut, the description that was published.
CopyLoads ==
    row.format = "muse" /\ ~Shared(row) /\ copy.kind = "copy"
    => LoadsInMuse(src, copy.text) /\ DescriptionKept(src, copy.text)
-----------------------------------------------------------------------------
(***************************************************************************)
(* Why a settled file stays settled.                                       *)
(***************************************************************************)
\* A tick would write, if the file were another.
WouldAct == /\ MarkerPathOK(row) /\ marker.kind # "missing"
            /\ TargetOK(row) /\ there
            /\ Attests(Parsed(marker), row)
            /\ ~Shared(row) /\ row.format \in {"", "muse"}

RegularDone == there /\ Shared(row) => copy = Copy(src)
Settled == RegularDone /\ (WouldAct => copy \in {Want, Link})

\* A tick that read the world as it is.
Current(t) ==
    /\ t.kind = "tick"
    /\ t.pc \notin {"idle", "regular"} => RegularDone /\ t.taken = (there /\ Shared(row))
    /\ t.pc \in {"resolve", "look", "write", "rename"} =>
          t.decl = Parsed(marker) /\ MarkerPathOK(row) /\ marker.kind # "missing"
    /\ t.pc \in {"look", "write", "rename"} => WouldAct

QuietInv ==
    /\ quiet # "no" => \A p \in Procs : Current(turn[p])
    /\ quiet = "pass" => \E p \in Procs : Busy(p) /\ \A q \in Procs \ {p} : ~Busy(q)
    /\ quiet = "yes" => Settled /\ \A p \in Procs : turn[p].pc \notin {"write", "rename"}
=============================================================================
