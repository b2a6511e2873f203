----------------------------- MODULE MarkerFile -----------------------------
(***************************************************************************)
(* A heartbeat file (CLAUDE.md, AGENTS.md, ...), which the user owns and   *)
(* skillinject keeps one marker block in.  A text is a sequence of tokens: *)
(* the delimiters of blocks, newlines, our heartbeat bodies and the user's *)
(* lines.  The first half of the module is the text: finding blocks,       *)
(* splicing one in, stripping them.  The second half is the file, which    *)
(* passes of several processes, the user and a released older binary       *)
(* rewrite, each having read it some steps before.                         *)
(***************************************************************************)
EXTENDS Naturals, Sequences, FiniteSets, SequencesExt

CONSTANTS
    Procs, Daemon,
    FirstFiles,   \* texts the file may have at first
    UserTokens,   \* tokens the user may insert anywhere
    Wants,        \* what upstream publishes, in order: [hash, tmpl]
    MaxEdits,     \* bound on the user's saves
    MaxEvents     \* bound on crashes, failures, chmods, strips, publications

\* Tokens.  A begin is the comment from its "<!--" up to its "-->", which is
\* a token of its own: the user may have deleted it.
NoRender == <<>>
Begin(hash, r) == <<"begin", hash, r>>
Close == <<"close">>
End == <<"end">>            \* contains a "-->", too
Newline == <<"newline">>
Body(tmpl) == <<"body", tmpl>>
Line(n) == <<"line", n>>    \* of the user
Quote == <<"quote">>        \* a user's line with a ">" in it
Mention == <<"mention">>    \* "<!-- pilot:begin" that no header follows
Matter == <<"matter">>        \* YAML frontmatter with the newlines after it
Kind(tok) == tok[1]

Tokens == ({"begin"} \X Nat \X ({NoRender} \cup (Nat \X Nat))) \cup ({"body", "line"} \X Nat)
          \cup {Close, End, Newline, Quote, Mention, Matter}
Texts == Seq(Tokens)

ASSUME BoundsAssumption == MaxEdits \in Nat /\ MaxEvents \in Nat
ASSUME WantsAssumption == Wants # <<>> /\ Wants \in Seq([hash : Nat, tmpl : Nat])
ASSUME UserAssumption == FirstFiles \subseteq Texts /\ UserTokens \subseteq Tokens
-----------------------------------------------------------------------------
(***************************************************************************)
(* Finding blocks.                                                         *)
(***************************************************************************)
\* The first position from i on of a token of these kinds, or none.
Next(s, i, kinds) ==
    LET at == {k \in i..Len(s) : Kind(s[k]) \in kinds}
    IN IF at = {} THEN Len(s) + 1 ELSE CHOOSE k \in at : \A j \in at : k <= j

\* markerHeaderRE on the begin at i: nothing with a ">" up to a "-->".
HeaderEnd(s, i) ==
    LET k == Next(s, i + 1, {"close", "end", "quote"})
    IN IF k <= Len(s) /\ Kind(s[k]) = "quote" THEN Len(s) + 1 ELSE k

AfterNewlines(s, i) ==
    LET other == {k \in i..Len(s) : s[k] # Newline}
    IN IF other = {} THEN Len(s) + 1 ELSE CHOOSE k \in other : \A j \in other : k <= j

Found(s, b, e) == [start |-> b, next |-> AfterNewlines(s, e + 1),
                   hash |-> s[b][2], r |-> s[b][3]]

BeginTokens == {"begin", "mention"}

\* Mutant: a begin is paired with the next end, whatever stands in between.
FindMarkersLazy(s) ==
    LET scan[pos \in 1..(Len(s) + 1)] ==
          LET headers == {i \in pos..Len(s) : Kind(s[i]) = "begin" /\ HeaderEnd(s, i) <= Len(s)}
              b == CHOOSE i \in headers : \A j \in headers : i <= j
              e == Next(s, HeaderEnd(s, b) + 1, {"end"})
          IN IF headers = {} \/ e > Len(s) THEN <<>>
             ELSE <<Found(s, b, e)>> \o scan[AfterNewlines(s, e + 1)]
    IN scan[1]

FindMarkers(s) ==
    LET scan[pos \in 1..(Len(s) + 1)] ==
          LET headers == {i \in pos..Len(s) : Kind(s[i]) = "begin" /\ HeaderEnd(s, i) <= Len(s)}
              b == CHOOSE i \in headers : \A j \in headers : i <= j
              c == HeaderEnd(s, b)
              e == Next(s, c + 1, {"end"})
              other == Next(s, b + 1, BeginTokens)
          IN IF headers = {} THEN <<>>
             ELSE IF other < c THEN scan[other]       \* the header ran into another begin
             ELSE IF e > Len(s) THEN <<>>
             ELSE IF other < e THEN scan[other]       \* orphan
             ELSE <<Found(s, b, e)>> \o scan[AfterNewlines(s, e + 1)]
    IN scan[1]
-----------------------------------------------------------------------------
(***************************************************************************)
(* Writing and removing blocks.                                            *)
(***************************************************************************)
\* Mutant: r= covers SKILL.md alone, as hash= does.
RenderedSkill(w) == <<Begin(w.hash, <<w.hash>>), Close, Body(w.tmpl), End, Newline>>

Rendered(w) == <<Begin(w.hash, <<w.hash, w.tmpl>>), Close, Body(w.tmpl), End, Newline>>

\* Mutant: text between two blocks goes with the second.
SpliceGreedy(s, blocks, new) ==
    SubSeq(s, 1, Head(blocks).start - 1) \o new \o SubSeq(s, Last(blocks).next, Len(s))

Splice(s, blocks, new) ==
    LET part(i) == SubSeq(s, blocks[i].next, IF i = Len(blocks) THEN Len(s) ELSE blocks[i + 1].start - 1)
    IN SubSeq(s, 1, Head(blocks).start - 1) \o new \o FlattenSeq([i \in DOMAIN blocks |-> part(i)])

TrimRight(s) ==
    LET text == {k \in DOMAIN s : s[k] # Newline}
    IN SubSeq(s, 1, IF text = {} THEN 0 ELSE CHOOSE k \in text : \A j \in text : j <= k)

\* Mutant: what is there is not trimmed.
AppendedUntrimmed(s, new) == s \o <<Newline, Newline>> \o new

\* After the frontmatter, and a blank line after the user's text.
Appended(s, new) ==
    LET body == TrimRight(s)
    IN IF body \in {<<>>, <<Matter>>} THEN body \o new ELSE body \o <<Newline, Newline>> \o new

\* writeMarker's next content, and stripMarkerFile's.
WithBlock(s, w) == LET blocks == FindMarkers(s) IN
    IF blocks = <<>> THEN Appended(s, Rendered(w)) ELSE Splice(s, blocks, Rendered(w))
WithoutBlocks(s) == LET blocks == FindMarkers(s) IN
    IF blocks = <<>> THEN s ELSE Splice(s, blocks, <<>>)

\* Mutant: a block is known by the hash of its SKILL.md alone.
IdenticalSkill(s, w) == LET blocks == FindMarkers(s) IN
    Len(blocks) = 1 /\ blocks[1].hash = w.hash

\* classifyMarker: anything else is absent or drifted, and written.
Identical(s, w) == LET blocks == FindMarkers(s) IN
    Len(blocks) = 1 /\ blocks[1].hash = w.hash /\ blocks[1].r = <<w.hash, w.tmpl>>
-----------------------------------------------------------------------------
(***************************************************************************)
(* The released binary: its regexp pairs a begin with the next end, it     *)
(* compares the first match's hash, rewrites every match, and its          *)
(* replacement garbles the body.                                           *)
(***************************************************************************)
OldMatches(s) ==
    LET EndOf(i) == Next(s, HeaderEnd(s, i) + 1, {"end"})
        scan[pos \in 1..(Len(s) + 1)] ==
          LET headers == {i \in pos..Len(s) : Kind(s[i]) = "begin" /\ EndOf(i) <= Len(s)}
              b == CHOOSE i \in headers : \A j \in headers : i <= j
          IN IF headers = {} THEN <<>>
             ELSE <<Found(s, b, EndOf(b))>> \o scan[AfterNewlines(s, EndOf(b) + 1)]
    IN scan[1]

OldBlock(hash) == <<Begin(hash, NoRender), Close, Body(0), End, Newline>>

OldWritten(s, hash) ==
    LET found == OldMatches(s)
        part(i) == SubSeq(s, found[i].next, IF i = Len(found) THEN Len(s) ELSE found[i + 1].start - 1)
    IN IF found = <<>> THEN TrimRight(s) \o <<Newline, Newline>> \o OldBlock(hash)
       ELSE IF Head(found).hash = hash THEN s
       ELSE SubSeq(s, 1, Head(found).start - 1)
            \o FlattenSeq([i \in DOMAIN found |-> OldBlock(hash) \o part(i)])
-----------------------------------------------------------------------------
(***************************************************************************)
(* Blocks by definition: a begin, its "-->" with nothing in between that   *)
(* ends a header, and the next end, with no other begin on the way.        *)
(***************************************************************************)
IsBlock(s, b, e) ==
    /\ \E c \in (b + 1)..(e - 1) :
         /\ s[c] \in {Close, End}
         /\ \A k \in (b + 1)..(c - 1) : s[k] \notin {Close, End, Quote}
         /\ \A k \in (c + 1)..(e - 1) : s[k] # End
    /\ \A k \in (b + 1)..(e - 1) : Kind(s[k]) \notin BeginTokens

Positions(s, kind) == {i \in DOMAIN s : Kind(s[i]) = kind}
Blocks(s) == {x \in Positions(s, "begin") \X Positions(s, "end") : x[1] < x[2] /\ IsBlock(s, x[1], x[2])}
Outside(s) == DOMAIN s \ UNION {x[1]..x[2] : x \in Blocks(s)}
IsUsers(tok) == Kind(tok) \in {"line", "quote", "matter", "mention"}

\* What stands at these positions, in order.
Kept(s, at) == FlattenSeq([k \in DOMAIN s |-> IF k \in at THEN <<s[k]>> ELSE <<>>])

\* The user's part of a text: what is theirs, outside of every block.
UsersPart(s) == Kept(s, {k \in Outside(s) : IsUsers(s[k])})

\* Delimiters that belong to no block, a begin before an end: if what stands
\* between them goes, they are one.
Joinable(s) == \E i \in Positions(s, "begin") \cap Outside(s),
                   j \in Positions(s, "end") \cap Outside(s) : i < j
-----------------------------------------------------------------------------
(***************************************************************************)
(* The file, and who rewrites it.                                          *)
(***************************************************************************)
VARIABLES
    there, text,  \* the file
    mode,   \* has it the permissions the user gave it (0644 if none)?
    want,   \* index of what upstream has published
    op,     \* process -> what it is doing to the file
    users,  \* history: the user's part of the text they last saved
    spoilt, \* history: what can lose the permissions has come since the user set them
    edits, events

file == <<there, text, mode>>
history == <<users, spoilt>>
bounds == <<edits, events>>
vars == <<file, want, op, history, bounds>>

Idle == [pc |-> "idle", kind |-> "tick", want |-> 1, next |-> <<>>, mode |-> TRUE, stale |-> FALSE]

TypeOK == /\ there \in BOOLEAN /\ text \in Texts /\ mode \in BOOLEAN
          /\ want \in DOMAIN Wants
          /\ op \in [Procs -> [pc : {"idle", "classify", "read", "stat", "swap", "chmod"},
                               kind : {"tick", "strip"}, want : DOMAIN Wants, next : Texts,
                               mode : BOOLEAN, stale : BOOLEAN]]
          /\ users \in [part : Texts, joinable : BOOLEAN]
          /\ spoilt \in BOOLEAN
          /\ edits \in 0..MaxEdits /\ events \in 0..MaxEvents

Users(s) == [part |-> UsersPart(s), joinable |-> Joinable(s)]

Init == /\ there \in BOOLEAN
        /\ text \in IF there THEN FirstFiles ELSE {<<>>}
        /\ mode = TRUE
        /\ want = 1
        /\ op = [p \in Procs |-> Idle]
        /\ users = Users(text)
        /\ spoilt = FALSE
        /\ edits = 0 /\ events = 0

Event == events < MaxEvents /\ events' = events + 1
Busy(p, pcs) == op[p].pc \in pcs

\* The file has changed: what the others have read of it is stale.
Outdated(others) == [q \in Procs |->
    IF q \in others THEN [op[q] EXCEPT !.stale = Busy(q, {"stat", "swap"})] ELSE op[q]]

\* A pass comes to its marker, or Uninstall or the retired prune to a strip.
Tick(p) == /\ Busy(p, {"idle"})
           /\ op' = [op EXCEPT ![p] = [Idle EXCEPT !.pc = "classify", !.want = want]]
           /\ UNCHANGED <<file, want, history, bounds>>

Strip(p) == /\ Busy(p, {"idle"}) /\ p # Daemon
            /\ Event
            /\ op' = [op EXCEPT ![p] = [Idle EXCEPT !.pc = "read", !.kind = "strip"]]
            /\ UNCHANGED <<file, want, history, edits>>

Classify(p) == /\ Busy(p, {"classify"})
               /\ op' = [op EXCEPT ![p] = IF there /\ Identical(text, Wants[@.want]) THEN Idle
                                          ELSE [@ EXCEPT !.pc = "read"]]
               /\ UNCHANGED <<file, want, history, bounds>>

\* writeMarker and stripMarkerFile read the file themselves; a strip that
\* finds no block leaves it alone.
Read(p) ==
    /\ Busy(p, {"read"})
    /\ LET w == Wants[op[p].want]
           next == IF op[p].kind = "strip" THEN WithoutBlocks(text)
                   ELSE IF there THEN WithBlock(text, w) ELSE Rendered(w)
       IN op' = [op EXCEPT ![p] = IF @.kind = "strip" /\ FindMarkers(text) = <<>> THEN Idle
                                  ELSE [@ EXCEPT !.pc = "stat", !.next = next]]
    /\ UNCHANGED <<file, want, history, bounds>>

\* Mutant: a new file's permissions, whatever the file had.
StatDefault(p) == /\ Busy(p, {"stat"})
                  /\ op' = [op EXCEPT ![p].pc = "swap", ![p].mode = ~there]
                  /\ UNCHANGED <<file, want, history, bounds>>

\* writeUserFile: the permissions to restore.  Those of a file that another
\* process has just replaced are the temp's.
Stat(p) == /\ Busy(p, {"stat"})
           /\ op' = [op EXCEPT ![p].pc = "swap", ![p].mode = there => mode]
           /\ spoilt' = (spoilt \/ \E q \in Procs : Busy(q, {"chmod"}))
           /\ UNCHANGED <<file, want, users, bounds>>

\* The rename of a temp that is 0600.  The text it replaces is the one that p has read, unless stale.
Swap(p) == /\ Busy(p, {"swap"})
           /\ there' = TRUE /\ text' = op[p].next /\ mode' = FALSE
           /\ users' = IF op[p].stale THEN Users(op[p].next) ELSE users
           /\ op' = [Outdated(Procs \ {p}) EXCEPT ![p] = [Idle EXCEPT !.pc = "chmod", !.mode = op[p].mode]]
           /\ UNCHANGED <<want, spoilt, bounds>>

Chmod(p) == /\ Busy(p, {"chmod"})
            /\ mode' = op[p].mode
            /\ op' = [op EXCEPT ![p] = Idle]
            /\ UNCHANGED <<there, text, want, history, bounds>>

\* An error return, or the process dies.
GiveUp(p) == /\ ~Busy(p, {"idle"})
             /\ Event
             /\ op' = [op EXCEPT ![p] = Idle]
             /\ spoilt' = (spoilt \/ Busy(p, {"chmod"}))
             /\ UNCHANGED <<file, want, users, edits>>

\* A pass of the released binary, as far as this file is concerned.  Its rename
\* puts a file of its own in place, with the permissions of a new one
\* (CHANGELOG.md:93-96).
OldTick == LET next == IF there THEN OldWritten(text, Wants[want].hash) ELSE OldBlock(Wants[want].hash) IN
    /\ next # text
    /\ there' = TRUE /\ text' = next /\ mode' = ~there
    /\ users' = Users(next)
    /\ op' = Outdated(Procs)
    /\ spoilt' = (spoilt \/ there)
    /\ UNCHANGED <<want, bounds>>

Publish == /\ want < Len(Wants)
           /\ Event
           /\ want' = want + 1
           /\ UNCHANGED <<file, op, history, edits>>

\* The user deletes or inserts something: a line, or a delimiter of a block.
UserSaves ==
    /\ there /\ edits < MaxEdits
    /\ \/ \E i \in DOMAIN text : text' = RemoveAt(text, i)
       \/ \E i \in 1..(Len(text) + 1), tok \in UserTokens : text' = InsertAt(text, i, tok)
    /\ users' = Users(text')
    /\ edits' = edits + 1
    /\ op' = Outdated(Procs)
    /\ UNCHANGED <<there, mode, want, spoilt, events>>

\* What a replacement in progress has noted is not what the user wants any
\* more; if there is none, nothing of before matters.
UserChmods ==
    /\ there
    /\ Event
    /\ mode' = TRUE
    /\ op' = [p \in Procs |-> IF Busy(p, {"swap", "chmod"}) THEN [op[p] EXCEPT !.mode = FALSE] ELSE op[p]]
    /\ spoilt' = \E p \in Procs : Busy(p, {"swap", "chmod"})
    /\ UNCHANGED <<there, text, want, users, edits>>

Step(p) == Classify(p) \/ Read(p) \/ Stat(p) \/ Swap(p) \/ Chmod(p)

NextStep == \/ \E p \in Procs : Tick(p) \/ Strip(p) \/ Step(p) \/ GiveUp(p)
            \/ OldTick \/ Publish \/ UserSaves \/ UserChmods

\* The daemon goes on ticking, and a pass gets on with its work: weak fairness
\* of Tick and Step, written out because one of the two is always enabled.
\* Nothing is assumed of pilotctl, the released binary, upstream or the user.
Fairness == []<><<Tick(Daemon) \/ Step(Daemon)>>_vars

Spec == Init /\ [][NextStep]_vars /\ Fairness
-----------------------------------------------------------------------------
\* The scan finds the blocks, and nothing else, whatever delimiters the user
\* deleted, doubled or left behind (findMarkers).
FindsBlocks == {<<x.start, x.next>> : x \in ToSet(FindMarkers(text))}
               = {<<x[1], AfterNewlines(text, x[2] + 1)>> : x \in Blocks(text)}

\* A replacement keeps every line of the user that is not inside a block, in
\* order, and all of the file it knows no block in; unless somebody saved
\* since it read (reconcile.go:244-283, uninstall.go:263).
KeepsUsersPart ==
    [][\A p \in Procs : Swap(p) /\ there /\ ~op[p].stale
         => Kept(text', {k \in DOMAIN text' : IsUsers(text'[k])}) = UsersPart(text)]_vars

\* "the next rewrite or strip would delete the user's text" (reconcile.go:
\* 164-168) does not happen: what stood outside of every block when the user
\* last saved is still there.
UsersTextSurvives == ToSet(users.part) \subseteq ToSet(text)

\* It does not happen as long as the user left no begin and end that the
\* removal of a block between them would join.
TidyTextSurvives == ~users.joinable => UsersTextSurvives

\* Installing and stripping again and again adds no blank lines: from the
\* second time on the text is what it was (writeMarker, stripMarkerFile).
CycleSettles ==
    ~Joinable(text) =>
        \A w \in ToSet(Wants) : LET Cycle(s) == WithoutBlocks(WithBlock(s, w))
                                    once == Cycle(WithoutBlocks(text))
                                IN Cycle(once) = once

\* The file keeps the permissions the user gave it, whatever passes and
\* strips did since; they are lost only by a pass of the released binary that
\* rewrites the file, by a crash or another process's stat just between a
\* rename and its chmod, or by a chmod of the user's in the middle of a
\* replacement (reconcile.go:330-345, CHANGELOG.md:93-96).
ModeKept == ~spoilt /\ (\A p \in Procs : ~Busy(p, {"chmod"})) => mode

\* Once pilotctl has nothing more to do with it, the file settles at one block,
\* the published one, whatever the user and crashes left in it, and with the
\* released binary ticking on: it leaves that block alone (reconcile.go:98-119).
Healed == /\ there
          /\ Cardinality(Blocks(text)) = 1
          /\ \A x \in Blocks(text) : text[x[1]] = Head(Rendered(Wants[want]))
Heals == (<>[](\A p \in Procs \ {Daemon} : Busy(p, {"idle"}))) => <>[]Healed
=============================================================================
