-------------------------- MODULE MarkerFile_proofs --------------------------
(***************************************************************************)
(* What holds of a heartbeat file for any number of processes, any texts   *)
(* and any publications: its permissions survive, the scan finds every     *)
(* block, a rewrite keeps the user's lines and joins no delimiters of      *)
(* theirs, and installing and stripping again adds nothing.                *)
(***************************************************************************)
EXTENDS MarkerFile, SequenceFacts

\* What a process does is a record of the six fields, whatever they hold.
Shape == /\ op = [p \in Procs |-> op[p]]
         /\ \A p \in Procs :
              op[p] = [pc |-> op[p].pc, kind |-> op[p].kind, want |-> op[p].want,
                       next |-> op[p].next, mode |-> op[p].mode, stale |-> op[p].stale]

\* Until something spoils it, what a replacement is going to restore are the
\* user's permissions.
NotesMode == ~spoilt => \A p \in Procs : Busy(p, {"swap", "chmod"}) => op[p].mode

ModeInv == Shape /\ NotesMode /\ ModeKept

\* The content that writeMarker, or stripMarkerFile, makes of the file.
Asked(p) == LET w == Wants[op[p].want] IN
    IF op[p].kind = "strip" THEN WithoutBlocks(text)
    ELSE IF there THEN WithBlock(text, w) ELSE Rendered(w)

Fresh == \A p \in Procs : Busy(p, {"stat", "swap"}) /\ ~op[p].stale => op[p].next = Asked(p)
FreshInv == Shape /\ Fresh
-----------------------------------------------------------------------------
(***************************************************************************)
(* The shape of the records.                                               *)
(***************************************************************************)
LEMMA InitShape == Init => Shape
  BY DEF Init, Shape, Idle

LEMMA StepShape == Shape /\ [NextStep]_vars => Shape'
<1> SUFFICES ASSUME Shape, [NextStep]_vars PROVE Shape'
  OBVIOUS
<1>1. CASE UNCHANGED vars
  BY <1>1 DEF Shape, vars
<1>2. ASSUME NEW p \in Procs, Tick(p) PROVE Shape'
  BY <1>2 DEF Tick, Idle, Shape
<1>3. ASSUME NEW p \in Procs, Strip(p) PROVE Shape'
  BY <1>3 DEF Strip, Idle, Shape
<1>4. ASSUME NEW p \in Procs, Classify(p) PROVE Shape'
  BY <1>4 DEF Classify, Idle, Shape
<1>5. ASSUME NEW p \in Procs, Read(p) PROVE Shape'
  BY <1>5 DEF Read, Idle, Shape
<1>6. ASSUME NEW p \in Procs, Stat(p) PROVE Shape'
  BY <1>6 DEF Stat, Shape
<1>7. ASSUME NEW p \in Procs, Swap(p) PROVE Shape'
  BY <1>7 DEF Swap, Outdated, Idle, Shape
<1>8. ASSUME NEW p \in Procs, Chmod(p) PROVE Shape'
  BY <1>8 DEF Chmod, Idle, Shape
<1>9. ASSUME NEW p \in Procs, GiveUp(p) PROVE Shape'
  BY <1>9 DEF GiveUp, Idle, Shape
<1>10. CASE OldTick
  BY <1>10 DEF OldTick, Outdated, Shape
<1>11. CASE Publish
  BY <1>11 DEF Publish, Shape
<1>12. CASE UserSaves
  BY <1>12 DEF UserSaves, Outdated, Shape
<1>13. CASE UserChmods
  BY <1>13 DEF UserChmods, Shape
<1> QED
  BY <1>1, <1>2, <1>3, <1>4, <1>5, <1>6, <1>7, <1>8, <1>9, <1>10, <1>11, <1>12, <1>13
     DEF NextStep, Step
-----------------------------------------------------------------------------
(***************************************************************************)
(* The permissions.                                                        *)
(***************************************************************************)
LEMMA InitModeInv == Init => ModeInv
<1> SUFFICES ASSUME Init PROVE ModeInv
  OBVIOUS
<1>1. Shape
  BY InitShape
<1>2. mode = TRUE /\ \A p \in Procs : ~Busy(p, {"swap", "chmod"})
  BY DEF Init, Idle, Busy
<1> QED
  BY <1>1, <1>2 DEF ModeInv, NotesMode, ModeKept

LEMMA StepModeInv == ModeInv /\ [NextStep]_vars => ModeInv'
<1> SUFFICES ASSUME ModeInv, [NextStep]_vars PROVE ModeInv'
  OBVIOUS
<1> Shape /\ Shape'
  BY StepShape DEF ModeInv
\* A process that starts something, or goes on reading, has no replacement in hand.
<1>1. ASSUME NEW p \in Procs, UNCHANGED mode, ~spoilt' => ~spoilt, ~Busy(p, {"chmod"}),
             ~Busy(p, {"swap", "chmod"})',
             \A q \in Procs \ {p} : op'[q].pc = op[q].pc /\ op'[q].mode = op[q].mode
      PROVE ModeInv'
  BY <1>1 DEF ModeInv, NotesMode, ModeKept, Busy
\* The others' work is not touched, or only marked stale.
<1>2. ASSUME UNCHANGED <<mode, spoilt>>,
             \A q \in Procs : op'[q].pc = op[q].pc /\ op'[q].mode = op[q].mode
      PROVE ModeInv'
  BY <1>2 DEF ModeInv, NotesMode, ModeKept, Busy
<1>3. CASE UNCHANGED vars
  BY <1>2, <1>3 DEF vars, file, history
<1>4. ASSUME NEW p \in Procs, Tick(p) PROVE ModeInv'
  <2>1. UNCHANGED <<mode, spoilt>> /\ \A q \in Procs \ {p} : op'[q] = op[q]
    BY <1>4 DEF Tick, Shape, file, history
  <2>2. Busy(p, {"idle"}) /\ op'[p].pc \in {"classify"}
    BY <1>4 DEF Tick, Idle, Shape
  <2> QED
    BY <1>1, <2>1, <2>2 DEF Busy
<1>5. ASSUME NEW p \in Procs, Strip(p) PROVE ModeInv'
  <2>1. UNCHANGED <<mode, spoilt>> /\ \A q \in Procs \ {p} : op'[q] = op[q]
    BY <1>5 DEF Strip, Shape, file, history
  <2>2. Busy(p, {"idle"}) /\ op'[p].pc \in {"read"}
    BY <1>5 DEF Strip, Idle, Shape
  <2> QED
    BY <1>1, <2>1, <2>2 DEF Busy
<1>6. ASSUME NEW p \in Procs, Classify(p) PROVE ModeInv'
  <2>1. UNCHANGED <<mode, spoilt>> /\ \A q \in Procs \ {p} : op'[q] = op[q]
    BY <1>6 DEF Classify, Shape, file, history
  <2>2. Busy(p, {"classify"}) /\ op'[p].pc \in {"idle", "read"}
    BY <1>6 DEF Classify, Idle, Shape
  <2> QED
    BY <1>1, <2>1, <2>2 DEF Busy
<1>7. ASSUME NEW p \in Procs, Read(p) PROVE ModeInv'
  <2>1. UNCHANGED <<mode, spoilt>> /\ \A q \in Procs \ {p} : op'[q] = op[q]
    BY <1>7 DEF Read, Shape, file, history
  <2>2. Busy(p, {"read"}) /\ op'[p].pc \in {"idle", "stat"}
    BY <1>7 DEF Read, Idle, Shape
  <2> QED
    BY <1>1, <2>1, <2>2 DEF Busy
<1>8. ASSUME NEW p \in Procs, Stat(p) PROVE ModeInv'
  \* With no chmod outstanding the file has the user's permissions.
  <2>1. ~spoilt' => ~spoilt /\ mode /\ \A q \in Procs : ~Busy(q, {"chmod"})
    BY <1>8 DEF Stat, ModeInv, ModeKept
  <2>2. ~spoilt' => op'[p].mode
    <3> DEFINE v == there => mode
    <3>1. op' = [op EXCEPT ![p].pc = "swap", ![p].mode = v]
      BY <1>8 DEF Stat
    <3>2. ~spoilt' => v
      BY <2>1
    <3>3. DOMAIN op = Procs /\ p \in Procs
      BY DEF Shape
    <3>4. DOMAIN op[p] = {"pc", "kind", "want", "next", "mode", "stale"}
      BY DEF Shape
    <3> HIDE DEF v, Shape
    <3>5. op'[p] = [op[p] EXCEPT !.pc = "swap", !.mode = v]
      BY <3>1, <3>3
    <3>6. op'[p].mode = v
      BY <3>4, <3>5
    <3> QED
      BY <3>2, <3>6
  <2>3. \A q \in Procs \ {p} : op'[q] = op[q]
    BY <1>8 DEF Stat, Shape
  <2>4. NotesMode'
    BY <2>1, <2>2, <2>3 DEF NotesMode, ModeInv, Busy
  <2> QED
    BY <1>8, <2>1, <2>4 DEF Stat, ModeInv, ModeKept, file
<1>9. ASSUME NEW p \in Procs, Swap(p) PROVE ModeInv'
  <2>1. /\ op'[p].pc = "chmod" /\ op'[p].mode = op[p].mode
        /\ \A q \in Procs \ {p} : op'[q].pc = op[q].pc /\ op'[q].mode = op[q].mode
    BY <1>9 DEF Swap, Outdated, Idle, Shape
  <2>2. NotesMode'
    BY <1>9, <2>1 DEF Swap, NotesMode, ModeInv, Busy
  <2> QED
    BY <2>1, <2>2 DEF ModeInv, ModeKept, Busy
<1>10. ASSUME NEW p \in Procs, Chmod(p) PROVE ModeInv'
  <2>1. op'[p] = Idle /\ \A q \in Procs \ {p} : op'[q] = op[q]
    BY <1>10 DEF Chmod, Shape
  <2>2. mode' = op[p].mode /\ spoilt' = spoilt /\ Busy(p, {"chmod"})
    BY <1>10 DEF Chmod, history
  <2>3. ~spoilt' => mode'
    BY <2>2 DEF ModeInv, NotesMode, Busy
  <2>4. NotesMode'
    BY <2>1, <2>2 DEF NotesMode, ModeInv, Busy, Idle
  <2> QED
    BY <2>3, <2>4 DEF ModeInv, ModeKept
<1>11. ASSUME NEW p \in Procs, GiveUp(p) PROVE ModeInv'
  <2>1. op'[p] = Idle /\ \A q \in Procs \ {p} : op'[q] = op[q]
    BY <1>11 DEF GiveUp, Shape
  <2>2. CASE Busy(p, {"chmod"})
    BY <1>11, <2>2 DEF GiveUp, ModeInv, NotesMode, ModeKept
  <2>3. CASE ~Busy(p, {"chmod"})
    <3>1. UNCHANGED mode /\ (~spoilt' => ~spoilt)
      BY <1>11 DEF GiveUp, file
    <3>2. ~Busy(p, {"swap", "chmod"})'
      BY <2>1 DEF Busy, Idle
    <3>3. \A q \in Procs \ {p} : op'[q].pc = op[q].pc /\ op'[q].mode = op[q].mode
      BY <2>1
    <3> QED
      BY <1>1, <2>3, <3>1, <3>2, <3>3
  <2> QED
    BY <2>2, <2>3
<1>12. CASE OldTick
  <2>1. mode' = ~there /\ spoilt' = (spoilt \/ there)
    BY <1>12 DEF OldTick
  <2>2. \A q \in Procs : op'[q].pc = op[q].pc /\ op'[q].mode = op[q].mode
    BY <1>12 DEF OldTick, Outdated, Shape
  <2>3. NotesMode'
    BY <2>1, <2>2 DEF NotesMode, ModeInv, Busy
  <2> QED
    BY <2>1, <2>3 DEF ModeInv, ModeKept
<1>13. CASE Publish
  BY <1>2, <1>13 DEF Publish, file, history
<1>14. CASE UserSaves
  BY <1>2, <1>14 DEF UserSaves, Outdated, Shape
<1>15. CASE UserChmods
  <2>1. mode' = TRUE
    BY <1>15 DEF UserChmods
  <2>2. ~spoilt' => \A p \in Procs : ~Busy(p, {"swap", "chmod"})
    BY <1>15 DEF UserChmods
  <2>3. \A p \in Procs : op'[p].pc = op[p].pc
    BY <1>15 DEF UserChmods, Shape
  <2> QED
    BY <2>1, <2>2, <2>3 DEF ModeInv, NotesMode, ModeKept, Busy
<1> QED
  BY <1>3, <1>4, <1>5, <1>6, <1>7, <1>8, <1>9, <1>10, <1>11, <1>12, <1>13, <1>14, <1>15
     DEF NextStep, Step

\* The file keeps the permissions the user gave it (writeUserFile), whatever
\* the number of processes and whatever they write, unless something has come
\* since that can lose them: a pass of the released binary, a crash or a stat
\* between a rename and its chmod, a chmod in the middle of a replacement.
THEOREM ModeSurvives == Spec => []ModeKept
<1>1. ModeInv => ModeKept
  BY DEF ModeInv
<1> QED
  BY InitModeInv, StepModeInv, <1>1, PTL DEF Spec
-----------------------------------------------------------------------------
(***************************************************************************)
(* What a replacement writes.                                              *)
(***************************************************************************)
LEMMA InitFresh == Init => FreshInv
<1> SUFFICES ASSUME Init PROVE FreshInv
  OBVIOUS
<1>1. \A p \in Procs : ~Busy(p, {"stat", "swap"})
  BY DEF Init, Idle, Busy
<1> QED
  BY <1>1, InitShape DEF FreshInv, Fresh

LEMMA StepFresh == FreshInv /\ [NextStep]_vars => FreshInv'
<1> SUFFICES ASSUME FreshInv, [NextStep]_vars PROVE FreshInv'
  OBVIOUS
<1> Shape /\ Shape'
  BY StepShape DEF FreshInv
\* One process moves, and the file stays.
<1>1. ASSUME NEW p \in Procs, UNCHANGED <<there, text>>, ~Busy(p, {"stat", "swap"})',
             \A q \in Procs \ {p} : op'[q] = op[q]
      PROVE FreshInv'
  BY <1>1 DEF FreshInv, Fresh, Asked, Busy
\* The file changes, and everyone who has read it holds something stale.
<1>2. ASSUME \A q \in Procs : Busy(q, {"stat", "swap"})' => op'[q].stale
      PROVE FreshInv'
  BY <1>2 DEF FreshInv, Fresh
<1>3. CASE UNCHANGED vars
  BY <1>3 DEF vars, file, FreshInv, Fresh, Asked, Busy
<1>4. ASSUME NEW p \in Procs, Tick(p) PROVE FreshInv'
  BY <1>1, <1>4 DEF Tick, Busy, Idle, Shape, file
<1>5. ASSUME NEW p \in Procs, Strip(p) PROVE FreshInv'
  BY <1>1, <1>5 DEF Strip, Busy, Idle, Shape, file
<1>6. ASSUME NEW p \in Procs, Classify(p) PROVE FreshInv'
  BY <1>1, <1>6 DEF Classify, Busy, Idle, Shape, file
<1>7. ASSUME NEW p \in Procs, Read(p) PROVE FreshInv'
  <2>1. UNCHANGED <<there, text>> /\ \A q \in Procs \ {p} : op'[q] = op[q]
    BY <1>7 DEF Read, file, Shape
  <2>2. \/ op'[p].kind = op[p].kind /\ op'[p].want = op[p].want
        \/ ~Busy(p, {"stat", "swap"})'
    BY <1>7 DEF Read, Busy, Idle, Shape
  <2>3. op'[p].next = Asked(p) \/ ~Busy(p, {"stat", "swap"})'
    BY <1>7 DEF Read, Busy, Idle, Shape, Asked
  <2> QED
    BY <2>1, <2>2, <2>3 DEF FreshInv, Fresh, Asked, Busy
<1>8. ASSUME NEW p \in Procs, Stat(p) PROVE FreshInv'
  <2>1. UNCHANGED <<there, text>> /\ Busy(p, {"stat"}) /\ \A q \in Procs \ {p} : op'[q] = op[q]
    BY <1>8 DEF Stat, Shape, file
  <2>2. op'[p].kind = op[p].kind /\ op'[p].want = op[p].want
        /\ op'[p].next = op[p].next /\ op'[p].stale = op[p].stale
    BY <1>8 DEF Stat, Shape
  <2> QED
    BY <2>1, <2>2 DEF FreshInv, Fresh, Asked, Busy
<1>9. ASSUME NEW p \in Procs, Swap(p) PROVE FreshInv'
  <2>1. ~Busy(p, {"stat", "swap"})'
    BY <1>9 DEF Swap, Busy, Idle, Shape
  <2>2. \A q \in Procs \ {p} : op'[q].pc = op[q].pc /\ op'[q].stale = Busy(q, {"stat", "swap"})
    BY <1>9 DEF Swap, Outdated, Shape
  <2> QED
    BY <1>2, <2>1, <2>2 DEF Busy
<1>10. ASSUME NEW p \in Procs, Chmod(p) PROVE FreshInv'
  BY <1>1, <1>10 DEF Chmod, Busy, Idle, Shape
<1>11. ASSUME NEW p \in Procs, GiveUp(p) PROVE FreshInv'
  BY <1>1, <1>11 DEF GiveUp, Busy, Idle, Shape, file
<1>12. CASE OldTick \/ UserSaves
  <2>1. \A q \in Procs : op'[q].pc = op[q].pc /\ op'[q].stale = Busy(q, {"stat", "swap"})
    BY <1>12 DEF OldTick, UserSaves, Outdated, Shape
  <2> QED
    BY <1>2, <2>1 DEF Busy
<1>13. CASE Publish
  BY <1>13 DEF Publish, file, FreshInv, Fresh, Asked, Busy
<1>14. CASE UserChmods
  <2>1. \A q \in Procs : /\ op'[q].pc = op[q].pc /\ op'[q].kind = op[q].kind
                         /\ op'[q].want = op[q].want /\ op'[q].next = op[q].next
                         /\ op'[q].stale = op[q].stale
    BY <1>14 DEF UserChmods, Shape
  <2>2. UNCHANGED <<there, text>>
    BY <1>14 DEF UserChmods
  <2> QED
    BY <2>1, <2>2 DEF FreshInv, Fresh, Asked, Busy
<1> QED
  BY <1>3, <1>4, <1>5, <1>6, <1>7, <1>8, <1>9, <1>10, <1>11, <1>12, <1>13, <1>14
     DEF NextStep, Step

\* Every replacement of a file that nobody saved since it was read is the
\* pure operator applied to the text it replaces (writeMarker and
\* stripMarkerFile read the file once): what TLC checks of WithBlock and
\* WithoutBlocks on a text is what happens to the file.
THEOREM ReplacesWhatItRead ==
    Spec => [][\A p \in Procs : Swap(p) /\ ~op[p].stale => text' = Asked(p)]_vars
<1>1. FreshInv /\ [NextStep]_vars
      => [\A p \in Procs : Swap(p) /\ ~op[p].stale => text' = Asked(p)]_vars
  BY DEF FreshInv, Fresh, Swap, Busy
<1> QED
  BY InitFresh, StepFresh, <1>1, PTL DEF Spec
-----------------------------------------------------------------------------
(***************************************************************************)
(* The scan.                                                               *)
(***************************************************************************)
\* A token is known by its kind, except what begins a block and what has a number.
LEMMA TokenKinds ==
    \A t \in Tokens : /\ t = Close <=> Kind(t) = "close"
                      /\ t = End <=> Kind(t) = "end"
                      /\ t = Newline <=> Kind(t) = "newline"
                      /\ t = Quote <=> Kind(t) = "quote"
  BY DEF Tokens, Kind, Close, End, Newline, Quote, Mention, Matter

LEMMA NextIs ==
    ASSUME NEW s \in Texts, NEW kinds, NEW i \in 1..(Len(s) + 1)
    PROVE  /\ Next(s, i, kinds) \in i..(Len(s) + 1)
           /\ \A k \in i..(Next(s, i, kinds) - 1) : Kind(s[k]) \notin kinds
           /\ Next(s, i, kinds) <= Len(s) => Kind(s[Next(s, i, kinds)]) \in kinds
<1> DEFINE at == {k \in i..Len(s) : Kind(s[k]) \in kinds}
           n == Next(s, i, kinds)
<1>1. Len(s) \in Nat
  BY DEF Texts
<1>2. CASE at = {}
  <2>1. n = Len(s) + 1
    BY <1>2 DEF Next
  <2> QED
    BY <1>1, <1>2, <2>1
<1>3. CASE at # {}
  <2>1. at \in SUBSET Nat
    BY <1>1
  <2>2. \E k \in at : \A j \in at : k <= j
    <3> HIDE DEF at
    <3> QED BY <1>3, <2>1, LeastNat
  <2>3. n = CHOOSE k \in at : \A j \in at : k <= j
    BY <1>3 DEF Next
  <2>4. n \in at /\ \A j \in at : n <= j
    <3> HIDE DEF at, n
    <3> QED BY <2>2, <2>3
  <2> QED
    BY <1>1, <2>4
<1> QED
  BY <1>2, <1>3

LEMMA AfterNewlinesIs ==
    ASSUME NEW s \in Texts, NEW i \in 1..(Len(s) + 1)
    PROVE  /\ AfterNewlines(s, i) \in i..(Len(s) + 1)
           /\ \A k \in i..(AfterNewlines(s, i) - 1) : s[k] = Newline
           /\ AfterNewlines(s, i) <= Len(s) => s[AfterNewlines(s, i)] # Newline
<1> DEFINE other == {k \in i..Len(s) : s[k] # Newline}
           n == AfterNewlines(s, i)
<1>1. Len(s) \in Nat
  BY DEF Texts
<1>2. CASE other = {}
  <2>1. n = Len(s) + 1
    BY <1>2 DEF AfterNewlines
  <2> QED
    BY <1>1, <1>2, <2>1
<1>3. CASE other # {}
  <2>1. other \in SUBSET Nat
    BY <1>1
  <2>2. \E k \in other : \A j \in other : k <= j
    <3> HIDE DEF other
    <3> QED BY <1>3, <2>1, LeastNat
  <2>3. n = CHOOSE k \in other : \A j \in other : k <= j
    BY <1>3 DEF AfterNewlines
  <2>4. n \in other /\ \A j \in other : n <= j
    <3> HIDE DEF other, n
    <3> QED BY <2>2, <2>3
  <2> QED
    BY <1>1, <2>4
<1> QED
  BY <1>2, <1>3

\* The begin at b has its "-->" at c.
IsHeader(s, b, c) ==
    /\ c \in (b + 1)..Len(s) /\ Kind(s[c]) \in {"close", "end"}
    /\ \A k \in (b + 1)..(c - 1) : Kind(s[k]) \notin {"close", "end", "quote"}

LEMMA HeaderIs ==
    ASSUME NEW s \in Texts, NEW b \in 1..Len(s)
    PROVE  /\ HeaderEnd(s, b) \in Nat
           /\ \A c : IsHeader(s, b, c) <=> c = HeaderEnd(s, b) /\ HeaderEnd(s, b) <= Len(s)
<1> DEFINE k == Next(s, b + 1, {"close", "end", "quote"})
<1>1. Len(s) \in Nat /\ b + 1 \in 1..(Len(s) + 1)
  BY DEF Texts
<1>2. /\ k \in (b + 1)..(Len(s) + 1)
      /\ \A j \in (b + 1)..(k - 1) : Kind(s[j]) \notin {"close", "end", "quote"}
      /\ k <= Len(s) => Kind(s[k]) \in {"close", "end", "quote"}
  BY <1>1, NextIs
<1>3. HeaderEnd(s, b) = IF k <= Len(s) /\ Kind(s[k]) = "quote" THEN Len(s) + 1 ELSE k
  BY DEF HeaderEnd
<1> HIDE DEF k
<1>4. ASSUME NEW c, IsHeader(s, b, c) PROVE c = k
  <2>1. c \in (b + 1)..Len(s) /\ ~(c < k) /\ ~(k < c)
    BY <1>1, <1>2, <1>4 DEF IsHeader
  <2> QED
    BY <1>1, <1>2, <2>1
<1>5. ASSUME HeaderEnd(s, b) <= Len(s) PROVE IsHeader(s, b, HeaderEnd(s, b))
  BY <1>1, <1>2, <1>3, <1>5 DEF IsHeader
<1>6. ASSUME NEW c, IsHeader(s, b, c) PROVE HeaderEnd(s, b) = c /\ c <= Len(s)
  <2>1. c = k /\ k <= Len(s) /\ Kind(s[k]) # "quote"
    BY <1>1, <1>4, <1>6 DEF IsHeader
  <2> QED
    BY <1>3, <2>1
<1>7. HeaderEnd(s, b) \in Nat
  BY <1>1, <1>2, <1>3
<1> QED
  BY <1>5, <1>6, <1>7

\* A block is a begin, its header's end, and the end after that.
LEMMA BlockIs ==
    ASSUME NEW s \in Texts, NEW b, NEW e
    PROVE  <<b, e>> \in Blocks(s)
           <=> /\ b \in 1..Len(s) /\ Kind(s[b]) = "begin"
               /\ e \in 1..Len(s) /\ Kind(s[e]) = "end"
               /\ HeaderEnd(s, b) < e
               /\ \A k \in (HeaderEnd(s, b) + 1)..(e - 1) : Kind(s[k]) # "end"
               /\ \A k \in (b + 1)..(e - 1) : Kind(s[k]) \notin BeginTokens
<1>1. Len(s) \in Nat /\ DOMAIN s = 1..Len(s) /\ \A k \in 1..Len(s) : s[k] \in Tokens
  BY DEF Texts
<1>2. <<b, e>> \in Blocks(s) <=> /\ b \in 1..Len(s) /\ Kind(s[b]) = "begin"
                                 /\ e \in 1..Len(s) /\ Kind(s[e]) = "end"
                                 /\ b < e /\ IsBlock(s, b, e)
  BY <1>1 DEF Blocks, Positions
<1> SUFFICES ASSUME b \in 1..Len(s), e \in 1..Len(s), Kind(s[e]) = "end"
             PROVE  b < e /\ IsBlock(s, b, e)
                    <=> /\ HeaderEnd(s, b) < e
                        /\ \A k \in (HeaderEnd(s, b) + 1)..(e - 1) : Kind(s[k]) # "end"
                        /\ \A k \in (b + 1)..(e - 1) : Kind(s[k]) \notin BeginTokens
  BY <1>2
<1>3. \A c \in (b + 1)..(e - 1) :
        (/\ s[c] \in {Close, End}
         /\ \A k \in (b + 1)..(c - 1) : s[k] \notin {Close, End, Quote}
         /\ \A k \in (c + 1)..(e - 1) : s[k] # End)
        <=> IsHeader(s, b, c) /\ \A k \in (c + 1)..(e - 1) : Kind(s[k]) # "end"
  <2> SUFFICES ASSUME NEW c \in (b + 1)..(e - 1)
               PROVE  (/\ s[c] \in {Close, End}
                       /\ \A k \in (b + 1)..(c - 1) : s[k] \notin {Close, End, Quote}
                       /\ \A k \in (c + 1)..(e - 1) : s[k] # End)
                      <=> IsHeader(s, b, c) /\ \A k \in (c + 1)..(e - 1) : Kind(s[k]) # "end"
    OBVIOUS
  <2>1. \A k \in (b + 1)..(e - 1) : s[k] \in Tokens /\ k \in 1..Len(s)
    BY <1>1
  <2>2. s[c] \in {Close, End} <=> Kind(s[c]) \in {"close", "end"}
    BY <2>1, TokenKinds
  <2>3. \A k \in (b + 1)..(c - 1) : s[k] \notin {Close, End, Quote} <=> Kind(s[k]) \notin {"close", "end", "quote"}
    BY <2>1, TokenKinds
  <2>4. \A k \in (c + 1)..(e - 1) : s[k] # End <=> Kind(s[k]) # "end"
    BY <2>1, TokenKinds
  <2> QED
    BY <2>1, <2>2, <2>3, <2>4 DEF IsHeader
<1>4. b < e /\ IsBlock(s, b, e)
      <=> /\ \E c \in (b + 1)..(e - 1) : IsHeader(s, b, c) /\ \A k \in (c + 1)..(e - 1) : Kind(s[k]) # "end"
          /\ \A k \in (b + 1)..(e - 1) : Kind(s[k]) \notin BeginTokens
  BY <1>1, <1>3 DEF IsBlock
<1>5. /\ HeaderEnd(s, b) \in Nat
      /\ \A c : IsHeader(s, b, c) <=> c = HeaderEnd(s, b) /\ HeaderEnd(s, b) <= Len(s)
  BY HeaderIs
<1>6. \A c : IsHeader(s, b, c) => c \in (b + 1)..Len(s)
  BY DEF IsHeader
<1> QED
  BY <1>1, <1>4, <1>5, <1>6

\* What the scan does at a position: it takes a block or nothing, and goes on
\* from a later position or stops (0).
Headers(s, pos) == {i \in pos..Len(s) : Kind(s[i]) = "begin" /\ HeaderEnd(s, i) <= Len(s)}
FirstHeader(s, pos) == CHOOSE i \in Headers(s, pos) : \A j \in Headers(s, pos) : i <= j
EndAfter(s, b) == Next(s, HeaderEnd(s, b) + 1, {"end"})
OtherAfter(s, b) == Next(s, b + 1, BeginTokens)
Taken(s, pos) ==
    LET b == FirstHeader(s, pos) IN
    IF Headers(s, pos) = {} \/ EndAfter(s, b) > Len(s) \/ OtherAfter(s, b) < EndAfter(s, b) THEN <<>>
    ELSE <<Found(s, b, EndAfter(s, b))>>
Jump(s, pos) ==
    LET b == FirstHeader(s, pos) IN
    IF Headers(s, pos) = {} THEN 0
    ELSE IF OtherAfter(s, b) < HeaderEnd(s, b) THEN OtherAfter(s, b)
    ELSE IF EndAfter(s, b) > Len(s) THEN 0
    ELSE IF OtherAfter(s, b) < EndAfter(s, b) THEN OtherAfter(s, b)
    ELSE AfterNewlines(s, EndAfter(s, b) + 1)

BlocksFrom(s, pos) == {x \in Blocks(s) : x[1] >= pos}

\* The first header, its end and the begin and the end after it.
LEMMA FirstHeaderIs ==
    ASSUME NEW s \in Texts, NEW pos \in 1..(Len(s) + 1), Headers(s, pos) # {}
    PROVE  LET b == FirstHeader(s, pos)
               c == HeaderEnd(s, b)
               e == EndAfter(s, b)
               o == OtherAfter(s, b)
           IN /\ b \in pos..Len(s) /\ Kind(s[b]) = "begin"
              /\ \A i \in Headers(s, pos) : b <= i
              /\ c \in (b + 1)..Len(s) /\ Kind(s[c]) \in {"close", "end"}
              /\ e \in (c + 1)..(Len(s) + 1) /\ \A k \in (c + 1)..(e - 1) : Kind(s[k]) # "end"
              /\ e <= Len(s) => Kind(s[e]) = "end"
              /\ o \in (b + 1)..(Len(s) + 1) /\ \A k \in (b + 1)..(o - 1) : Kind(s[k]) \notin BeginTokens
              /\ o <= Len(s) => Kind(s[o]) \in BeginTokens
<1> DEFINE b == FirstHeader(s, pos)
           c == HeaderEnd(s, b)
<1>1. Len(s) \in Nat
  BY DEF Texts
<1>2. b \in Headers(s, pos) /\ \A i \in Headers(s, pos) : b <= i
  <2>1. Headers(s, pos) \in SUBSET Nat
    BY <1>1 DEF Headers
  <2>2. \E i \in Headers(s, pos) : \A j \in Headers(s, pos) : i <= j
    BY <2>1, LeastNat
  <2> QED
    BY <2>2 DEF FirstHeader
<1>3. b \in pos..Len(s) /\ b \in 1..Len(s) /\ Kind(s[b]) = "begin" /\ c <= Len(s)
  BY <1>1, <1>2 DEF Headers
<1> HIDE DEF b
<1>4. IsHeader(s, b, c)
  BY <1>3, HeaderIs
<1>5. c \in (b + 1)..Len(s) /\ Kind(s[c]) \in {"close", "end"}
  BY <1>4 DEF IsHeader
<1>6. c + 1 \in 1..(Len(s) + 1) /\ b + 1 \in 1..(Len(s) + 1)
  BY <1>1, <1>3, <1>5
<1> HIDE DEF c
<1>7. /\ EndAfter(s, b) \in (c + 1)..(Len(s) + 1)
      /\ \A k \in (c + 1)..(EndAfter(s, b) - 1) : Kind(s[k]) # "end"
      /\ EndAfter(s, b) <= Len(s) => Kind(s[EndAfter(s, b)]) = "end"
  <2>1. EndAfter(s, b) = Next(s, c + 1, {"end"})
    BY DEF EndAfter, c
  <2> QED
    BY <1>6, <2>1, NextIs
<1>8. /\ OtherAfter(s, b) \in (b + 1)..(Len(s) + 1)
      /\ \A k \in (b + 1)..(OtherAfter(s, b) - 1) : Kind(s[k]) \notin BeginTokens
      /\ OtherAfter(s, b) <= Len(s) => Kind(s[OtherAfter(s, b)]) \in BeginTokens
  BY <1>6, NextIs DEF OtherAfter
<1> QED
  BY <1>2, <1>3, <1>5, <1>7, <1>8 DEF b, c

\* A block's begin is a header, so none stands before the first one.
LEMMA BlocksHaveHeaders ==
    ASSUME NEW s \in Texts, NEW pos \in 1..(Len(s) + 1), NEW b, NEW e, <<b, e>> \in BlocksFrom(s, pos)
    PROVE  /\ b \in Headers(s, pos) /\ e \in Nat /\ e <= Len(s) /\ Kind(s[e]) = "end"
           /\ HeaderEnd(s, b) \in (b + 1)..(e - 1)
           /\ \A k \in (b + 1)..(e - 1) : Kind(s[k]) \notin BeginTokens
           /\ \A k \in (HeaderEnd(s, b) + 1)..(e - 1) : Kind(s[k]) # "end"
<1>1. Len(s) \in Nat
  BY DEF Texts
<1>2. /\ b \in 1..Len(s) /\ Kind(s[b]) = "begin"
      /\ e \in 1..Len(s) /\ Kind(s[e]) = "end" /\ HeaderEnd(s, b) < e
      /\ \A k \in (HeaderEnd(s, b) + 1)..(e - 1) : Kind(s[k]) # "end"
      /\ \A k \in (b + 1)..(e - 1) : Kind(s[k]) \notin BeginTokens
  <2>1. <<b, e>> \in Blocks(s)
    BY DEF BlocksFrom
  <2> QED
    BY <2>1, BlockIs
<1>3. b >= pos
  BY DEF BlocksFrom
<1>4. HeaderEnd(s, b) \in Nat /\ HeaderEnd(s, b) <= Len(s)
  BY <1>1, <1>2, HeaderIs
<1>5. IsHeader(s, b, HeaderEnd(s, b))
  BY <1>2, <1>4, HeaderIs
<1>6. HeaderEnd(s, b) \in (b + 1)..Len(s)
  BY <1>5 DEF IsHeader
<1>7. b \in Headers(s, pos)
  BY <1>1, <1>2, <1>3, <1>4 DEF Headers
<1> QED
  BY <1>1, <1>2, <1>4, <1>6, <1>7

LEMMA SmallerHasMore ==
    ASSUME NEW s \in Texts, NEW i \in Nat, NEW j \in Nat, i <= j
    PROVE  BlocksFrom(s, j) \subseteq BlocksFrom(s, i)
<1> SUFFICES ASSUME NEW x \in BlocksFrom(s, j) PROVE x \in BlocksFrom(s, i)
  OBVIOUS
<1>1. x \in Blocks(s) /\ x[1] \in DOMAIN s /\ x[1] >= j
  BY DEF BlocksFrom, Blocks, Positions
<1>2. x[1] \in Nat
  BY <1>1 DEF Texts
<1> QED
  BY <1>1, <1>2 DEF BlocksFrom

\* The scan takes the first block from a position on, or skips what is none.
Stops(s, pos) == /\ Jump(s, pos) = 0 /\ Taken(s, pos) = <<>>
                 /\ BlocksFrom(s, pos) = {}
Skips(s, pos) == /\ Jump(s, pos) \in (pos + 1)..(Len(s) + 1) /\ Taken(s, pos) = <<>>
                 /\ BlocksFrom(s, pos) = BlocksFrom(s, Jump(s, pos))
Takes(s, pos, b, e) == /\ Jump(s, pos) \in (pos + 1)..(Len(s) + 1) /\ Taken(s, pos) = <<Found(s, b, e)>>
                       /\ <<b, e>> \in BlocksFrom(s, pos)
                       /\ Jump(s, pos) = AfterNewlines(s, e + 1)
                       /\ BlocksFrom(s, pos) = {<<b, e>>} \cup BlocksFrom(s, Jump(s, pos))

LEMMA JumpIs ==
    ASSUME NEW s \in Texts, NEW pos \in 1..(Len(s) + 1)
    PROVE  Stops(s, pos) \/ Skips(s, pos) \/ \E b, e \in 1..Len(s) : Takes(s, pos, b, e)
<1>1. Len(s) \in Nat
  BY DEF Texts
<1>2. CASE Headers(s, pos) = {}
  <2>1. BlocksFrom(s, pos) = {}
    <3> SUFFICES ASSUME NEW x \in BlocksFrom(s, pos) PROVE FALSE
      OBVIOUS
    <3>1. x = <<x[1], x[2]>>
      BY DEF BlocksFrom, Blocks
    <3> QED
      BY <1>2, <3>1, BlocksHaveHeaders
  <2> QED
    BY <1>2, <2>1 DEF Jump, Taken, Stops
<1>3. CASE Headers(s, pos) # {}
  <2> DEFINE b == FirstHeader(s, pos)
             c == HeaderEnd(s, b)
             e == EndAfter(s, b)
             o == OtherAfter(s, b)
  <2>1. /\ b \in pos..Len(s) /\ Kind(s[b]) = "begin"
        /\ \A i \in Headers(s, pos) : b <= i
        /\ c \in (b + 1)..Len(s) /\ Kind(s[c]) \in {"close", "end"}
        /\ e \in (c + 1)..(Len(s) + 1) /\ \A k \in (c + 1)..(e - 1) : Kind(s[k]) # "end"
        /\ e <= Len(s) => Kind(s[e]) = "end"
        /\ o \in (b + 1)..(Len(s) + 1) /\ \A k \in (b + 1)..(o - 1) : Kind(s[k]) \notin BeginTokens
        /\ o <= Len(s) => Kind(s[o]) \in BeginTokens
    BY <1>3, FirstHeaderIs
  <2>2. Taken(s, pos) = IF e > Len(s) \/ o < e THEN <<>> ELSE <<Found(s, b, e)>>
    BY <1>3 DEF Taken
  <2>3. Jump(s, pos) = IF o < c THEN o ELSE IF e > Len(s) THEN 0 ELSE IF o < e THEN o ELSE AfterNewlines(s, e + 1)
    BY <1>3 DEF Jump
  <2> HIDE DEF b, e, o
  \* Blocks from here on start at b or after it.
  <2>4. ASSUME NEW x \in BlocksFrom(s, pos)
        PROVE  /\ x = <<x[1], x[2]>> /\ x \in Blocks(s)
               /\ x[1] \in Headers(s, pos) /\ x[1] \in Nat /\ Kind(s[x[1]]) = "begin"
               /\ x[1] = b \/ x[1] >= o
               /\ x[2] \in Nat /\ x[2] <= Len(s) /\ Kind(s[x[2]]) = "end"
               /\ HeaderEnd(s, x[1]) \in (x[1] + 1)..(x[2] - 1)
               /\ \A k \in (x[1] + 1)..(x[2] - 1) : Kind(s[k]) \notin BeginTokens
               /\ \A k \in (HeaderEnd(s, x[1]) + 1)..(x[2] - 1) : Kind(s[k]) # "end"
    <3>1. x = <<x[1], x[2]>> /\ x \in Blocks(s)
      BY DEF BlocksFrom, Blocks
    <3>2. /\ x[1] \in Headers(s, pos)
          /\ x[2] \in Nat /\ x[2] <= Len(s) /\ Kind(s[x[2]]) = "end"
          /\ HeaderEnd(s, x[1]) \in (x[1] + 1)..(x[2] - 1)
          /\ \A k \in (x[1] + 1)..(x[2] - 1) : Kind(s[k]) \notin BeginTokens
          /\ \A k \in (HeaderEnd(s, x[1]) + 1)..(x[2] - 1) : Kind(s[k]) # "end"
      BY <3>1, BlocksHaveHeaders
    <3>3. x[1] \in pos..Len(s) /\ Kind(s[x[1]]) = "begin" /\ b <= x[1]
      BY <2>1, <3>2 DEF Headers
    <3>4. x[1] = b \/ x[1] >= o
      <4> SUFFICES ASSUME x[1] # b, ~(x[1] >= o) PROVE FALSE
        OBVIOUS
      <4>1. x[1] \in (b + 1)..(o - 1)
        BY <1>1, <2>1, <3>3
      <4> QED
        BY <2>1, <3>3, <4>1 DEF BeginTokens
    <3> QED
      BY <3>1, <3>2, <3>3, <3>4
  \* One that starts at b has its end at e, and no begin on the way.
  <2>5. ASSUME NEW x \in BlocksFrom(s, pos), x[1] = b
        PROVE  x[2] = e /\ e <= Len(s) /\ ~(o < e)
    <3>1. c \in (b + 1)..(x[2] - 1) /\ x[2] \in Nat /\ x[2] <= Len(s) /\ Kind(s[x[2]]) = "end"
      BY <2>4, <2>5
    <3>2. ~(x[2] < e)
      BY <1>1, <2>1, <3>1
    <3>3. ~(e < x[2])
      <4> SUFFICES ASSUME e < x[2] PROVE FALSE
        OBVIOUS
      <4>1. e \in (c + 1)..(x[2] - 1) /\ Kind(s[e]) = "end"
        BY <1>1, <2>1, <3>1
      <4> QED
        BY <2>4, <2>5, <4>1
    <3>4. ~(o < x[2])
      <4> SUFFICES ASSUME o < x[2] PROVE FALSE
        OBVIOUS
      <4>1. o \in (b + 1)..(x[2] - 1) /\ Kind(s[o]) \in BeginTokens
        BY <1>1, <2>1, <3>1
      <4> QED
        BY <2>4, <2>5, <4>1
    <3> QED
      BY <1>1, <2>1, <3>1, <3>2, <3>3, <3>4
  \* One that starts later, and not before c, ends after e.
  <2>6. ASSUME NEW x \in BlocksFrom(s, pos), x[1] # b, ~(o < c) PROVE e <= Len(s)
    <3>1. c < x[2] /\ x[2] \in Nat /\ x[2] <= Len(s) /\ Kind(s[x[2]]) = "end"
      BY <1>1, <2>1, <2>4, <2>6
    <3>2. ~(x[2] < e)
      BY <1>1, <2>1, <3>1
    <3> QED
      BY <1>1, <2>1, <3>1, <3>2
  <2>7. CASE o < c \/ (e <= Len(s) /\ o < e)
    <3>1. Jump(s, pos) = o /\ Taken(s, pos) = <<>> /\ o \in (pos + 1)..(Len(s) + 1)
      BY <1>1, <2>1, <2>2, <2>3, <2>7
    <3>2. ASSUME NEW x \in BlocksFrom(s, pos) PROVE x \in BlocksFrom(s, o)
      <4>1. x[1] # b
        BY <1>1, <2>1, <2>5, <2>7
      <4> QED
        BY <2>4, <4>1 DEF BlocksFrom
    <3>3. BlocksFrom(s, o) \subseteq BlocksFrom(s, pos)
      <4>1. pos <= o /\ pos \in Nat /\ o \in Nat
        BY <1>1, <2>1
      <4> QED
        BY <4>1, SmallerHasMore
    <3>4. BlocksFrom(s, pos) = BlocksFrom(s, o)
      BY <3>2, <3>3
    <3> QED
      BY <3>1, <3>4 DEF Skips
  <2>8. CASE ~(o < c) /\ e > Len(s)
    <3>1. Jump(s, pos) = 0 /\ Taken(s, pos) = <<>>
      BY <2>2, <2>3, <2>8
    <3>2. ASSUME NEW x \in BlocksFrom(s, pos) PROVE FALSE
      <4>1. e <= Len(s)
        BY <2>5, <2>6, <2>8
      <4> QED
        BY <1>1, <2>1, <2>8, <4>1
    <3> QED
      BY <3>1, <3>2 DEF Stops
  <2>9. CASE ~(o < c) /\ e <= Len(s) /\ ~(o < e)
    <3> DEFINE n == AfterNewlines(s, e + 1)
    <3>1. Jump(s, pos) = n /\ Taken(s, pos) = <<Found(s, b, e)>>
      BY <1>1, <2>1, <2>2, <2>3, <2>9
    <3>2. e + 1 \in 1..(Len(s) + 1) /\ e \in 1..Len(s) /\ b \in 1..Len(s)
      BY <1>1, <2>1, <2>9
    <3>3. /\ n \in (e + 1)..(Len(s) + 1)
          /\ \A k \in (e + 1)..(n - 1) : s[k] = Newline
      BY <3>2, AfterNewlinesIs
    <3> HIDE DEF n
    <3>4. <<b, e>> \in BlocksFrom(s, pos)
      <4>1. /\ c < e /\ Kind(s[e]) = "end" /\ b >= pos
            /\ \A k \in (c + 1)..(e - 1) : Kind(s[k]) # "end"
            /\ \A k \in (b + 1)..(e - 1) : Kind(s[k]) \notin BeginTokens
        BY <1>1, <2>1, <2>9
      <4>2. <<b, e>> \in Blocks(s)
        BY <2>1, <3>2, <4>1, BlockIs
      <4> QED
        BY <4>1, <4>2 DEF BlocksFrom
    <3>5. ASSUME NEW x \in BlocksFrom(s, pos), x # <<b, e>> PROVE x \in BlocksFrom(s, n)
      <4>1. x[1] # b /\ x[1] >= o /\ x[1] \in Nat /\ Kind(s[x[1]]) = "begin" /\ x \in Blocks(s)
        BY <2>4, <2>5, <3>5
      <4>2. x[1] > e
        <5>1. x[1] >= e /\ e \in Nat
          BY <1>1, <2>1, <2>9, <4>1
        <5>2. x[1] # e
          BY <2>1, <2>9, <4>1
        <5> QED
          BY <4>1, <5>1, <5>2
      <4>3. ~(x[1] < n)
        <5> SUFFICES ASSUME x[1] < n PROVE FALSE
          OBVIOUS
        <5>1. x[1] \in (e + 1)..(n - 1)
          BY <3>2, <3>3, <4>1, <4>2
        <5>2. Kind(s[x[1]]) = "newline"
          BY <3>3, <5>1 DEF Newline, Kind
        <5> QED
          BY <4>1, <5>2
      <4> QED
        BY <1>1, <3>3, <4>1, <4>3 DEF BlocksFrom
    <3>6. BlocksFrom(s, n) \subseteq BlocksFrom(s, pos)
      <4>1. pos <= n /\ pos \in Nat /\ n \in Nat
        BY <1>1, <2>1, <3>3
      <4> QED
        BY <4>1, SmallerHasMore
    <3>7. n \in (pos + 1)..(Len(s) + 1)
      BY <1>1, <2>1, <3>3
    <3>8. BlocksFrom(s, pos) = {<<b, e>>} \cup BlocksFrom(s, n)
      BY <3>4, <3>5, <3>6
    <3>9. Takes(s, pos, b, e)
      BY <3>1, <3>4, <3>7, <3>8 DEF n, Takes
    <3> QED
      BY <3>2, <3>9
  <2> HIDE DEF c
  <2>10. e \in Nat /\ o \in Nat /\ c \in Nat
    BY <1>1, <2>1
  <2> QED
    BY <1>1, <2>7, <2>8, <2>9, <2>10
<1> QED
  BY <1>2, <1>3

\* The body of findMarkers' scan, and the scan.
ScanBody(s, scan, pos) ==
    LET headers == {i \in pos..Len(s) : Kind(s[i]) = "begin" /\ HeaderEnd(s, i) <= Len(s)}
        b == CHOOSE i \in headers : \A j \in headers : i <= j
        c == HeaderEnd(s, b)
        e == Next(s, c + 1, {"end"})
        other == Next(s, b + 1, BeginTokens)
    IN IF headers = {} THEN <<>>
       ELSE IF other < c THEN scan[other]
       ELSE IF e > Len(s) THEN <<>>
       ELSE IF other < e THEN scan[other]
       ELSE <<Found(s, b, e)>> \o scan[AfterNewlines(s, e + 1)]
Scan(s) == CHOOSE f : f = [pos \in 1..(Len(s) + 1) |-> ScanBody(s, f, pos)]

LEMMA FindMarkersIsScan == \A s : FindMarkers(s) = Scan(s)[1]
  BY DEF FindMarkers, Scan, ScanBody

LEMMA BodyJumps ==
    ASSUME NEW s \in Texts, NEW pos \in 1..(Len(s) + 1), NEW f
    PROVE  ScanBody(s, f, pos) = IF Jump(s, pos) = 0 THEN <<>>
                              ELSE IF Taken(s, pos) = <<>> THEN f[Jump(s, pos)]
                              ELSE Taken(s, pos) \o f[Jump(s, pos)]
<1> DEFINE b == FirstHeader(s, pos)
           c == HeaderEnd(s, b)
           e == EndAfter(s, b)
           o == OtherAfter(s, b)
           n == AfterNewlines(s, e + 1)
<1>1. ScanBody(s, f, pos) = IF Headers(s, pos) = {} THEN <<>>
                         ELSE IF o < c THEN f[o]
                         ELSE IF e > Len(s) THEN <<>>
                         ELSE IF o < e THEN f[o]
                         ELSE <<Found(s, b, e)>> \o f[n]
  BY DEF ScanBody, Headers, FirstHeader, EndAfter, OtherAfter
<1>2. Jump(s, pos) = IF Headers(s, pos) = {} THEN 0
                     ELSE IF o < c THEN o
                     ELSE IF e > Len(s) THEN 0
                     ELSE IF o < e THEN o
                     ELSE n
  BY DEF Jump
<1>3. Taken(s, pos) = IF Headers(s, pos) = {} \/ e > Len(s) \/ o < e THEN <<>> ELSE <<Found(s, b, e)>>
  BY DEF Taken
<1>4. CASE Headers(s, pos) = {}
  BY <1>1, <1>2, <1>4
<1>5. CASE Headers(s, pos) # {}
  <2>1. Len(s) \in Nat
    BY DEF Texts
  <2>2. /\ b \in Nat /\ c \in (b + 1)..Len(s) /\ e \in (c + 1)..(Len(s) + 1) /\ o \in (b + 1)..(Len(s) + 1)
    BY <1>5, <2>1, FirstHeaderIs
  <2>3. e <= Len(s) => n \in (e + 1)..(Len(s) + 1)
    <3>1. e <= Len(s) => e + 1 \in 1..(Len(s) + 1)
      BY <2>1, <2>2
    <3> QED
      BY <3>1, AfterNewlinesIs
  <2> HIDE DEF b, c, e, o, n
  <2>4. c \in Nat /\ e \in Nat /\ o \in Nat /\ o # 0
    BY <2>1, <2>2
  <2>5. e <= Len(s) => n # 0
    BY <2>3, <2>4
  <2>6. CASE o < c
    <3>1. o < e
      BY <2>2, <2>4, <2>6
    <3> QED
      BY <1>1, <1>2, <1>3, <1>5, <2>4, <2>6, <3>1
  <2>7. CASE ~(o < c) /\ e > Len(s)
    BY <1>1, <1>2, <1>5, <2>7
  <2>8. CASE ~(o < c) /\ ~(e > Len(s)) /\ o < e
    BY <1>1, <1>2, <1>3, <1>5, <2>4, <2>8
  <2>9. CASE ~(o < c) /\ ~(e > Len(s)) /\ ~(o < e)
    <3>1. n # 0
      BY <2>1, <2>4, <2>5, <2>9
    <3>2. Jump(s, pos) = n /\ Taken(s, pos) = <<Found(s, b, e)>> /\ <<Found(s, b, e)>> # <<>>
      BY <1>2, <1>3, <1>5, <2>9
    <3> QED
      BY <1>1, <1>5, <2>9, <3>1, <3>2
  <2> QED
    BY <2>6, <2>7, <2>8, <2>9
<1> QED
  BY <1>4, <1>5

LEMMA ScanUnfolds ==
    ASSUME NEW s \in Texts, NEW pos \in 1..(Len(s) + 1)
    PROVE  Scan(s)[pos] = IF Jump(s, pos) = 0 THEN <<>>
                          ELSE IF Taken(s, pos) = <<>> THEN Scan(s)[Jump(s, pos)]
                          ELSE Taken(s, pos) \o Scan(s)[Jump(s, pos)]
<1> DEFINE n == Len(s) + 1
           take == [i \in 1..n |-> Taken(s, i)]
           jump == [i \in 1..n |-> Jump(s, i)]
<1>1. n \in Nat
  BY DEF Texts
<1>2. \A i \in 1..n : jump[i] = Jump(s, i) /\ take[i] = Taken(s, i)
  OBVIOUS
<1>3. \A i \in 1..n : jump[i] = 0 \/ jump[i] \in (i + 1)..n
  <2> SUFFICES ASSUME NEW i \in 1..n PROVE Jump(s, i) = 0 \/ Jump(s, i) \in (i + 1)..n
    OBVIOUS
  <2> QED
    BY JumpIs DEF Stops, Skips, Takes
<1>4. jump \in [1..n -> Nat]
  <2>1. \A i \in 1..n : Jump(s, i) \in Nat
    BY <1>1, <1>2, <1>3
  <2> QED
    BY <2>1
<1> HIDE DEF take, jump
<1>5. PICK f : f = [i \in 1..n |-> f[i]] /\ Scans(f, n, take, jump)
  <2> HIDE DEF n
  <2> QED
    BY <1>1, <1>3, <1>4, ScanSolved
<1>6. ASSUME NEW i \in 1..n PROVE f[i] = ScanBody(s, f, i)
  <2>1. f[i] = IF Jump(s, i) = 0 THEN <<>>
               ELSE IF Taken(s, i) = <<>> THEN f[Jump(s, i)] ELSE Taken(s, i) \o f[Jump(s, i)]
    <3> HIDE DEF n
    <3> QED
      BY <1>2, <1>5 DEF Scans
  <2> QED
    BY <2>1, BodyJumps
<1>7. f = [i \in 1..n |-> ScanBody(s, f, i)]
  <2> HIDE DEF n
  <2> QED
    BY <1>5, <1>6
<1>8. Scan(s) = [i \in 1..n |-> ScanBody(s, Scan(s), i)]
  BY <1>7 DEF Scan
<1>9. Scan(s)[pos] = ScanBody(s, Scan(s), pos)
  BY <1>8
<1> QED
  BY <1>9, BodyJumps

\* The blocks that start at a position or later, all of them, in order and
\* apart from each other.
Finds(s, pos) == {Found(s, x[1], x[2]) : x \in BlocksFrom(s, pos)}
Ordered(f) == \A i, j \in 1..Len(f) : i < j => f[i].next <= f[j].start
FoundFrom(s, f, pos) == f \in Seq(Finds(s, 1)) /\ ToSet(f) = Finds(s, pos) /\ Ordered(f)

LEMMA TakesFirst ==
    ASSUME NEW s \in Texts, NEW pos \in 1..(Len(s) + 1), NEW b \in 1..Len(s), NEW e \in 1..Len(s),
           Takes(s, pos, b, e), NEW g, FoundFrom(s, g, Jump(s, pos))
    PROVE  FoundFrom(s, <<Found(s, b, e)>> \o g, pos)
<1> DEFINE F == Found(s, b, e)
           S == Finds(s, 1)
           n == Jump(s, pos)
           f == <<F>> \o g
<1>1. Len(s) \in Nat
  BY DEF Texts
<1>2. /\ n \in (pos + 1)..(Len(s) + 1) /\ <<b, e>> \in BlocksFrom(s, pos) /\ F.next = n
      /\ BlocksFrom(s, pos) = {<<b, e>>} \cup BlocksFrom(s, n)
  BY DEF Takes, Found
<1>3. g \in Seq(S) /\ ToSet(g) = Finds(s, n) /\ Ordered(g)
  BY DEF FoundFrom
<1>4. F \in S
  <2>1. <<b, e>> \in BlocksFrom(s, 1)
    BY <1>2 DEF BlocksFrom
  <2> QED
    BY <2>1 DEF Finds
<1>5. Finds(s, pos) = {F} \cup Finds(s, n)
  <2> DEFINE at(x) == Found(s, x[1], x[2])
  <2>1. at(<<b, e>>) = F /\ Finds(s, pos) = {at(x) : x \in BlocksFrom(s, pos)}
        /\ Finds(s, n) = {at(x) : x \in BlocksFrom(s, n)}
    BY DEF Finds
  <2> HIDE DEF n, F, at
  <2> QED
    BY <1>2, <2>1
<1>6. \A x \in Finds(s, n) : n <= x.start
  BY DEF Finds, BlocksFrom, Found
<1> HIDE DEF F, S, n
<1>7. <<F>> \in Seq(S) /\ ToSet(<<F>>) = {F} /\ Len(<<F>>) = 1
  BY <1>4 DEF ToSet
<1>8. f \in Seq(S) /\ ToSet(f) = Finds(s, pos)
  <2>1. f \in Seq(S)
    BY <1>3, <1>7
  <2>2. ToSet(<<F>> \o g) = ToSet(<<F>>) \cup ToSet(g)
    <3> DEFINE h == <<F>>
    <3>1. h \in Seq(S) /\ g \in Seq(S)
      BY <1>3, <1>7
    <3> HIDE DEF h
    <3>2. ToSet(h \o g) = ToSet(h) \cup ToSet(g)
      BY <3>1, ConcatHas
    <3> QED
      BY <3>2 DEF h
  <2> QED
    BY <1>3, <1>5, <1>7, <2>1, <2>2
<1>9. Len(g) \in Nat /\ Len(f) = Len(g) + 1 /\ f[1] = F /\ \A i \in 1..Len(g) : f[i + 1] = g[i]
  BY <1>3, <1>7, ConcatProperties
<1>10. \A i \in 1..Len(g) : g[i] \in Finds(s, n)
  BY <1>3 DEF ToSet
<1> HIDE DEF f
<1>11. ASSUME NEW i \in 1..Len(f), NEW j \in 1..Len(f), i < j PROVE f[i].next <= f[j].start
  <2>1. j - 1 \in 1..Len(g) /\ f[j] = g[j - 1]
    <3>1. j - 1 \in 1..Len(g) /\ (j - 1) + 1 = j
      BY <1>9, <1>11
    <3> QED
      BY <1>9, <3>1
  <2>2. CASE i = 1
    BY <1>2, <1>6, <1>9, <1>10, <2>1, <2>2
  <2>3. CASE i # 1
    <3>1. i - 1 \in 1..Len(g) /\ (i - 1) + 1 = i /\ i - 1 < j - 1
      BY <1>9, <1>11, <2>3
    <3>2. f[i] = g[i - 1]
      BY <1>9, <3>1
    <3> QED
      BY <1>3, <2>1, <3>1, <3>2 DEF Ordered
  <2> QED
    BY <2>2, <2>3
<1>12. Ordered(f)
  BY <1>11 DEF Ordered
<1> QED
  BY <1>8, <1>12 DEF FoundFrom, S, f, F

LEMMA ScanFinds ==
    ASSUME NEW s \in Texts
    PROVE  \A pos \in 1..(Len(s) + 1) : FoundFrom(s, Scan(s)[pos], pos)
<1> DEFINE n == Len(s) + 1
           P == {pos \in 1..n : FoundFrom(s, Scan(s)[pos], pos)}
<1>1. n \in Nat
  BY DEF Texts
<1>2. ASSUME NEW pos \in 1..n, \A j \in (pos + 1)..n : j \in P
      PROVE FoundFrom(s, Scan(s)[pos], pos)
  <2>1. Scan(s)[pos] = IF Jump(s, pos) = 0 THEN <<>>
                       ELSE IF Taken(s, pos) = <<>> THEN Scan(s)[Jump(s, pos)]
                       ELSE Taken(s, pos) \o Scan(s)[Jump(s, pos)]
    BY ScanUnfolds
  <2>2. Stops(s, pos) \/ Skips(s, pos) \/ \E b, e \in 1..Len(s) : Takes(s, pos, b, e)
    BY JumpIs
  <2>3. Jump(s, pos) \in (pos + 1)..n => Jump(s, pos) # 0 /\ FoundFrom(s, Scan(s)[Jump(s, pos)], Jump(s, pos))
    BY <1>1, <1>2
  <2>4. CASE Stops(s, pos)
    <3>1. Scan(s)[pos] = <<>> /\ Finds(s, pos) = {}
      BY <2>1, <2>4 DEF Stops, Finds
    <3>2. <<>> \in Seq(Finds(s, 1)) /\ ToSet(<<>>) = {} /\ Ordered(<<>>)
      BY DEF ToSet, Ordered
    <3> QED
      BY <3>1, <3>2 DEF FoundFrom
  <2>5. CASE Skips(s, pos)
    <3>1. Jump(s, pos) \in (pos + 1)..n /\ Taken(s, pos) = <<>> /\ Finds(s, pos) = Finds(s, Jump(s, pos))
      BY <2>5 DEF Skips, Finds
    <3>2. Scan(s)[pos] = Scan(s)[Jump(s, pos)]
      BY <2>1, <2>3, <3>1
    <3> QED
      BY <2>3, <3>1, <3>2 DEF FoundFrom
  <2>6. ASSUME NEW b \in 1..Len(s), NEW e \in 1..Len(s), Takes(s, pos, b, e)
        PROVE FoundFrom(s, Scan(s)[pos], pos)
    <3>1. Jump(s, pos) \in (pos + 1)..n /\ Taken(s, pos) = <<Found(s, b, e)>> /\ <<Found(s, b, e)>> # <<>>
      BY <2>6 DEF Takes
    <3>2. Scan(s)[pos] = <<Found(s, b, e)>> \o Scan(s)[Jump(s, pos)]
      BY <2>1, <2>3, <3>1
    <3>3. FoundFrom(s, Scan(s)[Jump(s, pos)], Jump(s, pos))
      BY <2>3, <3>1
    <3> QED
      BY <2>6, <3>2, <3>3, TakesFirst
  <2> QED
    BY <2>2, <2>4, <2>5, <2>6
<1>3. \A pos \in 1..n : pos \in P
  <2>1. \A pos \in 1..n : (\A j \in (pos + 1)..n : j \in P) => pos \in P
    BY <1>2
  <2> HIDE DEF P, n
  <2> QED
    BY <1>1, <2>1, InductionDownFrom
<1> QED
  BY <1>3

\* findMarkers finds every block and nothing else, in order, for every text.
THEOREM FindMarkersRight ==
    ASSUME NEW s \in Texts
    PROVE  LET f == FindMarkers(s) IN
           /\ f \in Seq(Finds(s, 1))
           /\ ToSet(f) = {Found(s, x[1], x[2]) : x \in Blocks(s)}
           /\ \A i, j \in DOMAIN f : i < j => f[i].next <= f[j].start
<1>1. Len(s) \in Nat /\ 1 \in 1..(Len(s) + 1)
  BY DEF Texts
<1>2. FoundFrom(s, FindMarkers(s), 1)
  BY <1>1, ScanFinds, FindMarkersIsScan
<1>3. BlocksFrom(s, 1) = Blocks(s)
  BY <1>1 DEF BlocksFrom, Blocks, Positions, Texts
<1> QED
  BY <1>2, <1>3 DEF FoundFrom, Finds, Ordered
-----------------------------------------------------------------------------
(***************************************************************************)
(* Types: what the text operators make of a text is a text.                *)
(***************************************************************************)
Spans(s) == {x \in Finds(s, 1) : TRUE} \cup {Found(s, b, e) : b, e \in 1..Len(s)}

LEMMA SpanTyped ==
    ASSUME NEW s \in Texts, NEW x \in Spans(s)
    PROVE  x.start \in 1..Len(s) /\ x.next \in 1..(Len(s) + 1)
<1>1. Len(s) \in Nat /\ DOMAIN s = 1..Len(s)
  BY DEF Texts
<1>2. PICK b \in 1..Len(s), e \in 1..Len(s) : x = Found(s, b, e)
  <2>1. CASE x \in Finds(s, 1)
    BY <1>1, <2>1 DEF Finds, BlocksFrom, Blocks, Positions
  <2> QED
    BY <2>1 DEF Spans
<1>3. e + 1 \in 1..(Len(s) + 1)
  BY <1>1
<1>4. AfterNewlines(s, e + 1) \in (e + 1)..(Len(s) + 1)
  BY <1>3, AfterNewlinesIs
<1> QED
  BY <1>1, <1>2, <1>4 DEF Found

\* A part of a text, and texts one after the other.
LEMMA PartTyped ==
    ASSUME NEW s \in Texts, NEW m \in Int, NEW n \in Int, m >= 1, n <= Len(s)
    PROVE  SubSeq(s, m, n) \in Texts
<1>1. Len(s) \in Nat /\ \A i \in m..n : s[i] \in Tokens
  BY DEF Texts
<1> QED
  BY <1>1, SubSeqProperties DEF Texts

LEMMA JoinTyped == \A s, t \in Texts : s \o t \in Texts
  BY DEF Texts

\* What is between the spans.
Gap(s, f, i) == SubSeq(s, f[i].next, IF i = Len(f) THEN Len(s) ELSE f[i + 1].start - 1)

LEMMA GapTyped ==
    ASSUME NEW s \in Texts, NEW f \in Seq(Spans(s)), NEW i \in 1..Len(f)
    PROVE  Gap(s, f, i) \in Texts
<1> DEFINE m == f[i].next
           n == IF i = Len(f) THEN Len(s) ELSE f[i + 1].start - 1
<1>1. Len(s) \in Nat /\ Len(f) \in Nat
  BY DEF Texts
<1>2. f[i] \in Spans(s) /\ (i # Len(f) => i + 1 \in 1..Len(f) /\ f[i + 1] \in Spans(s))
  BY <1>1
<1>3. m \in Int /\ m >= 1
  BY <1>1, <1>2, SpanTyped
<1>4. n \in Int /\ n <= Len(s)
  <2>1. CASE i = Len(f)
    BY <1>1, <2>1
  <2>2. CASE i # Len(f)
    <3>1. f[i + 1].start \in 1..Len(s)
      BY <1>2, <2>2, SpanTyped
    <3> QED
      BY <1>1, <2>2, <3>1
  <2> QED
    BY <2>1, <2>2
<1> HIDE DEF m, n
<1>5. SubSeq(s, m, n) \in Texts
  BY <1>3, <1>4, PartTyped
<1> QED
  BY <1>5 DEF Gap, m, n

LEMMA HeadTyped ==
    ASSUME NEW s \in Texts, NEW f \in Seq(Spans(s)), f # <<>>
    PROVE  SubSeq(s, 1, Head(f).start - 1) \in Texts
<1>1. Head(f) \in Spans(s) /\ Len(s) \in Nat
  BY DEF Texts
<1>2. Head(f).start - 1 \in Int /\ Head(f).start - 1 <= Len(s)
  BY <1>1, SpanTyped
<1> QED
  BY <1>2, PartTyped

LEMMA SpliceTyped ==
    ASSUME NEW s \in Texts, NEW f \in Seq(Spans(s)), f # <<>>, NEW new \in Texts
    PROVE  Splice(s, f, new) \in Texts
<1> DEFINE g == [i \in DOMAIN f |-> Gap(s, f, i)]
<1>1. Splice(s, f, new) = SubSeq(s, 1, Head(f).start - 1) \o new \o FlattenSeq(g)
  BY DEF Splice, Gap
<1>2. FlattenSeq(g) \in Texts
  <2>1. Len(f) \in Nat /\ DOMAIN f = 1..Len(f)
    OBVIOUS
  <2>2. g \in [1..Len(f) -> Seq(Tokens)]
    BY <2>1, GapTyped DEF Texts
  <2> QED
    BY <2>1, <2>2, FlattenMap DEF Texts
<1>3. SubSeq(s, 1, Head(f).start - 1) \in Texts
  BY HeadTyped
<1> HIDE DEF g
<1> QED
  BY <1>1, <1>2, <1>3, JoinTyped

Publications == [hash : Nat, tmpl : Nat]

LEMMA RenderedTyped == \A w \in Publications : Rendered(w) \in Texts
<1> SUFFICES ASSUME NEW w \in Publications PROVE Rendered(w) \in Texts
  OBVIOUS
<1>1. w.hash \in Nat /\ w.tmpl \in Nat
  BY DEF Publications
<1>2. /\ Begin(w.hash, <<w.hash, w.tmpl>>) \in Tokens /\ Close \in Tokens /\ Body(w.tmpl) \in Tokens
      /\ End \in Tokens /\ Newline \in Tokens
  BY <1>1 DEF Tokens, Begin, Body
<1> QED
  BY <1>2 DEF Rendered, Texts

LEMMA OldBlockTyped == \A h \in Nat : OldBlock(h) \in Texts
<1> SUFFICES ASSUME NEW h \in Nat PROVE OldBlock(h) \in Texts
  OBVIOUS
<1>1. /\ Begin(h, NoRender) \in Tokens /\ Close \in Tokens /\ Body(0) \in Tokens
      /\ End \in Tokens /\ Newline \in Tokens
  BY DEF Tokens, Begin, Body
<1> QED
  BY <1>1 DEF OldBlock, Texts

\* A text is what TrimRight leaves of it, and newlines.
LEMMA TrimRightIs ==
    ASSUME NEW s \in Texts
    PROVE  \E n \in 0..Len(s) : /\ TrimRight(s) = SubSeq(s, 1, n)
                                /\ (n # 0 => s[n] # Newline)
                                /\ \A k \in (n + 1)..Len(s) : s[k] = Newline
<1> DEFINE inked == {k \in DOMAIN s : s[k] # Newline}
           n == IF inked = {} THEN 0 ELSE CHOOSE k \in inked : \A j \in inked : j <= k
<1>1. Len(s) \in Nat /\ DOMAIN s = 1..Len(s)
  BY DEF Texts
<1>2. n \in 0..Len(s) /\ (n # 0 => s[n] # Newline) /\ \A k \in (n + 1)..Len(s) : s[k] = Newline
  <2>1. CASE inked = {}
    BY <1>1, <2>1
  <2>2. CASE inked # {}
    <3>1. \E k \in inked : \A j \in inked : j <= k
      <4> DEFINE T == {Len(s) - k : k \in inked}
      <4>1. T \in SUBSET Nat /\ T # {}
        BY <1>1, <2>2
      <4> HIDE DEF T
      <4>2. PICK m \in T : \A j \in T : m <= j
        BY <4>1, LeastNat
      <4>3. PICK k \in inked : m = Len(s) - k
        BY <4>2 DEF T
      <4>4. ASSUME NEW j \in inked PROVE j <= k
        <5>1. Len(s) - k <= Len(s) - j
          BY <4>2, <4>3 DEF T
        <5> QED
          BY <1>1, <5>1
      <4> QED
        BY <4>4
    <3>2. n \in inked /\ \A j \in inked : j <= n
      <4> HIDE DEF inked
      <4> QED BY <2>2, <3>1
    <3> HIDE DEF n
    <3> QED
      BY <1>1, <3>2
  <2> QED
    BY <2>1, <2>2
<1>3. TrimRight(s) = SubSeq(s, 1, n)
  BY DEF TrimRight
<1> HIDE DEF n
<1> QED
  BY <1>2, <1>3

LEMMA TrimRightTyped == \A s \in Texts : TrimRight(s) \in Texts
<1> SUFFICES ASSUME NEW s \in Texts PROVE TrimRight(s) \in Texts
  OBVIOUS
<1>1. PICK n \in 0..Len(s) : TrimRight(s) = SubSeq(s, 1, n)
  BY TrimRightIs
<1>2. n \in Int /\ n <= Len(s)
  BY DEF Texts
<1> QED
  BY <1>1, <1>2, PartTyped

LEMMA AppendedTyped == \A s, new \in Texts : Appended(s, new) \in Texts
<1>1. <<Newline, Newline>> \in Texts
  <2>1. Newline \in Tokens
    BY DEF Tokens
  <2> QED
    BY <2>1 DEF Texts
<1> QED
  BY <1>1, TrimRightTyped, JoinTyped DEF Appended

LEMMA FindMarkersTyped == \A s \in Texts : FindMarkers(s) \in Seq(Spans(s))
<1> SUFFICES ASSUME NEW s \in Texts PROVE FindMarkers(s) \in Seq(Spans(s))
  OBVIOUS
<1>1. FindMarkers(s) \in Seq(Finds(s, 1))
  BY FindMarkersRight
<1>2. Finds(s, 1) \subseteq Spans(s)
  BY DEF Spans
<1> QED
  BY <1>1, <1>2

LEMMA WrittenTyped ==
    \A s \in Texts : WithoutBlocks(s) \in Texts /\ \A w \in Publications : WithBlock(s, w) \in Texts
<1> SUFFICES ASSUME NEW s \in Texts
             PROVE  WithoutBlocks(s) \in Texts /\ \A w \in Publications : WithBlock(s, w) \in Texts
  OBVIOUS
<1>1. FindMarkers(s) \in Seq(Spans(s))
  BY FindMarkersTyped
<1>2. <<>> \in Texts
  BY DEF Texts
<1> QED
  BY <1>1, <1>2, SpliceTyped, AppendedTyped, RenderedTyped DEF WithBlock, WithoutBlocks

\* The released binary's scan, in the same way.
OldHeaders(s, pos) == {i \in pos..Len(s) : Kind(s[i]) = "begin" /\ EndAfter(s, i) <= Len(s)}
OldFirst(s, pos) == CHOOSE i \in OldHeaders(s, pos) : \A j \in OldHeaders(s, pos) : i <= j
OldFound(s, pos) == Found(s, OldFirst(s, pos), EndAfter(s, OldFirst(s, pos)))
OldJump(s, pos) == IF OldHeaders(s, pos) = {} THEN 0 ELSE AfterNewlines(s, EndAfter(s, OldFirst(s, pos)) + 1)
OldScanBody(s, scan, pos) ==
    LET EndOf(i) == Next(s, HeaderEnd(s, i) + 1, {"end"})
        headers == {i \in pos..Len(s) : Kind(s[i]) = "begin" /\ EndOf(i) <= Len(s)}
        b == CHOOSE i \in headers : \A j \in headers : i <= j
    IN IF headers = {} THEN <<>>
       ELSE <<Found(s, b, EndOf(b))>> \o scan[AfterNewlines(s, EndOf(b) + 1)]
OldScan(s) == CHOOSE f : f = [pos \in 1..(Len(s) + 1) |-> OldScanBody(s, f, pos)]

LEMMA OldMatchesIsScan == \A s : OldMatches(s) = OldScan(s)[1]
  BY DEF OldMatches, OldScan, OldScanBody

LEMMA OldBodyJumps ==
    \A s, f, pos : OldScanBody(s, f, pos) = IF OldHeaders(s, pos) = {} THEN <<>>
                                            ELSE <<OldFound(s, pos)>> \o f[OldJump(s, pos)]
  BY DEF OldScanBody, OldHeaders, OldFirst, OldFound, OldJump, EndAfter

LEMMA OldJumpIs ==
    ASSUME NEW s \in Texts, NEW pos \in 1..(Len(s) + 1), OldHeaders(s, pos) # {}
    PROVE  OldFound(s, pos) \in Spans(s) /\ OldJump(s, pos) \in (pos + 1)..(Len(s) + 1)
<1> DEFINE b == OldFirst(s, pos)
           e == EndAfter(s, b)
<1>1. Len(s) \in Nat
  BY DEF Texts
<1>2. b \in OldHeaders(s, pos)
  <2>1. OldHeaders(s, pos) \in SUBSET Nat
    BY <1>1 DEF OldHeaders
  <2>2. \E i \in OldHeaders(s, pos) : \A j \in OldHeaders(s, pos) : i <= j
    BY <2>1, LeastNat
  <2> QED
    BY <2>2 DEF OldFirst
<1>3. b \in pos..Len(s) /\ b \in 1..Len(s) /\ e <= Len(s)
  BY <1>1, <1>2 DEF OldHeaders
<1> HIDE DEF b
<1>4. e \in (b + 1)..Len(s)
  <2>1. HeaderEnd(s, b) \in Nat
    BY <1>3, HeaderIs
  <2>2. HeaderEnd(s, b) + 1 <= Len(s) + 1
    <3> SUFFICES ASSUME HeaderEnd(s, b) + 1 > Len(s) + 1 PROVE FALSE
      BY <1>1, <2>1
    <3>1. (HeaderEnd(s, b) + 1)..Len(s) = {}
      BY <1>1, <2>1
    <3>2. e = Len(s) + 1
      BY <3>1 DEF EndAfter, Next
    <3> QED
      BY <1>1, <1>3, <3>2
  <2>3. HeaderEnd(s, b) \in (b + 1)..Len(s)
    <3>1. IsHeader(s, b, HeaderEnd(s, b))
      BY <1>1, <1>3, <2>1, <2>2, HeaderIs
    <3> QED
      BY <3>1 DEF IsHeader
  <2>4. HeaderEnd(s, b) + 1 \in 1..(Len(s) + 1)
    BY <1>1, <2>1, <2>2
  <2>5. e \in (HeaderEnd(s, b) + 1)..(Len(s) + 1)
    BY <2>4, NextIs DEF EndAfter
  <2> QED
    BY <1>1, <1>3, <2>3, <2>5
<1> HIDE DEF e
<1>5. e \in 1..Len(s) /\ e + 1 \in 1..(Len(s) + 1)
  BY <1>1, <1>3, <1>4
<1>6. OldFound(s, pos) \in Spans(s)
  BY <1>3, <1>5 DEF OldFound, Spans, b, e
<1>7. AfterNewlines(s, e + 1) \in (e + 1)..(Len(s) + 1)
  BY <1>5, AfterNewlinesIs
<1>8. OldJump(s, pos) = AfterNewlines(s, e + 1)
  BY DEF OldJump, b, e
<1> QED
  BY <1>1, <1>3, <1>4, <1>6, <1>7, <1>8

LEMMA OldMatchesTyped == \A s \in Texts : OldMatches(s) \in Seq(Spans(s))
<1> SUFFICES ASSUME NEW s \in Texts PROVE OldMatches(s) \in Seq(Spans(s))
  OBVIOUS
<1> DEFINE n == Len(s) + 1
           take == [i \in 1..n |-> IF OldHeaders(s, i) = {} THEN <<>> ELSE <<OldFound(s, i)>>]
           jump == [i \in 1..n |-> OldJump(s, i)]
           P == {i \in 1..n : OldScan(s)[i] \in Seq(Spans(s))}
<1>1. n \in Nat /\ 1 \in 1..n
  BY DEF Texts
<1>2. \A i \in 1..n : /\ jump[i] = OldJump(s, i)
                      /\ take[i] = IF OldHeaders(s, i) = {} THEN <<>> ELSE <<OldFound(s, i)>>
  OBVIOUS
<1>3. \A i \in 1..n : IF OldHeaders(s, i) = {} THEN jump[i] = 0 ELSE jump[i] \in (i + 1)..n
  <2> SUFFICES ASSUME NEW i \in 1..n
               PROVE  IF OldHeaders(s, i) = {} THEN OldJump(s, i) = 0 ELSE OldJump(s, i) \in (i + 1)..n
    OBVIOUS
  <2> QED
    BY OldJumpIs DEF OldJump
<1>4. jump \in [1..n -> Nat]
  <2>1. \A i \in 1..n : OldJump(s, i) \in Nat
    BY <1>1, <1>2, <1>3
  <2> QED
    BY <2>1
<1> HIDE DEF take, jump
<1>5. PICK f : f = [i \in 1..n |-> f[i]] /\ Scans(f, n, take, jump)
  <2> HIDE DEF n
  <2>1. \A i \in 1..n : jump[i] = 0 \/ jump[i] \in (i + 1)..n
    BY <1>3
  <2> QED
    BY <1>1, <1>4, <2>1, ScanSolved
<1>6. ASSUME NEW i \in 1..n PROVE f[i] = OldScanBody(s, f, i)
  <2>1. f[i] = IF OldHeaders(s, i) = {} THEN <<>> ELSE <<OldFound(s, i)>> \o f[OldJump(s, i)]
    <3>1. f[i] = IF jump[i] = 0 THEN <<>> ELSE IF take[i] = <<>> THEN f[jump[i]] ELSE take[i] \o f[jump[i]]
      <4> HIDE DEF n
      <4> QED
        BY <1>5 DEF Scans
    <3>2. CASE OldHeaders(s, i) = {}
      BY <1>3, <3>1, <3>2
    <3>3. CASE OldHeaders(s, i) # {}
      <4>1. take[i] = <<OldFound(s, i)>> /\ jump[i] = OldJump(s, i)
        BY <1>2, <3>3
      <4>2. jump[i] # 0 /\ <<OldFound(s, i)>> # <<>>
        BY <1>1, <1>3, <3>3
      <4> QED
        BY <3>1, <3>3, <4>1, <4>2
    <3> QED
      BY <3>2, <3>3
  <2> QED
    BY <2>1, OldBodyJumps
<1>7. f = [i \in 1..n |-> OldScanBody(s, f, i)]
  <2> HIDE DEF n
  <2> QED
    BY <1>5, <1>6
<1>8. OldScan(s) = [i \in 1..n |-> OldScanBody(s, OldScan(s), i)]
  BY <1>7 DEF OldScan
<1>9. ASSUME NEW i \in 1..n, \A j \in (i + 1)..n : j \in P PROVE i \in P
  <2>1. OldScan(s)[i] = IF OldHeaders(s, i) = {} THEN <<>> ELSE <<OldFound(s, i)>> \o OldScan(s)[OldJump(s, i)]
    BY <1>8, OldBodyJumps
  <2>2. CASE OldHeaders(s, i) = {}
    <3>1. <<>> \in Seq(Spans(s))
      OBVIOUS
    <3> QED
      BY <2>1, <2>2, <3>1
  <2>3. CASE OldHeaders(s, i) # {}
    <3>1. OldFound(s, i) \in Spans(s) /\ OldJump(s, i) \in (i + 1)..n
      BY <2>3, OldJumpIs
    <3>2. OldScan(s)[OldJump(s, i)] \in Seq(Spans(s))
      BY <1>9, <3>1
    <3>3. <<OldFound(s, i)>> \o OldScan(s)[OldJump(s, i)] \in Seq(Spans(s))
      BY <3>1, <3>2
    <3> QED
      BY <2>1, <2>3, <3>3
  <2> QED
    BY <2>2, <2>3
<1>10. \A i \in 1..n : i \in P
  <2>1. \A i \in 1..n : (\A j \in (i + 1)..n : j \in P) => i \in P
    BY <1>9
  <2> HIDE DEF P, n
  <2> QED
    BY <1>1, <2>1, InductionDownFrom
<1> QED
  BY <1>1, <1>10, OldMatchesIsScan

LEMMA OldWrittenTyped == \A s \in Texts, h \in Nat : OldWritten(s, h) \in Texts
<1> SUFFICES ASSUME NEW s \in Texts, NEW h \in Nat PROVE OldWritten(s, h) \in Texts
  OBVIOUS
<1> DEFINE f == OldMatches(s)
           g == [i \in DOMAIN f |-> OldBlock(h) \o Gap(s, f, i)]
<1>1. f \in Seq(Spans(s))
  BY OldMatchesTyped
<1>2. OldWritten(s, h) = IF f = <<>> THEN TrimRight(s) \o <<Newline, Newline>> \o OldBlock(h)
                         ELSE IF Head(f).hash = h THEN s
                         ELSE SubSeq(s, 1, Head(f).start - 1) \o FlattenSeq(g)
  BY DEF OldWritten, Gap
<1> HIDE DEF f
<1>3. FlattenSeq(g) \in Texts
  <2>1. Len(f) \in Nat /\ DOMAIN f = 1..Len(f)
    BY <1>1
  <2>2. \A i \in 1..Len(f) : OldBlock(h) \o Gap(s, f, i) \in Texts
    BY <1>1, GapTyped, OldBlockTyped, JoinTyped
  <2>3. g \in [1..Len(f) -> Seq(Tokens)]
    BY <2>1, <2>2 DEF Texts
  <2> QED
    BY <2>1, <2>3, FlattenMap DEF Texts
<1>4. TrimRight(s) \o <<Newline, Newline>> \in Texts
  <2>1. <<Newline, Newline>> \in Texts
    <3>1. Newline \in Tokens
      BY DEF Tokens
    <3> QED
      BY <3>1 DEF Texts
  <2> QED
    BY <2>1, TrimRightTyped, JoinTyped
<1> HIDE DEF g
<1>5. f # <<>> => SubSeq(s, 1, Head(f).start - 1) \in Texts
  BY <1>1, HeadTyped
<1> QED
  BY <1>2, <1>3, <1>4, <1>5, OldBlockTyped, JoinTyped

LEMMA KeptTyped == \A s \in Texts : \A at : Kept(s, at) \in Texts
<1> SUFFICES ASSUME NEW s \in Texts, NEW at PROVE Kept(s, at) \in Texts
  OBVIOUS
<1> DEFINE g == [k \in DOMAIN s |-> IF k \in at THEN <<s[k]>> ELSE <<>>]
<1>1. Len(s) \in Nat /\ DOMAIN s = 1..Len(s) /\ \A k \in 1..Len(s) : s[k] \in Tokens
  BY DEF Texts
<1>2. g \in [1..Len(s) -> Seq(Tokens)]
  <2>1. \A k \in 1..Len(s) : <<s[k]>> \in Seq(Tokens)
    BY <1>1
  <2>2. <<>> \in Seq(Tokens)
    OBVIOUS
  <2> QED
    BY <1>1, <2>1, <2>2
<1> HIDE DEF g
<1>3. FlattenSeq(g) \in Texts
  BY <1>1, <1>2, FlattenMap DEF Texts
<1> QED
  BY <1>3 DEF Kept, g

LEMMA UsersTyped == \A s \in Texts : Users(s) \in [part : Texts, joinable : BOOLEAN]
<1>1. \A s : Joinable(s) \in BOOLEAN
  BY DEF Joinable
<1> QED
  BY <1>1, KeptTyped DEF Users, UsersPart

\* The operations; an update names a file that is there or is not.
Ops == [pc : {"idle", "classify", "read", "stat", "swap", "chmod"}, kind : {"tick", "strip"},
        want : DOMAIN Wants, next : Texts, mode : BOOLEAN, stale : BOOLEAN]

LEMMA WantsTyped == \A w \in DOMAIN Wants : Wants[w] \in Publications
<1>1. Wants \in Seq(Publications)
  BY WantsAssumption, Zenon DEF Publications
<1> QED
  BY <1>1

LEMMA FirstWant == 1 \in DOMAIN Wants /\ Len(Wants) \in Nat /\ DOMAIN Wants = 1..Len(Wants)
  BY WantsAssumption

LEMMA IdleTyped == Idle \in Ops
<1>1. <<>> \in Texts
  BY DEF Texts
<1> QED
  BY <1>1, FirstWant DEF Idle, Ops

\* A change of the fields leaves an operation one.
LEMMA OpEdits ==
    \A o \in Ops : /\ \A pc \in {"idle", "classify", "read", "stat", "swap", "chmod"} : [o EXCEPT !.pc = pc] \in Ops
                   /\ \A b \in BOOLEAN : [o EXCEPT !.mode = b] \in Ops /\ [o EXCEPT !.stale = b] \in Ops
                   /\ \A n \in Texts : [o EXCEPT !.pc = "stat", !.next = n] \in Ops
                   /\ \A b \in BOOLEAN : [o EXCEPT !.pc = "swap", !.mode = b] \in Ops
                   /\ \A b \in BOOLEAN : [Idle EXCEPT !.pc = "chmod", !.mode = b] \in Ops
  BY IdleTyped DEF Ops

LEMMA OutdatedTyped == TypeOK => \A others : Outdated(others) \in [Procs -> Ops]
<1> SUFFICES ASSUME TypeOK, NEW others PROVE Outdated(others) \in [Procs -> Ops]
  OBVIOUS
<1>1. op \in [Procs -> Ops]
  BY DEF TypeOK, Ops
<1>2. \A q \in Procs : Busy(q, {"stat", "swap"}) \in BOOLEAN
  BY DEF Busy
<1> QED
  BY <1>1, <1>2, OpEdits DEF Outdated

LEMMA StepTypeOK == TypeOK /\ [NextStep]_vars => TypeOK'
<1> SUFFICES ASSUME TypeOK, [NextStep]_vars PROVE TypeOK'
  OBVIOUS
<1>1. /\ there \in BOOLEAN /\ text \in Texts /\ mode \in BOOLEAN /\ want \in DOMAIN Wants
      /\ op \in [Procs -> Ops] /\ users \in [part : Texts, joinable : BOOLEAN] /\ spoilt \in BOOLEAN
      /\ edits \in 0..MaxEdits /\ events \in 0..MaxEvents
  BY DEF TypeOK, Ops
<1>2. Event => events' \in 0..MaxEvents
  BY <1>1, BoundsAssumption DEF Event
<1> SUFFICES /\ there' \in BOOLEAN /\ text' \in Texts /\ mode' \in BOOLEAN /\ want' \in DOMAIN Wants
             /\ op' \in [Procs -> Ops] /\ users' \in [part : Texts, joinable : BOOLEAN] /\ spoilt' \in BOOLEAN
             /\ edits' \in 0..MaxEdits /\ events' \in 0..MaxEvents
  BY DEF TypeOK, Ops
<1>3. CASE UNCHANGED vars
  BY <1>1, <1>3 DEF vars, file, history, bounds
<1>4. ASSUME NEW p \in Procs, Tick(p) PROVE op' \in [Procs -> Ops]
  <2>1. [Idle EXCEPT !.pc = "classify", !.want = want] \in Ops
    BY <1>1, IdleTyped DEF Ops
  <2> QED
    BY <1>1, <1>4, <2>1 DEF Tick
<1>5. ASSUME NEW p \in Procs, Strip(p) PROVE op' \in [Procs -> Ops]
  <2>1. [Idle EXCEPT !.pc = "read", !.kind = "strip"] \in Ops
    BY IdleTyped DEF Ops
  <2> QED
    BY <1>1, <1>5, <2>1 DEF Strip
<1>6. ASSUME NEW p \in Procs, Classify(p) PROVE op' \in [Procs -> Ops]
  BY <1>1, <1>6, IdleTyped, OpEdits DEF Classify
<1>7. ASSUME NEW p \in Procs, Read(p) PROVE op' \in [Procs -> Ops]
  <2> DEFINE next == IF op[p].kind = "strip" THEN WithoutBlocks(text)
                     ELSE IF there THEN WithBlock(text, Wants[op[p].want]) ELSE Rendered(Wants[op[p].want])
  <2>1. Wants[op[p].want] \in Publications
    BY <1>1, WantsTyped DEF Ops
  <2>2. next \in Texts
    BY <1>1, <2>1, WrittenTyped, RenderedTyped
  <2>3. op' = [op EXCEPT ![p] = IF op[p].kind = "strip" /\ FindMarkers(text) = <<>> THEN Idle
                                 ELSE [op[p] EXCEPT !.pc = "stat", !.next = next]]
    BY <1>7 DEF Read
  <2> HIDE DEF next
  <2>4. [op[p] EXCEPT !.pc = "stat", !.next = next] \in Ops
    BY <1>1, <2>2, OpEdits
  <2> QED
    BY <1>1, <2>3, <2>4, IdleTyped
<1>8. ASSUME NEW p \in Procs, Stat(p) PROVE op' \in [Procs -> Ops] /\ spoilt' \in BOOLEAN
  <2>1. (there => mode) \in BOOLEAN
    OBVIOUS
  <2>2. op' = [op EXCEPT ![p] = [op[p] EXCEPT !.pc = "swap", !.mode = (there => mode)]]
    BY <1>1, <1>8 DEF Stat, Ops
  <2>3. [op[p] EXCEPT !.pc = "swap", !.mode = (there => mode)] \in Ops
    BY <1>1, <2>1, OpEdits
  <2>4. spoilt' \in BOOLEAN
    BY <1>8 DEF Stat
  <2> QED
    BY <1>1, <2>2, <2>3, <2>4
<1>9. ASSUME NEW p \in Procs, Swap(p)
      PROVE op' \in [Procs -> Ops] /\ there' \in BOOLEAN /\ text' \in Texts /\ mode' \in BOOLEAN
            /\ users' \in [part : Texts, joinable : BOOLEAN]
  <2>1. op[p].next \in Texts /\ op[p].mode \in BOOLEAN
    BY <1>1 DEF Ops
  <2>2. Outdated(Procs \ {p}) \in [Procs -> Ops]
    BY OutdatedTyped
  <2>3. [Idle EXCEPT !.pc = "chmod", !.mode = op[p].mode] \in Ops
    BY <2>1, IdleTyped, OpEdits
  <2>4. Users(op[p].next) \in [part : Texts, joinable : BOOLEAN]
    BY <2>1, UsersTyped
  <2> QED
    BY <1>1, <1>9, <2>1, <2>2, <2>3, <2>4 DEF Swap
<1>10. ASSUME NEW p \in Procs, Chmod(p) PROVE op' \in [Procs -> Ops] /\ mode' \in BOOLEAN
  <2>1. op[p].mode \in BOOLEAN
    BY <1>1 DEF Ops
  <2> QED
    BY <1>1, <1>10, <2>1, IdleTyped DEF Chmod
<1>11. ASSUME NEW p \in Procs, GiveUp(p) PROVE op' \in [Procs -> Ops] /\ spoilt' \in BOOLEAN
  BY <1>1, <1>11, IdleTyped DEF GiveUp, Busy
<1>12. CASE OldTick
  <2> DEFINE next == IF there THEN OldWritten(text, Wants[want].hash) ELSE OldBlock(Wants[want].hash)
  <2>1. Wants[want].hash \in Nat
    BY <1>1, WantsTyped DEF Publications
  <2>2. next \in Texts
    BY <1>1, <2>1, OldWrittenTyped, OldBlockTyped
  <2>3. /\ there' = TRUE /\ text' = next /\ users' = Users(next) /\ op' = Outdated(Procs)
        /\ UNCHANGED <<want, bounds>>
    BY <1>12 DEF OldTick
  <2>4. mode' \in BOOLEAN /\ spoilt' \in BOOLEAN
    BY <1>1, <1>12 DEF OldTick
  <2> HIDE DEF next
  <2> QED
    BY <1>1, <2>2, <2>3, <2>4, UsersTyped, OutdatedTyped DEF bounds
<1>13. CASE Publish
  <2>1. want' \in DOMAIN Wants
    BY <1>1, <1>13, FirstWant DEF Publish
  <2> QED
    BY <1>1, <1>2, <1>13, <2>1 DEF Publish, file, history
<1>14. CASE UserSaves
  <2>1. text' \in Texts
    <3>1. Len(text) \in Nat /\ DOMAIN text = 1..Len(text)
      BY <1>1 DEF Texts
    <3>2. ASSUME NEW i \in 1..(Len(text) + 1), NEW j \in 1..(Len(text) + 1)
          PROVE SubSeq(text, 1, i - 1) \in Texts /\ SubSeq(text, j, Len(text)) \in Texts
      BY <1>1, <3>1, PartTyped
    <3>3. ASSUME NEW i \in DOMAIN text PROVE RemoveAt(text, i) \in Texts
      <4>1. i \in 1..(Len(text) + 1) /\ i + 1 \in 1..(Len(text) + 1)
        BY <3>1
      <4> QED
        BY <3>2, <4>1, JoinTyped DEF RemoveAt
    <3>4. ASSUME NEW i \in 1..(Len(text) + 1), NEW tok \in UserTokens PROVE InsertAt(text, i, tok) \in Texts
      <4>1. <<tok>> \in Texts
        <5>1. tok \in Tokens
          BY UserAssumption
        <5> QED
          BY <5>1 DEF Texts
      <4> QED
        BY <3>2, <4>1, JoinTyped DEF InsertAt
    <3> QED
      BY <1>14, <3>3, <3>4 DEF UserSaves
  <2>2. users' \in [part : Texts, joinable : BOOLEAN]
    BY <1>14, <2>1, UsersTyped DEF UserSaves
  <2>3. edits' \in 0..MaxEdits
    BY <1>1, <1>14, BoundsAssumption DEF UserSaves
  <2> QED
    BY <1>1, <1>14, <2>1, <2>2, <2>3, OutdatedTyped DEF UserSaves
<1>15. CASE UserChmods
  <2>1. op' \in [Procs -> Ops]
    BY <1>1, <1>15, OpEdits DEF UserChmods
  <2>2. spoilt' \in BOOLEAN
    BY <1>15 DEF UserChmods
  <2> QED
    BY <1>1, <1>2, <1>15, <2>1, <2>2 DEF UserChmods
<1>16. ASSUME NEW p \in Procs, Tick(p) \/ Strip(p) \/ Step(p) \/ GiveUp(p)
       PROVE /\ there' \in BOOLEAN /\ text' \in Texts /\ mode' \in BOOLEAN /\ want' \in DOMAIN Wants
             /\ op' \in [Procs -> Ops] /\ users' \in [part : Texts, joinable : BOOLEAN] /\ spoilt' \in BOOLEAN
             /\ edits' \in 0..MaxEdits /\ events' \in 0..MaxEvents
  <2>1. CASE Tick(p)
    BY <1>1, <1>4, <2>1 DEF Tick, file, history, bounds
  <2>2. CASE Strip(p)
    BY <1>1, <1>2, <1>5, <2>2 DEF Strip, file, history
  <2>3. CASE Classify(p)
    BY <1>1, <1>6, <2>3 DEF Classify, file, history, bounds
  <2>4. CASE Read(p)
    <3>1. UNCHANGED <<file, want, history, bounds>>
      BY <2>4 DEF Read
    <3> QED
      BY <1>1, <1>7, <2>4, <3>1 DEF file, history, bounds
  <2>5. CASE Stat(p)
    <3>1. UNCHANGED <<file, want, users, bounds>>
      BY <2>5 DEF Stat
    <3> QED
      BY <1>1, <1>8, <2>5, <3>1 DEF file, bounds
  <2>6. CASE Swap(p)
    <3>1. UNCHANGED <<want, spoilt, bounds>>
      BY <2>6 DEF Swap
    <3> QED
      BY <1>1, <1>9, <2>6, <3>1 DEF bounds
  <2>7. CASE Chmod(p)
    BY <1>1, <1>10, <2>7 DEF Chmod, history, bounds
  <2>8. CASE GiveUp(p)
    BY <1>1, <1>2, <1>11, <2>8 DEF GiveUp, file
  <2> QED
    BY <1>16, <2>1, <2>2, <2>3, <2>4, <2>5, <2>6, <2>7, <2>8 DEF Step
<1> QED
  BY <1>3, <1>12, <1>13, <1>14, <1>15, <1>16 DEF NextStep

\* Every variable keeps its type: what a pass, a strip, the released binary or
\* the user makes of a text of tokens is one.
THEOREM TypeCorrect == Spec => []TypeOK
<1>1. Init => TypeOK
  <2> SUFFICES ASSUME Init PROVE TypeOK
    OBVIOUS
  <2>1. text \in Texts
    <3>1. <<>> \in Texts
      BY DEF Texts
    <3> QED
      BY <3>1, UserAssumption DEF Init
  <2>2. op \in [Procs -> Ops]
    BY IdleTyped DEF Init
  <2>3. users \in [part : Texts, joinable : BOOLEAN]
    BY <2>1, UsersTyped DEF Init
  <2>4. edits \in 0..MaxEdits /\ events \in 0..MaxEvents
    BY BoundsAssumption DEF Init
  <2>5. there \in BOOLEAN /\ mode \in BOOLEAN /\ spoilt \in BOOLEAN /\ want \in DOMAIN Wants
    BY FirstWant DEF Init
  <2> QED
    BY <2>1, <2>2, <2>3, <2>4, <2>5, Zenon DEF TypeOK, Ops
<1> QED
  BY <1>1, StepTypeOK, PTL DEF Spec

\* The scan finds the blocks and nothing else, whatever the user, crashes and
\* older binaries made of the file.
THEOREM ScanFindsBlocks == Spec => []FindsBlocks
<1>1. TypeOK => FindsBlocks
  <2> SUFFICES ASSUME text \in Texts PROVE FindsBlocks
    BY DEF TypeOK
  <2> DEFINE f == ToSet(FindMarkers(text))
  <2>1. f = {Found(text, x[1], x[2]) : x \in Blocks(text)}
    BY FindMarkersRight
  <2>2. \A x : /\ Found(text, x[1], x[2]).start = x[1]
               /\ Found(text, x[1], x[2]).next = AfterNewlines(text, x[2] + 1)
    BY DEF Found
  <2> DEFINE at(x) == Found(text, x[1], x[2])
             from(x) == <<x[1], AfterNewlines(text, x[2] + 1)>>
  <2>3. f = {at(x) : x \in Blocks(text)} /\ \A x : from(x) = <<at(x).start, at(x).next>>
    BY <2>1, <2>2
  <2>4. FindsBlocks <=> {<<x.start, x.next>> : x \in f} = {from(x) : x \in Blocks(text)}
    BY DEF FindsBlocks
  <2> HIDE DEF f, at, from
  <2> QED
    BY <2>3, <2>4
<1> QED
  BY <1>1, TypeCorrect, PTL
-----------------------------------------------------------------------------
(***************************************************************************)
(* What a replacement keeps: of any kind of token but newlines, what       *)
(* stands outside of the blocks, in order.                                 *)
(***************************************************************************)
\* The tokens of a text that are in a set, in order; those at some of its
\* first n positions.
Only(t, W) == FlattenSeq([k \in DOMAIN t |-> IF t[k] \in W THEN <<t[k]>> ELSE <<>>])
Upto(s, at, n) == FlattenSeq([k \in 1..n |-> IF k \in at THEN <<s[k]>> ELSE <<>>])

LEMMA UptoGrows ==
    ASSUME NEW s \in Texts, NEW at
    PROVE  /\ Upto(s, at, 0) = <<>>
           /\ \A n \in 0..Len(s) : Upto(s, at, n) \in Texts
           /\ \A n \in 0..(Len(s) - 1) :
                Upto(s, at, n + 1) = IF n + 1 \in at THEN Append(Upto(s, at, n), s[n + 1]) ELSE Upto(s, at, n)
<1> DEFINE g(n) == [k \in 1..n |-> IF k \in at THEN <<s[k]>> ELSE <<>>]
<1>1. Len(s) \in Nat /\ \A k \in 1..Len(s) : s[k] \in Tokens
  BY DEF Texts
<1>2. ASSUME NEW n \in 0..Len(s) PROVE g(n) \in [1..n -> Seq(Tokens)] /\ g(n) \in Seq(Seq(Tokens)) /\ Len(g(n)) = n
  <2>1. \A k \in 1..n : <<s[k]>> \in Seq(Tokens) /\ <<>> \in Seq(Tokens)
    BY <1>1
  <2>2. g(n) \in [1..n -> Seq(Tokens)]
    BY <2>1
  <2> QED
    BY <2>2
<1>3. Upto(s, at, 0) = <<>>
  <2>1. g(0) = <<>>
    BY <1>1, <1>2
  <2> QED
    BY <2>1, FlattenEmpty DEF Upto
<1>4. ASSUME NEW n \in 0..Len(s) PROVE Upto(s, at, n) \in Texts
  <2>1. FlattenSeq(g(n)) \in Seq(Tokens)
    <3>1. g(n) \in Seq(Seq(Tokens)) /\ <<>> \in Seq(Tokens)
      BY <1>2
    <3> HIDE DEF g
    <3> QED
      BY <3>1, FlattenAppend
  <2> QED
    BY <2>1 DEF Upto, Texts
<1>5. ASSUME NEW n \in 0..(Len(s) - 1)
      PROVE Upto(s, at, n + 1) = IF n + 1 \in at THEN Append(Upto(s, at, n), s[n + 1]) ELSE Upto(s, at, n)
  <2> DEFINE x == IF n + 1 \in at THEN <<s[n + 1]>> ELSE <<>>
  <2>1. n \in 0..Len(s) /\ n + 1 \in 0..Len(s) /\ n + 1 \in 1..Len(s)
    BY <1>1
  <2>2. x \in Seq(Tokens) /\ s[n + 1] \in Tokens
    BY <1>1, <2>1
  <2>3. g(n + 1) = Append(g(n), x)
    <3>1. g(n) \in Seq(Seq(Tokens)) /\ Len(g(n)) = n /\ g(n + 1) \in Seq(Seq(Tokens)) /\ Len(g(n + 1)) = n + 1
      BY <1>2, <2>1
    <3>2. \A k \in 1..n : g(n + 1)[k] = g(n)[k]
      OBVIOUS
    <3>3. g(n + 1)[n + 1] = x
      BY <2>1
    <3> HIDE DEF g, x
    <3> QED
      BY <2>1, <2>2, <3>1, <3>2, <3>3
  <2>4. FlattenSeq(g(n + 1)) = FlattenSeq(g(n)) \o x
    <3>1. g(n) \in Seq(Seq(Tokens))
      BY <1>2, <2>1
    <3> HIDE DEF g, x
    <3> QED
      BY <2>2, <2>3, <3>1, FlattenAppend
  <2>5. FlattenSeq(g(n)) \in Seq(Tokens)
    BY <1>4, <2>1 DEF Upto, Texts
  <2>6. FlattenSeq(g(n)) \o x = IF n + 1 \in at THEN Append(FlattenSeq(g(n)), s[n + 1]) ELSE FlattenSeq(g(n))
    <3> HIDE DEF g
    <3>1. FlattenSeq(g(n)) \o <<>> = FlattenSeq(g(n))
      BY <2>5
    <3>2. FlattenSeq(g(n)) \o <<s[n + 1]>> = Append(FlattenSeq(g(n)), s[n + 1])
      BY <2>2, <2>5, AppendIsConcat
    <3> QED
      BY <3>1, <3>2
  <2> QED
    BY <2>4, <2>6 DEF Upto
<1> QED
  BY <1>3, <1>4, <1>5

LEMMA OnlyIsKept ==
    ASSUME NEW s \in Texts, NEW W
    PROVE  Only(s, W) = Kept(s, {k \in DOMAIN s : s[k] \in W}) /\ Only(s, W) \in Texts
<1>1. [k \in DOMAIN s |-> IF s[k] \in W THEN <<s[k]>> ELSE <<>>]
      = [k \in DOMAIN s |-> IF k \in {i \in DOMAIN s : s[i] \in W} THEN <<s[k]>> ELSE <<>>]
  OBVIOUS
<1>2. Only(s, W) = Kept(s, {k \in DOMAIN s : s[k] \in W})
  BY <1>1 DEF Only, Kept
<1> QED
  BY <1>2, KeptTyped

LEMMA KeptIsUpto == \A s \in Texts : \A at : Kept(s, at) = Upto(s, at, Len(s))
<1>1. \A s \in Texts : DOMAIN s = 1..Len(s)
  BY DEF Texts
<1> QED
  BY <1>1 DEF Kept, Upto

LEMMA OnlyJoins ==
    ASSUME NEW s \in Texts, NEW t \in Texts, NEW W
    PROVE  Only(s \o t, W) = Only(s, W) \o Only(t, W)
<1> DEFINE one(x) == IF x \in W THEN <<x>> ELSE <<>>
           g(u) == [k \in DOMAIN u |-> one(u[k])]
<1>1. \A u \in Texts : g(u) \in Seq(Seq(Tokens)) /\ Len(g(u)) = Len(u)
  <2> SUFFICES ASSUME NEW u \in Texts PROVE g(u) \in Seq(Seq(Tokens)) /\ Len(g(u)) = Len(u)
    OBVIOUS
  <2>1. Len(u) \in Nat /\ DOMAIN u = 1..Len(u) /\ \A k \in 1..Len(u) : u[k] \in Tokens
    BY DEF Texts
  <2>2. \A k \in 1..Len(u) : one(u[k]) \in Seq(Tokens)
    BY <2>1
  <2> HIDE DEF one
  <2>3. g(u) \in [1..Len(u) -> Seq(Tokens)]
    BY <2>1, <2>2
  <2> QED
    BY <2>1, <2>3
<1>2. s \o t \in Texts /\ Len(s) \in Nat /\ Len(t) \in Nat /\ Len(s \o t) = Len(s) + Len(t)
      /\ DOMAIN (s \o t) = 1..(Len(s) + Len(t)) /\ DOMAIN s = 1..Len(s) /\ DOMAIN t = 1..Len(t)
  BY DEF Texts
<1>3. g(s \o t) = g(s) \o g(t)
  <2>1. \A k \in 1..Len(s) : (s \o t)[k] = s[k]
    BY <1>2, ConcatProperties DEF Texts
  <2>2. \A k \in 1..Len(t) : (s \o t)[Len(s) + k] = t[k]
    BY <1>2, ConcatProperties DEF Texts
  <2>3. \A k \in 1..Len(s) : g(s \o t)[k] = g(s)[k]
    <3> HIDE DEF one
    <3>1. \A k \in 1..Len(s) : k \in DOMAIN (s \o t) /\ k \in DOMAIN s
      BY <1>2
    <3> QED
      BY <2>1, <3>1
  <2>4. \A k \in 1..Len(t) : g(s \o t)[Len(s) + k] = g(t)[k]
    <3> HIDE DEF one
    <3>1. \A k \in 1..Len(t) : Len(s) + k \in DOMAIN (s \o t) /\ k \in DOMAIN t
      BY <1>2
    <3> QED
      BY <2>2, <3>1
  <2>5. /\ g(s \o t) \in Seq(Seq(Tokens)) /\ Len(g(s \o t)) = Len(s) + Len(t)
        /\ g(s) \in Seq(Seq(Tokens)) /\ Len(g(s)) = Len(s)
        /\ g(t) \in Seq(Seq(Tokens)) /\ Len(g(t)) = Len(t)
    BY <1>1, <1>2
  <2> HIDE DEF g
  <2>6. \A k \in (Len(s) + 1)..(Len(s) + Len(t)) : g(s \o t)[k] = g(t)[k - Len(s)]
    <3> SUFFICES ASSUME NEW k \in (Len(s) + 1)..(Len(s) + Len(t)) PROVE g(s \o t)[k] = g(t)[k - Len(s)]
      OBVIOUS
    <3>1. k - Len(s) \in 1..Len(t) /\ Len(s) + (k - Len(s)) = k
      BY <1>2
    <3> QED
      BY <2>4, <3>1
  <2> DEFINE u == g(s) \o g(t)
  <2>7. /\ u \in Seq(Seq(Tokens)) /\ Len(u) = Len(s) + Len(t)
        /\ \A k \in 1..Len(s) : u[k] = g(s)[k]
        /\ \A k \in (Len(s) + 1)..(Len(s) + Len(t)) : u[k] = g(t)[k - Len(s)]
    <3> DEFINE a == g(s)
               b == g(t)
               T == Seq(Tokens)
    <3>1. Len(a) = Len(s) /\ Len(b) = Len(t) /\ a \in Seq(T) /\ b \in Seq(T)
      BY <2>5
    <3> HIDE DEF a, b, T
    <3>2. /\ a \o b \in Seq(T) /\ Len(a \o b) = Len(a) + Len(b)
          /\ \A k \in 1..(Len(a) + Len(b)) : (a \o b)[k] = IF k <= Len(a) THEN a[k] ELSE b[k - Len(a)]
      BY <3>1, ConcatProperties
    <3>3. /\ \A k \in 1..Len(s) : (a \o b)[k] = a[k]
          /\ \A k \in (Len(s) + 1)..(Len(s) + Len(t)) : (a \o b)[k] = b[k - Len(s)]
      BY <1>2, <3>1, <3>2
    <3> QED
      BY <3>1, <3>2, <3>3 DEF a, b, T
  <2> HIDE DEF u
  <2>8. \A k \in 1..Len(u) : u[k] = g(s \o t)[k]
    <3>1. \A k \in 1..Len(u) : k \in 1..Len(s) \/ k \in (Len(s) + 1)..(Len(s) + Len(t))
      BY <1>2, <2>7
    <3> QED
      BY <2>3, <2>6, <2>7, <3>1
  <2>9. u = g(s \o t)
    BY <2>5, <2>7, <2>8, SeqEqual
  <2> QED
    BY <2>9 DEF u
<1>4. FlattenSeq(g(s) \o g(t)) = FlattenSeq(g(s)) \o FlattenSeq(g(t))
  <2>1. g(s) \in Seq(Seq(Tokens)) /\ g(t) \in Seq(Seq(Tokens))
    BY <1>1
  <2> HIDE DEF g
  <2> QED
    BY <2>1, FlattenConcat
<1> QED
  BY <1>3, <1>4 DEF Only

LEMMA OnlyNone ==
    ASSUME NEW t \in Texts, NEW W, \A k \in DOMAIN t : t[k] \notin W
    PROVE  Only(t, W) = <<>>
<1> DEFINE g == [k \in 1..Len(t) |-> <<>>]
<1>1. Len(t) \in Nat /\ DOMAIN t = 1..Len(t)
  BY DEF Texts
<1>2. Only(t, W) = FlattenSeq(g)
  <2>1. g = [k \in DOMAIN t |-> IF t[k] \in W THEN <<t[k]>> ELSE <<>>]
    BY <1>1
  <2> HIDE DEF g
  <2> QED
    BY <2>1 DEF Only
<1>3. g \in [1..Len(t) -> Seq(Tokens)] /\ \A i \in 1..Len(t) : ToSet(g[i]) = {}
  BY DEF ToSet
<1> HIDE DEF g
<1>4. FlattenSeq(g) \in Seq(Tokens) /\ \A x : x \in ToSet(FlattenSeq(g)) <=> \E i \in 1..Len(t) : x \in ToSet(g[i])
  BY <1>1, <1>3, FlattenMap
<1>5. ToSet(FlattenSeq(g)) = {}
  BY <1>3, <1>4
<1>6. FlattenSeq(g) = <<>>
  BY <1>4, <1>5 DEF ToSet
<1> QED
  BY <1>2, <1>6

LEMMA OnlyOne == \A x \in Tokens : \A W : Only(<<x>>, W) = IF x \in W THEN <<x>> ELSE <<>>
<1> SUFFICES ASSUME NEW x \in Tokens, NEW W PROVE Only(<<x>>, W) = IF x \in W THEN <<x>> ELSE <<>>
  OBVIOUS
<1>1. <<x>> \in Texts /\ Len(<<x>>) = 1 /\ <<x>>[1] = x /\ DOMAIN <<x>> = 1..1
  BY DEF Texts
<1> DEFINE at == {k \in DOMAIN <<x>> : <<x>>[k] \in W}
<1>2. 1 \in at <=> x \in W
  BY <1>1
<1>3. Only(<<x>>, W) = Upto(<<x>>, at, 1)
  BY <1>1, OnlyIsKept, KeptIsUpto
<1> HIDE DEF at
<1>4. Upto(<<x>>, at, 0) = <<>>
  BY <1>1, UptoGrows
<1>5. Upto(<<x>>, at, 1) = IF 1 \in at THEN Append(Upto(<<x>>, at, 0), <<x>>[1]) ELSE Upto(<<x>>, at, 0)
  <2> DEFINE t == <<x>>
  <2>1. t \in Texts
    BY <1>1
  <2>2. 0 \in 0..(Len(t) - 1) /\ 0 + 1 = 1
    BY <1>1
  <2> HIDE DEF t
  <2>3. \A n \in 0..(Len(t) - 1) :
          Upto(t, at, n + 1) = IF n + 1 \in at THEN Append(Upto(t, at, n), t[n + 1]) ELSE Upto(t, at, n)
    BY <2>1, UptoGrows
  <2>4. Upto(t, at, 1) = IF 1 \in at THEN Append(Upto(t, at, 0), t[1]) ELSE Upto(t, at, 0)
    BY <2>2, <2>3
  <2> QED
    BY <2>4 DEF t
<1> QED
  BY <1>1, <1>2, <1>3, <1>4, <1>5

\* Positions that do not count, and those that do, one after the other.
LEMMA UptoSkips ==
    ASSUME NEW s \in Texts, NEW at, NEW m \in 0..Len(s), NEW n \in m..Len(s), \A k \in (m + 1)..n : k \notin at
    PROVE  Upto(s, at, n) = Upto(s, at, m)
<1> DEFINE P == {i \in 0..(n - m) : Upto(s, at, m + i) = Upto(s, at, m)}
<1>1. Len(s) \in Nat /\ m \in Nat /\ n \in Nat /\ n - m \in Nat
  BY DEF Texts
<1>2. 0 \in P
  BY <1>1
<1>3. ASSUME NEW i \in 0..((n - m) - 1), i \in P PROVE i + 1 \in P
  <2>1. m + i \in 0..(Len(s) - 1) /\ (m + i) + 1 = m + (i + 1) /\ (m + i) + 1 \in (m + 1)..n
        /\ i + 1 \in 0..(n - m)
    BY <1>1
  <2>2. Upto(s, at, (m + i) + 1) = Upto(s, at, m + i)
    <3>1. \A j \in 0..(Len(s) - 1) :
            Upto(s, at, j + 1) = IF j + 1 \in at THEN Append(Upto(s, at, j), s[j + 1]) ELSE Upto(s, at, j)
      BY UptoGrows
    <3>2. (m + i) + 1 \notin at
      BY <2>1
    <3> QED
      BY <2>1, <3>1, <3>2
  <2> QED
    BY <1>3, <2>1, <2>2
<1>4. \A i \in 0..(n - m) : i \in P
  <2>1. \A i \in 0..((n - m) - 1) : i \in P => i + 1 \in P
    BY <1>3
  <2> HIDE DEF P
  <2> QED
    BY <1>1, <1>2, <2>1, InductionUpTo
<1>5. n - m \in P
  <2> HIDE DEF P
  <2> QED
    BY <1>1, <1>4
<1> QED
  BY <1>1, <1>5

LEMMA UptoAdds ==
    ASSUME NEW s \in Texts, NEW at, NEW W, NEW m \in 0..Len(s), NEW n \in m..Len(s),
           \A k \in (m + 1)..n : k \in at <=> s[k] \in W
    PROVE  Upto(s, at, n) = Upto(s, at, m) \o Only(SubSeq(s, m + 1, n), W)
<1> DEFINE part(i) == SubSeq(s, m + 1, m + i)
           P == {i \in 0..(n - m) : Upto(s, at, m + i) = Upto(s, at, m) \o Only(part(i), W)}
<1>1. Len(s) \in Nat /\ m \in Nat /\ n \in Nat /\ n - m \in Nat /\ \A k \in 1..Len(s) : s[k] \in Tokens
  BY DEF Texts
<1>2. \A j \in 0..Len(s) : Upto(s, at, j) \in Texts
  BY UptoGrows
<1>3. \A i \in 0..(n - m) : part(i) \in Texts
  <2>1. \A i \in 0..(n - m) : m + i \in Int /\ m + i <= Len(s) /\ m + 1 \in Int /\ m + 1 >= 1
    BY <1>1
  <2> QED
    BY <2>1, PartTyped
<1>4. 0 \in P
  <2>1. part(0) = <<>>
    BY <1>1
  <2>2. Only(part(0), W) = <<>>
    <3>1. <<>> \in Texts /\ \A k \in DOMAIN <<>> : <<>>[k] \notin W
      BY DEF Texts
    <3> QED
      BY <2>1, <3>1, OnlyNone
  <2>3. Upto(s, at, m) \o <<>> = Upto(s, at, m)
    BY <1>2 DEF Texts
  <2>4. m + 0 = m /\ 0 \in 0..(n - m)
    BY <1>1
  <2> HIDE DEF part
  <2>5. Upto(s, at, m + 0) = Upto(s, at, m) \o Only(part(0), W)
    BY <2>2, <2>3, <2>4
  <2> QED
    BY <2>4, <2>5
<1>5. ASSUME NEW i \in 0..((n - m) - 1), i \in P PROVE i + 1 \in P
  <2> DEFINE x == s[m + (i + 1)]
  <2>1. /\ m + i \in 0..(Len(s) - 1) /\ m + i \in 0..Len(s) /\ (m + i) + 1 = m + (i + 1)
        /\ m + (i + 1) \in (m + 1)..n /\ m + (i + 1) \in 1..Len(s)
        /\ i + 1 \in 0..(n - m) /\ i \in 0..(n - m)
    BY <1>1
  <2>2. x \in Tokens /\ <<x>> \in Texts
    BY <1>1, <2>1 DEF Texts
  <2>3. part(i + 1) = part(i) \o <<x>>
    <3>1. m + 1 \in 1..Len(s) /\ m + (i + 1) \in (m + 1)..Len(s) /\ (m + (i + 1)) - 1 = m + i /\ s \in Seq(Tokens)
      BY <1>1, <2>1 DEF Texts
    <3> QED
      BY <3>1, SubSeqRecursiveSecond
  <2>4. Only(part(i + 1), W) = Only(part(i), W) \o Only(<<x>>, W)
    <3>1. part(i) \in Texts
      BY <1>3, <2>1
    <3> DEFINE y == <<x>>
               z == part(i)
    <3>2. y \in Texts /\ z \in Texts /\ part(i + 1) = z \o y
      BY <2>2, <2>3, <3>1
    <3> HIDE DEF part, x, y, z
    <3>3. Only(z \o y, W) = Only(z, W) \o Only(y, W)
      BY <3>2, OnlyJoins
    <3> QED
      BY <3>2, <3>3 DEF y, z
  <2>5. Only(<<x>>, W) = IF x \in W THEN <<x>> ELSE <<>>
    BY <2>2, OnlyOne
  <2>6. Upto(s, at, m + (i + 1)) = IF x \in W THEN Append(Upto(s, at, m + i), x) ELSE Upto(s, at, m + i)
    <3>1. \A j \in 0..(Len(s) - 1) :
            Upto(s, at, j + 1) = IF j + 1 \in at THEN Append(Upto(s, at, j), s[j + 1]) ELSE Upto(s, at, j)
      BY UptoGrows
    <3>2. m + (i + 1) \in at <=> x \in W
      BY <2>1
    <3> QED
      BY <2>1, <3>1, <3>2
  <2> DEFINE u == Upto(s, at, m)
             v == Only(part(i), W)
  <2>7. u \in Texts /\ v \in Texts /\ Upto(s, at, m + i) = u \o v
    <3>1. m \in 0..Len(s) /\ part(i) \in Texts
      BY <1>1, <1>3, <2>1
    <3> HIDE DEF part
    <3> QED
      BY <1>2, <1>5, <3>1, OnlyIsKept
  <2>8. Append(u \o v, x) = u \o (v \o <<x>>) /\ v \o <<>> = v
    <3> HIDE DEF u, v, x
    <3>1. u \in Seq(Tokens) /\ v \in Seq(Tokens) /\ x \in Tokens
      BY <2>2, <2>7 DEF Texts
    <3>2. u \o Append(v, x) = Append(u \o v, x)
      BY <3>1, ConcatAppend
    <3>3. Append(v, x) = v \o <<x>> /\ v \o <<>> = v
      BY <3>1, AppendIsConcat
    <3> QED
      BY <3>2, <3>3
  <2>9. Upto(s, at, m + (i + 1)) = u \o Only(part(i + 1), W)
    <3> HIDE DEF u, v, x, part
    <3>1. Only(part(i + 1), W) = v \o (IF x \in W THEN <<x>> ELSE <<>>)
      BY <2>4, <2>5 DEF v
    <3> QED
      BY <2>6, <2>7, <2>8, <3>1
  <2> QED
    BY <2>1, <2>9
<1>6. \A i \in 0..(n - m) : i \in P
  <2>1. \A i \in 0..((n - m) - 1) : i \in P => i + 1 \in P
    BY <1>5
  <2> HIDE DEF P
  <2> QED
    BY <1>1, <1>4, <2>1, InductionUpTo
<1>7. n - m \in P
  <2> HIDE DEF P
  <2> QED
    BY <1>1, <1>6
<1>8. m + (n - m) = n
  BY <1>1
<1> QED
  BY <1>7, <1>8

\* The blocks that were found cover exactly what is not outside, and newlines.
LEMMA FoundCovers ==
    ASSUME NEW s \in Texts
    PROVE  LET f == FindMarkers(s) IN
           /\ \A i \in 1..Len(f) : /\ f[i].start \in 1..Len(s) /\ f[i].next \in (f[i].start + 1)..(Len(s) + 1)
                                   /\ \A k \in f[i].start..(f[i].next - 1) : k \notin Outside(s) \/ s[k] = Newline
           /\ \A i, j \in 1..Len(f) : i < j => f[i].next <= f[j].start
           /\ \A k \in DOMAIN s : k \in Outside(s) \/ \E i \in 1..Len(f) : k \in f[i].start..(f[i].next - 1)
<1> DEFINE f == FindMarkers(s)
<1>1. Len(s) \in Nat /\ DOMAIN s = 1..Len(s)
  BY DEF Texts
<1>2. /\ Len(f) \in Nat /\ DOMAIN f = 1..Len(f)
      /\ ToSet(f) = {Found(s, x[1], x[2]) : x \in Blocks(s)}
      /\ \A i, j \in 1..Len(f) : i < j => f[i].next <= f[j].start
  <2>1. /\ f \in Seq(Finds(s, 1))
        /\ ToSet(f) = {Found(s, x[1], x[2]) : x \in Blocks(s)}
        /\ \A i, j \in DOMAIN f : i < j => f[i].next <= f[j].start
    BY FindMarkersRight
  <2> HIDE DEF f
  <2>2. Len(f) \in Nat /\ DOMAIN f = 1..Len(f)
    BY <2>1
  <2> QED
    BY <2>1, <2>2
<1> HIDE DEF f
<1>3. ASSUME NEW x \in Blocks(s)
      PROVE  LET F == Found(s, x[1], x[2]) IN
             /\ x[1] \in 1..Len(s) /\ x[2] \in x[1]..Len(s)
             /\ F.start = x[1] /\ F.next \in (x[2] + 1)..(Len(s) + 1)
             /\ \A k \in (x[2] + 1)..(F.next - 1) : s[k] = Newline
  <2>1. x[1] \in 1..Len(s) /\ x[2] \in 1..Len(s) /\ x[1] < x[2]
    BY <1>1 DEF Blocks, Positions
  <2>2. x[2] + 1 \in 1..(Len(s) + 1)
    BY <1>1, <2>1
  <2>3. /\ AfterNewlines(s, x[2] + 1) \in (x[2] + 1)..(Len(s) + 1)
        /\ \A k \in (x[2] + 1)..(AfterNewlines(s, x[2] + 1) - 1) : s[k] = Newline
    BY <2>2, AfterNewlinesIs
  <2> QED
    BY <1>1, <2>1, <2>3 DEF Found
<1>4. ASSUME NEW i \in 1..Len(f)
      PROVE  /\ f[i].start \in 1..Len(s) /\ f[i].next \in (f[i].start + 1)..(Len(s) + 1)
             /\ \A k \in f[i].start..(f[i].next - 1) : k \notin Outside(s) \/ s[k] = Newline
  <2>1. PICK x \in Blocks(s) : f[i] = Found(s, x[1], x[2])
    BY <1>2 DEF ToSet
  <2>2. /\ x[1] \in 1..Len(s) /\ x[2] \in x[1]..Len(s)
        /\ f[i].start = x[1] /\ f[i].next \in (x[2] + 1)..(Len(s) + 1)
        /\ \A k \in (x[2] + 1)..(f[i].next - 1) : s[k] = Newline
    BY <1>3, <2>1
  <2>3. ASSUME NEW k \in x[1]..x[2] PROVE k \notin Outside(s)
    BY DEF Outside
  <2>4. ASSUME NEW k \in f[i].start..(f[i].next - 1) PROVE k \notin Outside(s) \/ s[k] = Newline
    <3>1. k \in x[1]..x[2] \/ k \in (x[2] + 1)..(f[i].next - 1)
      BY <1>1, <2>2
    <3> QED
      BY <2>2, <2>3, <3>1
  <2> QED
    BY <1>1, <2>2, <2>4
<1>5. ASSUME NEW k \in DOMAIN s, k \notin Outside(s) PROVE \E i \in 1..Len(f) : k \in f[i].start..(f[i].next - 1)
  <2>1. PICK x \in Blocks(s) : k \in x[1]..x[2]
    BY <1>5 DEF Outside
  <2>2. Found(s, x[1], x[2]) \in ToSet(f)
    BY <1>2
  <2>3. PICK i \in 1..Len(f) : f[i] = Found(s, x[1], x[2])
    BY <1>2, <2>2 DEF ToSet
  <2>4. /\ x[1] \in 1..Len(s) /\ x[2] \in x[1]..Len(s)
        /\ f[i].start = x[1] /\ f[i].next \in (x[2] + 1)..(Len(s) + 1)
    BY <1>3, <2>3
  <2> QED
    BY <1>1, <2>1, <2>4
<1> QED
  BY <1>2, <1>4, <1>5 DEF f

\* What a splice leaves of the text are the parts outside of the blocks, but
\* for newlines after blocks.
Before(s) == SubSeq(s, 1, Head(FindMarkers(s)).start - 1)
Gaps(s) == LET f == FindMarkers(s) IN [i \in DOMAIN f |-> Gap(s, f, i)]
Between(s) == FlattenSeq(Gaps(s))

LEMMA SpliceIs == \A s, new : Splice(s, FindMarkers(s), new) = Before(s) \o new \o Between(s)
  BY DEF Splice, Before, Between, Gaps, Gap

LEMMA GapsTyped ==
    ASSUME NEW s \in Texts, FindMarkers(s) # <<>>
    PROVE  /\ Before(s) \in Texts /\ Between(s) \in Texts
           /\ Gaps(s) \in Seq(Texts) /\ Len(Gaps(s)) = Len(FindMarkers(s))
<1> DEFINE f == FindMarkers(s)
           g == Gaps(s)
<1>1. f \in Seq(Spans(s)) /\ f # <<>>
  BY FindMarkersTyped
<1>2. Before(s) \in Texts
  BY <1>1, HeadTyped DEF Before
<1>3. g \in [1..Len(f) -> Texts] /\ Len(f) \in Nat
  <2>1. Len(f) \in Nat /\ DOMAIN f = 1..Len(f)
    BY <1>1
  <2>2. g = [i \in 1..Len(f) |-> Gap(s, f, i)]
    BY <2>1 DEF Gaps
  <2>3. \A i \in 1..Len(f) : Gap(s, f, i) \in Texts
    BY <1>1, GapTyped
  <2> QED
    BY <2>1, <2>2, <2>3
<1> HIDE DEF f, g
<1>4. g \in Seq(Texts) /\ Len(g) = Len(f)
  BY <1>3
<1>5. FlattenSeq(g) \in Texts
  <2>1. g \in [1..Len(f) -> Seq(Tokens)]
    BY <1>3 DEF Texts
  <2> QED
    BY <1>3, <2>1, FlattenMap DEF Texts
<1> QED
  BY <1>2, <1>4, <1>5 DEF Between, f, g

\* The places of s from m + 1 to n that at has are those of the tokens in W.
Agrees(s, at, W, m, n) ==
    /\ s \in Texts /\ m \in 0..Len(s) /\ n \in m..Len(s)
    /\ \A k \in (m + 1)..n : k \in at <=> s[k] \in W

LEMMA UptoAddsAgreed ==
    ASSUME NEW s, NEW at, NEW W, NEW m, NEW n, Agrees(s, at, W, m, n)
    PROVE  Upto(s, at, n) = Upto(s, at, m) \o Only(SubSeq(s, m + 1, n), W)
BY UptoAdds DEF Agrees

\* Of every kind of token but newlines a splice keeps what is outside.
LEMMA SpliceKeeps ==
    ASSUME NEW s \in Texts, FindMarkers(s) # <<>>, NEW W, Newline \notin W
    PROVE  Only(Before(s), W) \o Only(Between(s), W) = Kept(s, {k \in Outside(s) : s[k] \in W})
<1> DEFINE f == FindMarkers(s)
           n == Len(f)
           g == Gaps(s)
           at == {k \in Outside(s) : s[k] \in W}
           from(j) == f[j].start
           next(j) == f[j].next
           upto(j) == IF j = n THEN Len(s) ELSE f[j + 1].start - 1
           sofar(j) == FlattenSeq(SubSeq(g, 1, j))
           P == {j \in 0..n : Only(Before(s), W) \o Only(sofar(j), W) = Upto(s, at, upto(j))}
<1>1. Len(s) \in Nat /\ DOMAIN s = 1..Len(s) /\ s \in Seq(Tokens)
  BY DEF Texts
<1>2. n \in Nat \ {0} /\ Head(f) = f[1]
  <2>1. f \in Seq(Spans(s)) /\ f # <<>>
    BY FindMarkersTyped
  <2> HIDE DEF f
  <2> QED
    BY <2>1
<1>3. /\ \A i \in 1..n : /\ from(i) \in 1..Len(s) /\ next(i) \in (from(i) + 1)..(Len(s) + 1)
                         /\ \A k \in from(i)..(next(i) - 1) : k \notin Outside(s) \/ s[k] = Newline
      /\ \A i, j \in 1..n : i < j => next(i) <= from(j)
      /\ \A k \in DOMAIN s : k \in Outside(s) \/ \E i \in 1..n : k \in from(i)..(next(i) - 1)
  BY FoundCovers
<1>4. Before(s) = SubSeq(s, 1, from(1) - 1) /\ Before(s) \in Texts /\ g \in Seq(Texts) /\ Len(g) = n
  BY <1>2, GapsTyped DEF Before
<1>5. \A j \in 1..n : g[j] = SubSeq(s, next(j), upto(j))
  <2>1. DOMAIN f = 1..n
    BY FindMarkersTyped
  <2> QED
    BY <2>1 DEF Gaps, Gap
<1>6. \A j \in 0..n : upto(j) \in 0..Len(s)
  <2> SUFFICES ASSUME NEW j \in 0..n PROVE upto(j) \in 0..Len(s)
    OBVIOUS
  <2>1. j # n => j + 1 \in 1..n
    BY <1>2
  <2>2. j # n => from(j + 1) \in 1..Len(s)
    BY <1>3, <2>1
  <2> HIDE DEF f, n
  <2> QED
    BY <1>1, <2>2
<1>7. ASSUME NEW j \in 1..n
      PROVE  /\ upto(j - 1) = from(j) - 1 /\ next(j) - 1 <= upto(j)
             /\ \A k \in from(j)..(next(j) - 1) : k \notin at
             /\ \A k \in next(j)..upto(j) : k \in Outside(s)
  <2>1. upto(j - 1) = from(j) - 1
    BY <1>2
  <2>2. next(j) - 1 <= upto(j)
    <3>1. j # n => j + 1 \in 1..n /\ j < j + 1
      BY <1>2
    <3>2. j # n => next(j) <= from(j + 1) /\ from(j + 1) \in 1..Len(s)
      BY <1>3, <3>1
    <3>3. next(j) \in (from(j) + 1)..(Len(s) + 1) /\ from(j) \in 1..Len(s)
      BY <1>3
    <3> HIDE DEF f, n
    <3> QED
      BY <1>1, <3>2, <3>3
  <2>3. ASSUME NEW k \in from(j)..(next(j) - 1) PROVE k \notin at
    <3>1. k \notin Outside(s) \/ s[k] = Newline
      BY <1>3
    <3> QED
      BY <3>1
  <2>4. ASSUME NEW k \in next(j)..upto(j) PROVE k \in Outside(s)
    <3>1. k \in DOMAIN s
      BY <1>1, <1>3, <1>6
    <3> SUFFICES ASSUME NEW i \in 1..n, k \in from(i)..(next(i) - 1) PROVE FALSE
      BY <1>3, <3>1
    <3>2. CASE i < j
      <4> HIDE DEF f, n, from, next
      <4>1. next(i) <= from(j)
        BY <1>3, <3>2
      <4>2. from(j) < next(j) /\ next(i) \in Nat /\ from(j) \in Nat /\ next(j) \in Nat
        BY <1>1, <1>3
      <4> QED
        BY <4>1, <4>2
    <3>3. CASE i = j
      BY <1>1, <1>3, <3>3
    <3>4. CASE i > j
      <4>1. j + 1 \in 1..n /\ j # n /\ (i = j + 1 \/ j + 1 < i)
        BY <1>2, <3>4
      <4>2. from(j + 1) \in Nat /\ from(i) \in Nat /\ next(j + 1) \in Nat /\ from(j + 1) < next(j + 1)
        <5> DEFINE h == j + 1
        <5>1. h \in 1..n
          BY <4>1
        <5> HIDE DEF f, n, from, next, h
        <5>2. from(h) \in Nat /\ from(i) \in Nat /\ next(h) \in Nat /\ from(h) < next(h)
          BY <1>1, <1>3, <5>1
        <5> QED
          BY <5>2 DEF h
      <4>3. from(j + 1) <= from(i)
        <5>1. j + 1 < i => next(j + 1) <= from(i)
          BY <1>3, <4>1
        <5> HIDE DEF from, next
        <5> QED
          BY <4>1, <4>2, <5>1
      <4>4. k <= from(j + 1) - 1
        BY <4>1
      <4> HIDE DEF from, next
      <4> QED
        BY <3>1, <1>1, <4>2, <4>3, <4>4
    <3> QED
      BY <1>2, <3>2, <3>3, <3>4
  <2> QED
    BY <2>1, <2>2, <2>3, <2>4
<1>8. \A j \in 0..n : sofar(j) \in Texts
  <2> SUFFICES ASSUME NEW j \in 0..n PROVE sofar(j) \in Texts
    OBVIOUS
  <2>1. SubSeq(g, 1, j) \in Seq(Seq(Tokens))
    <3> HIDE DEF g, n
    <3> QED
      BY <1>2, <1>4 DEF Texts
  <2> HIDE DEF g
  <2> QED
    BY <2>1, FlattenHas DEF Texts
<1> HIDE DEF f, n, g, at, from, next, upto, sofar
<1>9. 0 \in P
  <2>1. sofar(0) = <<>>
    <3>1. SubSeq(g, 1, 0) = <<>>
      BY <1>4
    <3> QED
      BY <3>1, FlattenEmpty DEF sofar
  <2>2. <<>> \in Texts /\ \A k \in DOMAIN <<>> : <<>>[k] \notin W
    BY DEF Texts
  <2>3. Only(sofar(0), W) = <<>>
    BY <2>1, <2>2, OnlyNone
  <2>4. 0 \in 0..n /\ 1 \in 1..n /\ upto(0) = from(1) - 1 /\ upto(0) \in 0..Len(s)
    <3>1. 0 \in 0..n /\ 1 \in 1..n /\ 1 - 1 = 0
      BY <1>2
    <3> QED
      BY <1>6, <1>7, <3>1
  <2>5. \A k \in 1..upto(0) : k \in at <=> s[k] \in W
    <3> SUFFICES ASSUME NEW k \in 1..upto(0) PROVE k \in Outside(s)
      BY DEF at
    <3>1. k \in DOMAIN s
      BY <1>1, <2>4
    <3> SUFFICES ASSUME NEW i \in 1..n, k \in from(i)..(next(i) - 1) PROVE FALSE
      BY <1>3, <3>1
    <3>2. from(1) \in Nat /\ from(i) \in Nat /\ next(1) \in Nat /\ from(1) < next(1) /\ (i = 1 \/ 1 < i)
      BY <1>1, <1>2, <1>3, <2>4
    <3>3. 1 < i => next(1) <= from(i)
      BY <1>3, <2>4
    <3>4. k <= from(1) - 1
      BY <2>4
    <3> QED
      BY <1>1, <3>1, <3>2, <3>3, <3>4
  <2>6. Upto(s, at, upto(0)) = Upto(s, at, 0) \o Only(SubSeq(s, 0 + 1, upto(0)), W)
    <3> DEFINE e == upto(0)
    <3>1. 0 \in 0..Len(s) /\ e \in 0..Len(s) /\ \A k \in (0 + 1)..e : k \in at <=> s[k] \in W
      BY <1>1, <2>4, <2>5
    <3> HIDE DEF f, n, g, at, e
    <3>a. Agrees(s, at, W, 0, e)
      BY <3>1 DEF Agrees
    <3>2. Upto(s, at, e) = Upto(s, at, 0) \o Only(SubSeq(s, 0 + 1, e), W)
      BY <3>a, UptoAddsAgreed
    <3> QED
      BY <3>2 DEF e
  <2>7. Upto(s, at, 0) = <<>>
    BY UptoGrows
  <2>8. SubSeq(s, 0 + 1, upto(0)) = Before(s)
    BY <1>4, <2>4
  <2>9. Only(Before(s), W) \in Seq(Tokens)
    BY <1>4, OnlyIsKept DEF Texts
  <2>10. <<>> \o Only(Before(s), W) = Only(Before(s), W) /\ Only(Before(s), W) \o <<>> = Only(Before(s), W)
    BY <2>9
  <2> QED
    BY <2>3, <2>4, <2>6, <2>7, <2>8, <2>10
<1>10. ASSUME NEW i \in 0..(n - 1), i \in P PROVE i + 1 \in P
  <2> DEFINE j == i + 1
  <2>1. j \in 1..n /\ j - 1 = i /\ i \in 0..n /\ j \in 0..n
    BY <1>2
  <2>2. /\ upto(i) = from(j) - 1 /\ next(j) - 1 <= upto(j)
        /\ \A k \in from(j)..(next(j) - 1) : k \notin at
        /\ \A k \in next(j)..upto(j) : k \in Outside(s)
        /\ from(j) \in 1..Len(s) /\ next(j) \in (from(j) + 1)..(Len(s) + 1)
        /\ upto(i) \in 0..Len(s) /\ upto(j) \in 0..Len(s)
        /\ g[j] = SubSeq(s, next(j), upto(j))
    BY <1>3, <1>5, <1>6, <1>7, <2>1
  <2> HIDE DEF j
  <2>3. Upto(s, at, next(j) - 1) = Upto(s, at, upto(i))
    <3>1. next(j) - 1 \in upto(i)..Len(s) /\ upto(i) + 1 = from(j)
      BY <1>1, <2>2
    <3> QED
      BY <2>2, <3>1, UptoSkips
  <2>4. Upto(s, at, upto(j)) = Upto(s, at, next(j) - 1) \o Only(g[j], W)
    <3>1. next(j) - 1 \in 0..Len(s) /\ upto(j) \in (next(j) - 1)..Len(s) /\ (next(j) - 1) + 1 = next(j)
      BY <1>1, <2>2
    <3>2. \A k \in next(j)..upto(j) : k \in at <=> s[k] \in W
      BY <2>2 DEF at
    <3> DEFINE h == next(j) - 1
               e == upto(j)
    <3>3. h \in 0..Len(s) /\ e \in h..Len(s) /\ h + 1 = next(j) /\ \A k \in (h + 1)..e : k \in at <=> s[k] \in W
      BY <3>1, <3>2
    <3>4. g[j] = SubSeq(s, h + 1, e)
      BY <2>2, <3>1
    <3> HIDE DEF f, n, g, at, h, e
    <3>a. Agrees(s, at, W, h, e)
      BY <3>3 DEF Agrees
    <3>5. Upto(s, at, e) = Upto(s, at, h) \o Only(SubSeq(s, h + 1, e), W)
      BY <3>a, UptoAddsAgreed
    <3>6. Upto(s, at, e) = Upto(s, at, h) \o Only(g[j], W)
      BY <3>4, <3>5
    <3> QED
      BY <3>6 DEF h, e
  <2>5. sofar(j) = sofar(i) \o g[j] /\ g[j] \in Texts
    <3>1. g \in Seq(Seq(Tokens)) /\ i \in 0..(Len(g) - 1)
      BY <1>2, <1>4 DEF Texts
    <3>2. /\ SubSeq(g, 1, i) \in Seq(Seq(Tokens)) /\ g[i + 1] \in Seq(Tokens)
          /\ SubSeq(g, 1, i + 1) = Append(SubSeq(g, 1, i), g[i + 1])
      BY <3>1, PrefixAppend
    <3>3. FlattenSeq(Append(SubSeq(g, 1, i), g[i + 1])) = FlattenSeq(SubSeq(g, 1, i)) \o g[i + 1]
      BY <3>2, FlattenAppend
    <3> QED
      BY <3>2, <3>3 DEF sofar, j, Texts
  <2>6. Only(sofar(j), W) = Only(sofar(i), W) \o Only(g[j], W)
    <3>1. sofar(i) \in Texts
      BY <1>8, <2>1
    <3> QED
      BY <2>5, <3>1, OnlyJoins
  <2>7. /\ Only(Before(s), W) \in Seq(Tokens) /\ Only(sofar(i), W) \in Seq(Tokens)
        /\ Only(g[j], W) \in Seq(Tokens)
    BY <1>4, <1>8, <2>1, <2>5, OnlyIsKept DEF Texts
  <2>8. (Only(Before(s), W) \o Only(sofar(i), W)) \o Only(g[j], W)
        = Only(Before(s), W) \o (Only(sofar(i), W) \o Only(g[j], W))
    BY <2>7, ConcatAssociative
  <2>9. Only(Before(s), W) \o Only(sofar(i), W) = Upto(s, at, upto(i))
    BY <1>10
  <2>10. Only(Before(s), W) \o Only(sofar(j), W) = Upto(s, at, upto(j))
    BY <2>3, <2>4, <2>6, <2>8, <2>9
  <2> QED
    BY <2>1, <2>10 DEF j
<1>11. \A j \in 0..n : j \in P
  <2>1. \A i \in 0..(n - 1) : i \in P => i + 1 \in P
    BY <1>10
  <2> HIDE DEF P
  <2> QED
    BY <1>2, <1>9, <2>1, InductionUpTo
<1>12. n \in P
  <2> HIDE DEF P
  <2> QED
    BY <1>2, <1>11
<1>13. upto(n) = Len(s) /\ sofar(n) = Between(s)
  <2>1. SubSeq(g, 1, n) = g
    BY <1>2, <1>4
  <2> QED
    BY <2>1 DEF upto, sofar, Between, g
<1> QED
  BY <1>12, <1>13, KeptIsUpto DEF at

LEMMA OnlyTrims ==
    ASSUME NEW s \in Texts, NEW W, Newline \notin W
    PROVE  Only(TrimRight(s), W) = Only(s, W)
<1> DEFINE at == {k \in DOMAIN s : s[k] \in W}
<1>1. Len(s) \in Nat /\ DOMAIN s = 1..Len(s)
  BY DEF Texts
<1>2. PICK n \in 0..Len(s) : /\ TrimRight(s) = SubSeq(s, 1, n)
                             /\ \A k \in (n + 1)..Len(s) : s[k] = Newline
  BY TrimRightIs
<1>3. \A k \in 1..Len(s) : k \in at <=> s[k] \in W
  BY <1>1
<1>4. Only(s, W) = Upto(s, at, Len(s))
  BY OnlyIsKept, KeptIsUpto
<1> HIDE DEF at
<1>5. Upto(s, at, Len(s)) = Upto(s, at, n)
  <2>1. Len(s) \in n..Len(s)
    BY <1>1
  <2>2. \A k \in (n + 1)..Len(s) : k \notin at
    BY <1>1, <1>2, <1>3
  <2> QED
    BY <2>1, <2>2, UptoSkips
<1>6. Upto(s, at, n) = Upto(s, at, 0) \o Only(SubSeq(s, 0 + 1, n), W)
  <2>1. 0 \in 0..Len(s) /\ n \in 0..Len(s)
    BY <1>1
  <2>2. \A k \in (0 + 1)..n : k \in at <=> s[k] \in W
    BY <1>1, <1>3
  <2>3. Agrees(s, at, W, 0, n)
    <3> HIDE DEF at
    <3> QED
      BY <2>1, <2>2 DEF Agrees
  <2> QED
    BY <2>3, UptoAddsAgreed
<1>7. Upto(s, at, 0) = <<>>
  BY UptoGrows
<1>8. Only(TrimRight(s), W) \in Seq(Tokens)
  BY TrimRightTyped, OnlyIsKept DEF Texts
<1>9. <<>> \o Only(TrimRight(s), W) = Only(TrimRight(s), W) /\ 0 + 1 = 1
  BY <1>8
<1> QED
  BY <1>2, <1>4, <1>5, <1>6, <1>7, <1>9

LEMMA AppendedKeeps ==
    ASSUME NEW s \in Texts, NEW new \in Texts, NEW W, Newline \notin W
    PROVE  Only(Appended(s, new), W) = Only(s, W) \o Only(new, W)
<1> DEFINE body == TrimRight(s)
           blank == <<Newline, Newline>>
<1>1. body \in Texts /\ Only(body, W) = Only(s, W)
  BY TrimRightTyped, OnlyTrims
<1>2. blank \in Texts /\ Only(blank, W) = <<>>
  <2>1. Newline \in Tokens
    BY DEF Tokens
  <2>2. blank \in Texts /\ \A k \in DOMAIN blank : blank[k] \notin W
    BY <2>1 DEF Texts
  <2> HIDE DEF blank
  <2> QED
    BY <2>2, OnlyNone
<1>3. Appended(s, new) = body \o new \/ Appended(s, new) = body \o blank \o new
  BY DEF Appended
<1> HIDE DEF body, blank
<1>4. Only(body \o new, W) = Only(s, W) \o Only(new, W)
  BY <1>1, OnlyJoins
<1>5. Only(body \o blank \o new, W) = Only(s, W) \o Only(new, W)
  <2>1. body \o blank \in Texts
    BY <1>1, <1>2, JoinTyped
  <2>2. Only(body \o blank \o new, W) = Only(body \o blank, W) \o Only(new, W)
    BY <2>1, OnlyJoins
  <2>3. Only(body \o blank, W) = Only(body, W) \o Only(blank, W)
    BY <1>1, <1>2, OnlyJoins
  <2>4. Only(s, W) \in Seq(Tokens)
    BY OnlyIsKept DEF Texts
  <2>5. Only(s, W) \o <<>> = Only(s, W)
    BY <2>4
  <2> QED
    BY <1>1, <1>2, <2>2, <2>3, <2>5
<1> QED
  BY <1>3, <1>4, <1>5

\* What a text has of a set of tokens outside of its blocks, and what the two
\* rewrites make of that: nothing is lost but newlines, and the block is new.
OutsideOf(s, W) == Kept(s, {k \in Outside(s) : s[k] \in W})

LEMMA NoneFound ==
    ASSUME NEW s \in Texts, FindMarkers(s) = <<>>
    PROVE  Blocks(s) = {} /\ Outside(s) = DOMAIN s
<1>1. ToSet(FindMarkers(s)) = {Found(s, x[1], x[2]) : x \in Blocks(s)}
  BY FindMarkersRight
<1>2. ToSet(FindMarkers(s)) = {}
  BY DEF ToSet
<1> QED
  BY <1>1, <1>2 DEF Outside

LEMMA SpliceLeaves ==
    ASSUME NEW s \in Texts, FindMarkers(s) # <<>>, NEW new \in Texts, NEW W, Newline \notin W, Only(new, W) = <<>>
    PROVE  Only(Splice(s, FindMarkers(s), new), W) = OutsideOf(s, W)
<1> DEFINE a == Before(s)
           b == Between(s)
<1>1. a \in Texts /\ b \in Texts
  BY GapsTyped
<1>2. Splice(s, FindMarkers(s), new) = a \o new \o b
  BY SpliceIs
<1>3. Only(a, W) \o Only(b, W) = OutsideOf(s, W)
  BY SpliceKeeps DEF OutsideOf
<1> HIDE DEF a, b
<1>4. Only(a \o new, W) = Only(a, W)
  <2>1. Only(a, W) \in Seq(Tokens)
    BY <1>1, OnlyIsKept DEF Texts
  <2>a. a \in Texts /\ new \in Texts
    BY <1>1
  <2>b. \A u, v \in Texts : Only(u \o v, W) = Only(u, W) \o Only(v, W)
    BY OnlyJoins
  <2>2. Only(a \o new, W) = Only(a, W) \o Only(new, W)
    BY <2>a, <2>b
  <2>3. Only(a, W) \o <<>> = Only(a, W)
    BY <2>1
  <2> QED
    BY <2>2, <2>3
<1>5. Only(a \o new \o b, W) = Only(a \o new, W) \o Only(b, W)
  <2>1. a \o new \in Texts
    BY <1>1, JoinTyped
  <2> QED
    BY <1>1, <2>1, OnlyJoins
<1> QED
  BY <1>2, <1>3, <1>4, <1>5

LEMMA RewritesKeep ==
    ASSUME NEW s \in Texts, NEW W, Newline \notin W
    PROVE  /\ Only(WithoutBlocks(s), W) = OutsideOf(s, W)
           /\ \A w \in Publications : Only(Rendered(w), W) = <<>> => Only(WithBlock(s, w), W) = OutsideOf(s, W)
<1>1. <<>> \in Texts /\ Only(<<>>, W) = <<>>
  <2>1. <<>> \in Texts /\ \A k \in DOMAIN <<>> : <<>>[k] \notin W
    BY DEF Texts
  <2> QED
    BY <2>1, OnlyNone
<1>2. FindMarkers(s) = <<>> => Only(s, W) = OutsideOf(s, W)
  BY NoneFound, OnlyIsKept DEF OutsideOf
<1>3. Only(WithoutBlocks(s), W) = OutsideOf(s, W)
  BY <1>1, <1>2, SpliceLeaves DEF WithoutBlocks
<1>4. ASSUME NEW w \in Publications, Only(Rendered(w), W) = <<>> PROVE Only(WithBlock(s, w), W) = OutsideOf(s, W)
  <2> DEFINE r == Rendered(w)
  <2>1. r \in Texts
    BY RenderedTyped
  <2>2. WithBlock(s, w) = IF FindMarkers(s) = <<>> THEN Appended(s, r) ELSE Splice(s, FindMarkers(s), r)
    BY DEF WithBlock
  <2>3. Only(r, W) = <<>>
    BY <1>4
  <2> HIDE DEF r
  <2>4. Only(Appended(s, r), W) = Only(s, W) \o Only(r, W)
    BY <2>1, AppendedKeeps
  <2>5. Only(s, W) \in Seq(Tokens)
    BY OnlyIsKept DEF Texts
  <2>6. Only(s, W) \o <<>> = Only(s, W)
    BY <2>5
  <2>7. FindMarkers(s) # <<>> => Only(Splice(s, FindMarkers(s), r), W) = OutsideOf(s, W)
    BY <2>1, <2>3, SpliceLeaves
  <2> QED
    BY <1>2, <2>2, <2>3, <2>4, <2>6, <2>7
<1> QED
  BY <1>3, <1>4

\* What is the user's.
Theirs == {t \in Tokens : IsUsers(t)}

LEMMA TheirsIs ==
    /\ Newline \notin Theirs
    /\ \A w \in Publications : Only(Rendered(w), Theirs) = <<>>
    /\ \A s \in Texts : /\ Kept(s, {k \in DOMAIN s : IsUsers(s[k])}) = Only(s, Theirs)
                        /\ UsersPart(s) = OutsideOf(s, Theirs)
<1>1. Newline \notin Theirs
  BY DEF Theirs, IsUsers, Kind, Newline
<1>2. ASSUME NEW w \in Publications PROVE Only(Rendered(w), Theirs) = <<>>
  <2> DEFINE r == Rendered(w)
  <2>1. r \in Texts
    BY RenderedTyped
  <2>2. \A k \in 1..5 : r[k] \notin Theirs
    BY DEF Rendered, Theirs, IsUsers, Kind, Newline, Begin, Close, Body, End
  <2>3. DOMAIN r = 1..5
    BY DEF Rendered
  <2> HIDE DEF r
  <2>4. Only(r, Theirs) = <<>>
    BY <2>1, <2>2, <2>3, OnlyNone
  <2> QED
    BY <2>4 DEF r
<1>3. ASSUME NEW s \in Texts
      PROVE  /\ Kept(s, {k \in DOMAIN s : IsUsers(s[k])}) = Only(s, Theirs)
             /\ UsersPart(s) = OutsideOf(s, Theirs)
  <2>1. \A k \in DOMAIN s : IsUsers(s[k]) <=> s[k] \in Theirs
    BY DEF Theirs, Texts
  <2>2. {k \in DOMAIN s : IsUsers(s[k])} = {k \in DOMAIN s : s[k] \in Theirs}
    BY <2>1
  <2>3. {k \in Outside(s) : IsUsers(s[k])} = {k \in Outside(s) : s[k] \in Theirs}
    BY <2>1 DEF Outside
  <2> QED
    BY <2>2, <2>3, OnlyIsKept DEF UsersPart, OutsideOf
<1> QED
  BY <1>1, <1>2, <1>3

\* A replacement nobody raced keeps every line of the user's that is not
\* inside a block, in order (reconcile.go:244-283, uninstall.go:263).
THEOREM LinesKept == Spec => KeepsUsersPart
<1>1. TypeOK /\ FreshInv /\ [NextStep]_vars
      => [\A p \in Procs : Swap(p) /\ there /\ ~op[p].stale
            => Kept(text', {k \in DOMAIN text' : IsUsers(text'[k])}) = UsersPart(text)]_vars
  <2> SUFFICES ASSUME TypeOK, FreshInv, NEW p \in Procs, Swap(p), there, ~op[p].stale
               PROVE  Kept(text', {k \in DOMAIN text' : IsUsers(text'[k])}) = UsersPart(text)
    OBVIOUS
  <2> DEFINE w == Wants[op[p].want]
  <2>1. text' = Asked(p)
    BY DEF FreshInv, Fresh, Swap, Busy
  <2>2. text \in Texts /\ w \in Publications
    <3>1. op[p] \in Ops
      BY DEF TypeOK, Ops
    <3>2. op[p].want \in DOMAIN Wants
      BY <3>1 DEF Ops
    <3> QED
      BY <3>2, WantsTyped DEF TypeOK
  <2>3. text' = WithoutBlocks(text) \/ text' = WithBlock(text, w)
    BY <2>1 DEF Asked
  <2> HIDE DEF w
  <2>4. text' \in Texts
    BY <2>2, <2>3, WrittenTyped
  <2>5. Only(text', Theirs) = OutsideOf(text, Theirs)
    BY <2>2, <2>3, RewritesKeep, TheirsIs
  <2> QED
    BY <2>2, <2>4, <2>5, TheirsIs
<1> QED
  BY <1>1, TypeCorrect, InitFresh, StepFresh, PTL DEF Spec, KeepsUsersPart
-----------------------------------------------------------------------------
(***************************************************************************)
(* Texts whose delimiters outside of blocks are never a begin before an    *)
(* end: a rewrite makes no block of them, and leaves them that way.        *)
(***************************************************************************)
Starts(t) == \E i \in DOMAIN t : Kind(t[i]) = "begin"
Pairs(t) == \E i, j \in DOMAIN t : i < j /\ Kind(t[i]) = "begin" /\ Kind(t[j]) = "end"
Delimiters == {t \in Tokens : Kind(t) \in {"begin", "end"}}

LEMMA AppendPairs ==
    ASSUME NEW u \in Texts, NEW x \in Tokens
    PROVE  /\ Starts(Append(u, x)) <=> Starts(u) \/ Kind(x) = "begin"
           /\ Pairs(Append(u, x)) <=> Pairs(u) \/ (Starts(u) /\ Kind(x) = "end")
<1> DEFINE v == Append(u, x)
<1>1. /\ Len(u) \in Nat /\ DOMAIN u = 1..Len(u) /\ DOMAIN v = 1..(Len(u) + 1)
      /\ v[Len(u) + 1] = x /\ \A i \in 1..Len(u) : v[i] = u[i]
  BY AppendProperties DEF Texts
<1> HIDE DEF v
<1>2. \A i \in DOMAIN v : i \in DOMAIN u \/ i = Len(u) + 1
  BY <1>1
<1>3. \A i \in DOMAIN u : i \in DOMAIN v /\ v[i] = u[i] /\ i < Len(u) + 1
  BY <1>1
<1>4. Len(u) + 1 \in DOMAIN v
  BY <1>1
<1>5. Starts(v) <=> Starts(u) \/ Kind(x) = "begin"
  BY <1>1, <1>2, <1>3, <1>4 DEF Starts
<1>6. Pairs(v) => Pairs(u) \/ (Starts(u) /\ Kind(x) = "end")
  <2> SUFFICES ASSUME NEW i \in DOMAIN v, NEW j \in DOMAIN v, i < j, Kind(v[i]) = "begin", Kind(v[j]) = "end"
               PROVE  Pairs(u) \/ (Starts(u) /\ Kind(x) = "end")
    BY DEF Pairs
  <2>1. i \in DOMAIN u
    BY <1>1
  <2> QED
    BY <1>1, <1>2, <1>3, <2>1 DEF Pairs, Starts
<1>7. Pairs(u) => Pairs(v)
  BY <1>3 DEF Pairs
<1>8. Starts(u) /\ Kind(x) = "end" => Pairs(v)
  BY <1>1, <1>3, <1>4 DEF Pairs, Starts
<1> QED
  BY <1>5, <1>6, <1>7, <1>8 DEF v

StartsAt(s, at, n) == \E i \in 1..n : i \in at /\ Kind(s[i]) = "begin"
PairsAt(s, at, n) == \E i, j \in 1..n : i < j /\ i \in at /\ j \in at /\ Kind(s[i]) = "begin" /\ Kind(s[j]) = "end"

LEMMA UptoPairs ==
    ASSUME NEW s \in Texts, NEW at
    PROVE  \A n \in 0..Len(s) : Pairs(Upto(s, at, n)) <=> PairsAt(s, at, n)
<1> DEFINE P == {n \in 0..Len(s) : /\ Starts(Upto(s, at, n)) <=> StartsAt(s, at, n)
                                   /\ Pairs(Upto(s, at, n)) <=> PairsAt(s, at, n)}
<1>1. Len(s) \in Nat /\ \A i \in 1..Len(s) : s[i] \in Tokens
  BY DEF Texts
<1>2. 0 \in P
  <2>1. Upto(s, at, 0) = <<>> /\ 0 \in 0..Len(s) /\ 1..0 = {}
    BY <1>1, UptoGrows
  <2>2. ~Starts(<<>>) /\ ~Pairs(<<>>)
    BY DEF Starts, Pairs
  <2>3. ~StartsAt(s, at, 0) /\ ~PairsAt(s, at, 0)
    BY <2>1 DEF StartsAt, PairsAt
  <2> QED
    BY <2>1, <2>2, <2>3
<1>3. ASSUME NEW n \in 0..(Len(s) - 1), n \in P PROVE n + 1 \in P
  <2>1. n + 1 \in 0..Len(s) /\ n \in 0..Len(s) /\ n + 1 \in 1..Len(s) /\ s[n + 1] \in Tokens
        /\ 1..(n + 1) = (1..n) \cup {n + 1} /\ \A i \in 1..n : i < n + 1 /\ ~(n + 1 < i)
    BY <1>1
  <2>2. Upto(s, at, n) \in Texts
    BY <2>1, UptoGrows
  <2>3. Upto(s, at, n + 1) = IF n + 1 \in at THEN Append(Upto(s, at, n), s[n + 1]) ELSE Upto(s, at, n)
    <3>1. \A j \in 0..(Len(s) - 1) :
            Upto(s, at, j + 1) = IF j + 1 \in at THEN Append(Upto(s, at, j), s[j + 1]) ELSE Upto(s, at, j)
      BY UptoGrows
    <3> QED
      BY <3>1
  <2>4. StartsAt(s, at, n + 1) <=> StartsAt(s, at, n) \/ (n + 1 \in at /\ Kind(s[n + 1]) = "begin")
    BY <2>1 DEF StartsAt
  <2>5. PairsAt(s, at, n + 1)
        <=> PairsAt(s, at, n) \/ (n + 1 \in at /\ StartsAt(s, at, n) /\ Kind(s[n + 1]) = "end")
    BY <2>1 DEF PairsAt, StartsAt
  <2>6. CASE n + 1 \in at
    <3>1. /\ Starts(Append(Upto(s, at, n), s[n + 1])) <=> Starts(Upto(s, at, n)) \/ Kind(s[n + 1]) = "begin"
          /\ Pairs(Append(Upto(s, at, n), s[n + 1]))
             <=> Pairs(Upto(s, at, n)) \/ (Starts(Upto(s, at, n)) /\ Kind(s[n + 1]) = "end")
      BY <2>1, <2>2, AppendPairs
    <3> QED
      BY <1>3, <2>1, <2>3, <2>4, <2>5, <2>6, <3>1
  <2>7. CASE n + 1 \notin at
    BY <1>3, <2>1, <2>3, <2>4, <2>5, <2>7
  <2> QED
    BY <2>6, <2>7
<1>4. \A n \in 0..Len(s) : n \in P
  <2>1. \A n \in 0..(Len(s) - 1) : n \in P => n + 1 \in P
    BY <1>3
  <2> HIDE DEF P
  <2> QED
    BY <1>1, <1>2, <2>1, InductionUpTo
<1> QED
  BY <1>4

LEMMA DelimitersPair ==
    ASSUME NEW s \in Texts
    PROVE  /\ Pairs(Only(s, Delimiters)) <=> Pairs(s)
           /\ Pairs(OutsideOf(s, Delimiters)) <=> Joinable(s)
<1>1. Len(s) \in Nat /\ DOMAIN s = 1..Len(s) /\ \A k \in 1..Len(s) : s[k] \in Tokens
  BY DEF Texts
<1>2. \A at : Pairs(Kept(s, at)) <=> PairsAt(s, at, Len(s))
  <2>1. Len(s) \in 0..Len(s)
    BY <1>1
  <2>2. \A at : Pairs(Upto(s, at, Len(s))) <=> PairsAt(s, at, Len(s))
    BY <2>1, UptoPairs
  <2> QED
    BY <2>2, KeptIsUpto
<1>3. Pairs(Only(s, Delimiters)) <=> Pairs(s)
  <2> DEFINE at == {k \in DOMAIN s : s[k] \in Delimiters}
  <2>1. \A k \in 1..Len(s) : Kind(s[k]) \in {"begin", "end"} <=> k \in at
    BY <1>1 DEF Delimiters
  <2>2. Only(s, Delimiters) = Kept(s, at)
    BY OnlyIsKept
  <2> HIDE DEF at
  <2>3. PairsAt(s, at, Len(s)) <=> Pairs(s)
    BY <1>1, <2>1 DEF PairsAt, Pairs
  <2> QED
    BY <1>2, <2>2, <2>3
<1>4. Pairs(OutsideOf(s, Delimiters)) <=> Joinable(s)
  <2> DEFINE at == {k \in Outside(s) : s[k] \in Delimiters}
  <2>1. \A k \in 1..Len(s) : k \in at <=> k \in Outside(s) /\ Kind(s[k]) \in {"begin", "end"}
    BY <1>1 DEF Delimiters
  <2>2. OutsideOf(s, Delimiters) = Kept(s, at)
    BY DEF OutsideOf
  <2> HIDE DEF at
  <2>3. PairsAt(s, at, Len(s)) <=> Joinable(s)
    BY <1>1, <2>1 DEF PairsAt, Joinable, Positions, Outside
  <2> QED
    BY <1>2, <2>2, <2>3
<1> QED
  BY <1>3, <1>4

LEMMA NothingInIt ==
    ASSUME NEW S, NEW f \in Seq(S), ToSet(f) = {}
    PROVE  f = <<>>
<1>1. Len(f) \in Nat /\ DOMAIN f = 1..Len(f)
  OBVIOUS
<1>2. \A i \in 1..Len(f) : f[i] \in ToSet(f)
  BY <1>1 DEF ToSet
<1>3. Len(f) = 0
  <2>1. Len(f) # 0 => 1 \in 1..Len(f)
    BY <1>1
  <2> QED
    BY <1>2, <2>1
<1> QED
  BY <1>3

LEMMA UnpairedHasNoBlock ==
    ASSUME NEW s \in Texts, ~Pairs(s)
    PROVE  Blocks(s) = {} /\ FindMarkers(s) = <<>> /\ Outside(s) = DOMAIN s /\ ~Joinable(s)
<1>1. Blocks(s) = {}
  BY DEF Pairs, Blocks, Positions
<1>2. FindMarkers(s) = <<>>
  <2>1. FindMarkers(s) \in Seq(Finds(s, 1)) /\ ToSet(FindMarkers(s)) = {}
    BY <1>1, FindMarkersRight
  <2> QED
    BY <2>1, NothingInIt
<1>3. Outside(s) = DOMAIN s
  BY <1>1 DEF Outside
<1> QED
  BY <1>1, <1>2, <1>3 DEF Pairs, Joinable, Positions

\* A block of ours between two texts that have no begin before an end is the
\* only one.
Wrapped(a, w, b) == a \o Rendered(w) \o b

LEMMA WrappedIs ==
    ASSUME NEW a \in Texts, NEW b \in Texts, NEW w \in Publications
    PROVE  LET t == Wrapped(a, w, b)
               n == Len(a)
           IN /\ t \in Texts /\ n \in Nat /\ Len(b) \in Nat /\ Len(t) = (n + 5) + Len(b)
              /\ \A k \in 1..n : t[k] = a[k]
              /\ t[n + 1] = Begin(w.hash, <<w.hash, w.tmpl>>) /\ t[n + 2] = Close
              /\ t[n + 3] = Body(w.tmpl) /\ t[n + 4] = End /\ t[n + 5] = Newline
              /\ \A k \in (n + 6)..Len(t) : t[k] = b[k - (n + 5)]
<1> DEFINE r == Rendered(w)
           n == Len(a)
<1>1. r \in Texts
  BY RenderedTyped
<1>2. /\ Len(r) = 5 /\ r[1] = Begin(w.hash, <<w.hash, w.tmpl>>) /\ r[2] = Close
      /\ r[3] = Body(w.tmpl) /\ r[4] = End /\ r[5] = Newline
  BY DEF Rendered
<1> HIDE DEF r
<1>3. /\ a \o r \in Texts /\ n \in Nat /\ Len(a \o r) = n + 5
      /\ \A k \in 1..(n + 5) : (a \o r)[k] = IF k <= n THEN a[k] ELSE r[k - n]
  <2>1. a \in Seq(Tokens) /\ r \in Seq(Tokens)
    BY <1>1 DEF Texts
  <2>2. /\ a \o r \in Seq(Tokens) /\ Len(a \o r) = Len(a) + Len(r)
        /\ \A k \in 1..(Len(a) + Len(r)) : (a \o r)[k] = IF k <= Len(a) THEN a[k] ELSE r[k - Len(a)]
    BY <2>1, ConcatProperties
  <2>3. n \in Nat
    BY <2>1
  <2> QED
    BY <1>2, <2>2, <2>3 DEF Texts
<1> DEFINE u == a \o r
<1>4. u \in Texts /\ Len(u) = n + 5
  BY <1>3
<1>5. /\ u \o b \in Texts /\ Len(b) \in Nat /\ Len(u \o b) = (n + 5) + Len(b)
      /\ \A k \in 1..((n + 5) + Len(b)) : (u \o b)[k] = IF k <= n + 5 THEN u[k] ELSE b[k - (n + 5)]
  <2> HIDE DEF u
  <2>1. u \in Seq(Tokens) /\ b \in Seq(Tokens)
    BY <1>4 DEF Texts
  <2>2. /\ u \o b \in Seq(Tokens) /\ Len(u \o b) = Len(u) + Len(b)
        /\ \A k \in 1..(Len(u) + Len(b)) : (u \o b)[k] = IF k <= Len(u) THEN u[k] ELSE b[k - Len(u)]
    BY <2>1, ConcatProperties
  <2>3. Len(b) \in Nat
    BY <2>1
  <2> QED
    BY <1>4, <2>2, <2>3 DEF Texts
<1>6. Wrapped(a, w, b) = u \o b
  BY DEF Wrapped, r
<1>7. \A k \in 1..(n + 5) : (u \o b)[k] = IF k <= n THEN a[k] ELSE r[k - n]
  <2>1. \A k \in 1..(n + 5) : (u \o b)[k] = u[k]
    <3> HIDE DEF u
    <3> QED
      BY <1>3, <1>5
  <2> QED
    BY <1>3, <2>1
<1> HIDE DEF u
<1>8. \A k \in 1..n : (u \o b)[k] = a[k]
  <2>1. \A k \in 1..n : k \in 1..(n + 5) /\ k <= n
    BY <1>3
  <2> QED
    BY <1>7, <2>1
<1>9. \A k \in 1..5 : (u \o b)[n + k] = r[k]
  <2> SUFFICES ASSUME NEW k \in 1..5 PROVE (u \o b)[n + k] = r[k]
    OBVIOUS
  <2>1. n + k \in 1..(n + 5) /\ ~(n + k <= n) /\ (n + k) - n = k
    BY <1>3
  <2> QED
    BY <1>7, <2>1
<1>10. \A k \in (n + 6)..((n + 5) + Len(b)) : (u \o b)[k] = b[k - (n + 5)]
  BY <1>3, <1>5
<1>11. \A k \in 1..5 : Wrapped(a, w, b)[n + k] = r[k]
  BY <1>6, <1>9
<1>12. /\ Wrapped(a, w, b)[n + 1] = r[1] /\ Wrapped(a, w, b)[n + 2] = r[2] /\ Wrapped(a, w, b)[n + 3] = r[3]
       /\ Wrapped(a, w, b)[n + 4] = r[4] /\ Wrapped(a, w, b)[n + 5] = r[5]
  BY <1>11
<1> QED
  BY <1>2, <1>3, <1>5, <1>6, <1>8, <1>10, <1>12

LEMMA OneBlock ==
    ASSUME NEW a \in Texts, NEW b \in Texts, ~Pairs(a \o b), NEW w \in Publications
    PROVE  LET t == Wrapped(a, w, b)
               n == Len(a)
           IN /\ Blocks(t) = {<<n + 1, n + 4>>}
              /\ ~Joinable(t)
              /\ UsersPart(t) = Only(t, Theirs)
<1> DEFINE t == Wrapped(a, w, b)
           n == Len(a)
<1>1. /\ t \in Texts /\ n \in Nat /\ Len(b) \in Nat /\ Len(t) = (n + 5) + Len(b)
      /\ \A k \in 1..n : t[k] = a[k]
      /\ t[n + 1] = Begin(w.hash, <<w.hash, w.tmpl>>) /\ t[n + 2] = Close
      /\ t[n + 3] = Body(w.tmpl) /\ t[n + 4] = End /\ t[n + 5] = Newline
      /\ \A k \in (n + 6)..Len(t) : t[k] = b[k - (n + 5)]
  BY WrappedIs
<1>2. /\ Kind(t[n + 1]) = "begin" /\ Kind(t[n + 2]) = "close" /\ Kind(t[n + 3]) = "body"
      /\ Kind(t[n + 4]) = "end" /\ Kind(t[n + 5]) = "newline" /\ DOMAIN t = 1..Len(t)
  BY <1>1 DEF Kind, Begin, Close, Body, End, Newline, Texts
<1>3. /\ Len(a \o b) = n + Len(b) /\ DOMAIN (a \o b) = 1..(n + Len(b))
      /\ \A k \in 1..(n + Len(b)) : (a \o b)[k] = IF k <= n THEN a[k] ELSE b[k - n]
  <2>1. a \in Seq(Tokens) /\ b \in Seq(Tokens)
    BY DEF Texts
  <2>2. /\ a \o b \in Seq(Tokens) /\ Len(a \o b) = Len(a) + Len(b)
        /\ \A k \in 1..(Len(a) + Len(b)) : (a \o b)[k] = IF k <= Len(a) THEN a[k] ELSE b[k - Len(a)]
    BY <2>1, ConcatProperties
  <2>3. DOMAIN (a \o b) = 1..Len(a \o b)
    BY <2>2
  <2> QED
    BY <2>2, <2>3
<1> HIDE DEF t, n
\* A position around the block is one of the text without it.
<1> DEFINE old(k) == IF k <= n THEN k ELSE k - 5
           ours == (n + 1)..(n + 5)
<1>4. \A k \in 1..Len(t) : k \notin ours => old(k) \in 1..(n + Len(b)) /\ t[k] = (a \o b)[old(k)]
  <2> SUFFICES ASSUME NEW k \in 1..Len(t), k \notin ours
               PROVE  old(k) \in 1..(n + Len(b)) /\ t[k] = (a \o b)[old(k)]
    OBVIOUS
  <2>1. CASE k <= n
    <3>1. k \in 1..n /\ k \in 1..(n + Len(b)) /\ old(k) = k
      BY <1>1, <2>1
    <3> QED
      BY <1>1, <1>3, <2>1, <3>1
  <2>2. CASE ~(k <= n)
    <3>1. k \in (n + 6)..Len(t) /\ k - 5 \in 1..(n + Len(b)) /\ ~(k - 5 <= n) /\ (k - 5) - n = k - (n + 5)
          /\ old(k) = k - 5
      BY <1>1, <2>2
    <3> QED
      BY <1>1, <1>3, <3>1
  <2> QED
    BY <2>1, <2>2
<1>5. \A i, j \in 1..Len(t) : i \notin ours /\ j \notin ours /\ i < j => old(i) < old(j)
  BY <1>1
<1>6. ASSUME NEW i \in 1..Len(t), NEW j \in 1..Len(t), i < j, Kind(t[i]) = "begin", Kind(t[j]) = "end"
      PROVE  i \in ours \/ j \in ours
  <2> SUFFICES ASSUME i \notin ours, j \notin ours PROVE FALSE
    OBVIOUS
  <2>1. old(i) < old(j) /\ t[i] = (a \o b)[old(i)] /\ t[j] = (a \o b)[old(j)]
        /\ old(i) \in DOMAIN (a \o b) /\ old(j) \in DOMAIN (a \o b)
    BY <1>3, <1>4, <1>5, <1>6
  <2> HIDE DEF old
  <2> QED
    BY <1>6, <2>1 DEF Pairs
<1> HIDE DEF old
<1>7. \A k \in ours : /\ Kind(t[k]) = "begin" => k = n + 1
                      /\ Kind(t[k]) = "end" => k = n + 4
  <2>1. \A k \in ours : k = n + 1 \/ k = n + 2 \/ k = n + 3 \/ k = n + 4 \/ k = n + 5
    BY <1>1
  <2> HIDE DEF ours
  <2> QED
    BY <1>2, <2>1
<1>8. HeaderEnd(t, n + 1) = n + 2
  <2>1. IsHeader(t, n + 1, n + 2)
    BY <1>1, <1>2 DEF IsHeader
  <2>2. n + 1 \in 1..Len(t)
    BY <1>1
  <2> QED
    BY <1>1, <2>1, <2>2, HeaderIs
<1>9. <<n + 1, n + 4>> \in Blocks(t)
  <2>1. /\ n + 1 \in 1..Len(t) /\ n + 4 \in 1..Len(t) /\ HeaderEnd(t, n + 1) < n + 4
        /\ \A k \in (HeaderEnd(t, n + 1) + 1)..((n + 4) - 1) : k = n + 3
        /\ \A k \in ((n + 1) + 1)..((n + 4) - 1) : k = n + 2 \/ k = n + 3
    BY <1>1, <1>8
  <2>2. /\ \A k \in (HeaderEnd(t, n + 1) + 1)..((n + 4) - 1) : Kind(t[k]) # "end"
        /\ \A k \in ((n + 1) + 1)..((n + 4) - 1) : Kind(t[k]) \notin BeginTokens
    BY <1>2, <2>1 DEF BeginTokens
  <2> DEFINE b1 == n + 1
             e1 == n + 4
  <2>3. /\ t \in Texts
        /\ b1 \in 1..Len(t) /\ Kind(t[b1]) = "begin" /\ e1 \in 1..Len(t) /\ Kind(t[e1]) = "end"
        /\ HeaderEnd(t, b1) < e1
        /\ \A k \in (HeaderEnd(t, b1) + 1)..(e1 - 1) : Kind(t[k]) # "end"
        /\ \A k \in (b1 + 1)..(e1 - 1) : Kind(t[k]) \notin BeginTokens
    BY <1>1, <1>2, <2>1, <2>2
  <2> HIDE DEF b1, e1
  <2>4. <<b1, e1>> \in Blocks(t)
    BY <2>3, BlockIs
  <2> QED
    BY <2>4 DEF b1, e1
<1>10. ASSUME NEW x \in Blocks(t) PROVE x = <<n + 1, n + 4>>
  <2> DEFINE i == x[1]
             j == x[2]
  <2>1. x = <<i, j>>
    BY DEF Blocks
  <2> HIDE DEF i, j
  <2>2. /\ i \in 1..Len(t) /\ Kind(t[i]) = "begin"
        /\ j \in 1..Len(t) /\ Kind(t[j]) = "end" /\ HeaderEnd(t, i) < j
        /\ \A k \in (HeaderEnd(t, i) + 1)..(j - 1) : Kind(t[k]) # "end"
        /\ \A k \in (i + 1)..(j - 1) : Kind(t[k]) \notin BeginTokens
    <3>1. t \in Texts /\ <<i, j>> \in Blocks(t)
      BY <1>1, <2>1
    <3> HIDE DEF t, n, ours
    <3> QED
      BY <3>1, BlockIs
  <2>3. i < j
    <3>1. x[1] < x[2]
      BY DEF Blocks
    <3> QED
      BY <3>1 DEF i, j
  <2>4. i \in ours
    <3> SUFFICES ASSUME i \notin ours PROVE FALSE
      OBVIOUS
    <3>1. j \in ours
      BY <1>6, <2>2, <2>3
    <3>2. j = n + 4
      BY <1>7, <2>2, <3>1
    <3>3. n + 1 \in (i + 1)..(j - 1)
      BY <1>1, <2>2, <2>3, <3>2
    <3> QED
      BY <1>2, <2>2, <3>3 DEF BeginTokens
  <2>5. i = n + 1
    BY <1>7, <2>2, <2>4
  <2>6. j = n + 4
    <3>1. n + 2 < j
      BY <1>8, <2>2, <2>5
    <3>2. ~(n + 4 < j)
      <4> SUFFICES ASSUME n + 4 < j PROVE FALSE
        OBVIOUS
      <4>1. n + 4 \in (HeaderEnd(t, i) + 1)..(j - 1)
        BY <1>1, <1>8, <2>2, <2>5
      <4> QED
        BY <1>2, <2>2, <4>1
    <3>3. j # n + 3
      BY <1>2, <2>2
    <3> QED
      BY <1>1, <2>2, <3>1, <3>2, <3>3
  <2> QED
    BY <2>1, <2>5, <2>6
<1>11. Blocks(t) = {<<n + 1, n + 4>>}
  BY <1>9, <1>10
<1>12. \A k \in 1..Len(t) : k \in Outside(t) <=> k \notin (n + 1)..(n + 4)
  BY <1>2, <1>11 DEF Outside
<1>13. ~Joinable(t)
  <2> SUFFICES ASSUME NEW i \in Outside(t), NEW j \in Outside(t), i < j, Kind(t[i]) = "begin", Kind(t[j]) = "end"
               PROVE  FALSE
    BY DEF Joinable, Positions
  <2>1. i \in 1..Len(t) /\ j \in 1..Len(t)
    BY <1>2 DEF Outside
  <2>2. i \in ours \/ j \in ours
    BY <1>6, <2>1
  <2>3. i = n + 1 \/ j = n + 4
    BY <1>7, <2>2
  <2>4. i \notin (n + 1)..(n + 4) /\ j \notin (n + 1)..(n + 4)
    BY <1>12, <2>1
  <2>5. n + 1 \in (n + 1)..(n + 4) /\ n + 4 \in (n + 1)..(n + 4)
    BY <1>1
  <2> QED
    BY <2>3, <2>4, <2>5
<1>14. UsersPart(t) = Only(t, Theirs)
  <2>1. \A k \in 1..Len(t) : t[k] \in Theirs => k \in Outside(t)
    <3> SUFFICES ASSUME NEW k \in 1..Len(t), t[k] \in Theirs PROVE k \notin (n + 1)..(n + 4)
      BY <1>12
    <3>1. k \in (n + 1)..(n + 4) => k = n + 1 \/ k = n + 2 \/ k = n + 3 \/ k = n + 4
      BY <1>1
    <3> QED
      BY <1>2, <3>1 DEF Theirs, IsUsers
  <2>2. {k \in Outside(t) : t[k] \in Theirs} = {k \in DOMAIN t : t[k] \in Theirs}
    BY <1>2, <2>1 DEF Outside
  <2>3. UsersPart(t) = Kept(t, {k \in Outside(t) : t[k] \in Theirs})
    BY <1>1, TheirsIs DEF OutsideOf
  <2> QED
    BY <1>1, <2>2, <2>3, OnlyIsKept
<1> QED
  BY <1>11, <1>13, <1>14 DEF t, n
-----------------------------------------------------------------------------
(***************************************************************************)
(* A text without joinable delimiters stays one, with the same of the      *)
(* user's in it, through every rewrite that nobody raced.                  *)
(***************************************************************************)
LEMMA EmptyText == <<>> \in Texts /\ \A W : Only(<<>>, W) = <<>>
<1>1. <<>> \in Texts /\ \A W : \A k \in DOMAIN <<>> : <<>>[k] \notin W
  BY DEF Texts
<1> QED
  BY <1>1, OnlyNone

LEMMA PlainDelimiters == Newline \notin Delimiters
  BY DEF Delimiters, Kind, Newline

\* What appended text stands behind.
Blank == <<Newline, Newline>>
Margin(s) == IF TrimRight(s) \in {<<>>, <<Matter>>} THEN TrimRight(s) ELSE TrimRight(s) \o Blank

LEMMA MarginIs ==
    ASSUME NEW s \in Texts
    PROVE  /\ Margin(s) \in Texts
           /\ \A W : Newline \notin W => Only(Margin(s), W) = Only(s, W)
           /\ \A new \in Texts : Appended(s, new) = Margin(s) \o new
<1> DEFINE body == TrimRight(s)
<1>1. body \in Texts /\ \A W : Newline \notin W => Only(body, W) = Only(s, W)
  BY TrimRightTyped, OnlyTrims
<1>2. Blank \in Texts /\ \A W : Newline \notin W => Only(Blank, W) = <<>>
  <2>1. Newline \in Tokens
    BY DEF Tokens
  <2>2. Blank \in Texts /\ \A W : Newline \notin W => \A k \in DOMAIN Blank : Blank[k] \notin W
    BY <2>1 DEF Texts, Blank
  <2> QED
    BY <2>2, OnlyNone
<1>3. Margin(s) = body \/ Margin(s) = body \o Blank
  BY DEF Margin
<1>4. \A new \in Texts : Appended(s, new) = Margin(s) \o new
  BY DEF Appended, Margin, Blank
<1> HIDE DEF body
<1>5. body \o Blank \in Texts
  BY <1>1, <1>2, JoinTyped
<1>6. \A W : Newline \notin W => Only(body \o Blank, W) = Only(s, W)
  <2> SUFFICES ASSUME NEW W, Newline \notin W PROVE Only(body \o Blank, W) = Only(s, W)
    OBVIOUS
  <2>1. Only(body \o Blank, W) = Only(body, W) \o Only(Blank, W)
    BY <1>1, <1>2, OnlyJoins
  <2>2. Only(s, W) \in Seq(Tokens)
    BY OnlyIsKept DEF Texts
  <2>3. Only(s, W) \o <<>> = Only(s, W)
    BY <2>2
  <2> QED
    BY <1>1, <1>2, <2>1, <2>3
<1> QED
  BY <1>1, <1>3, <1>4, <1>5, <1>6

LEMMA Unpaired ==
    ASSUME NEW s \in Texts, NEW t \in Texts, Only(t, Delimiters) = OutsideOf(s, Delimiters), ~Joinable(s)
    PROVE  ~Pairs(t)
<1>1. Pairs(OutsideOf(s, Delimiters)) <=> Joinable(s)
  BY DelimitersPair
<1>2. Pairs(Only(t, Delimiters)) <=> Pairs(t)
  BY DelimitersPair
<1> QED
  BY <1>1, <1>2

LEMMA Rewritten ==
    ASSUME NEW s \in Texts, ~Joinable(s)
    PROVE  /\ WithoutBlocks(s) \in Texts /\ ~Pairs(WithoutBlocks(s))
           /\ \A w \in Publications : \E a, b \in Texts : ~Pairs(a \o b) /\ WithBlock(s, w) = Wrapped(a, w, b)
<1>1. WithoutBlocks(s) \in Texts
  BY WrittenTyped
<1>2. ~Pairs(WithoutBlocks(s))
  BY <1>1, Unpaired, RewritesKeep, PlainDelimiters
<1>3. ASSUME NEW w \in Publications PROVE \E a, b \in Texts : ~Pairs(a \o b) /\ WithBlock(s, w) = Wrapped(a, w, b)
  <2> DEFINE r == Rendered(w)
  <2>1. r \in Texts
    BY RenderedTyped
  <2>2. CASE FindMarkers(s) = <<>>
    <3> DEFINE a == Margin(s)
    <3>1. a \in Texts /\ Only(a, Delimiters) = Only(s, Delimiters) /\ Appended(s, r) = a \o r
      BY <2>1, MarginIs, PlainDelimiters
    <3>2. Only(s, Delimiters) = OutsideOf(s, Delimiters)
      BY <2>2, NoneFound, OnlyIsKept DEF OutsideOf
    <3>3. WithBlock(s, w) = a \o r
      BY <2>2, <3>1 DEF WithBlock
    <3> HIDE DEF a
    <3>4. a \o <<>> = a /\ a \o r \o <<>> = a \o r
      <4>1. a \o r \in Texts
        BY <2>1, <3>1, JoinTyped
      <4>2. a \in Seq(Tokens) /\ a \o r \in Seq(Tokens)
        BY <3>1, <4>1 DEF Texts
      <4> DEFINE u == a \o r
      <4> HIDE DEF u, r
      <4>3. u \in Seq(Tokens) => u \o <<>> = u
        OBVIOUS
      <4>4. a \o <<>> = a
        BY <4>2
      <4> QED
        BY <4>2, <4>3, <4>4 DEF u
    <3>5. ~Pairs(a \o <<>>)
      BY <3>1, <3>2, <3>4, Unpaired
    <3>6. WithBlock(s, w) = Wrapped(a, w, <<>>)
      BY <3>3, <3>4 DEF Wrapped
    <3> QED
      BY <3>1, <3>5, <3>6, EmptyText
  <2>3. CASE FindMarkers(s) # <<>>
    <3> DEFINE a == Before(s)
               b == Between(s)
    <3>1. a \in Texts /\ b \in Texts /\ a \o b \in Texts
      BY <2>3, GapsTyped, JoinTyped
    <3>2. WithBlock(s, w) = Wrapped(a, w, b)
      BY <2>3, SpliceIs DEF WithBlock, Wrapped
    <3>3. Only(a, Delimiters) \o Only(b, Delimiters) = OutsideOf(s, Delimiters)
      BY <2>3, SpliceKeeps, PlainDelimiters DEF OutsideOf
    <3> HIDE DEF a, b
    <3>4. Only(a \o b, Delimiters) = Only(a, Delimiters) \o Only(b, Delimiters)
      BY <3>1, OnlyJoins
    <3>5. ~Pairs(a \o b)
      BY <3>1, <3>3, <3>4, Unpaired
    <3> QED
      BY <3>1, <3>2, <3>5
  <2> QED
    BY <2>2, <2>3
<1> QED
  BY <1>1, <1>2, <1>3

LEMMA StaysTidy ==
    ASSUME NEW s \in Texts, ~Joinable(s), NEW w \in Publications,
           NEW t, t = WithoutBlocks(s) \/ t = WithBlock(s, w)
    PROVE  t \in Texts /\ ~Joinable(t) /\ UsersPart(t) = UsersPart(s)
<1>1. t \in Texts
  BY WrittenTyped
<1>2. Only(t, Theirs) = UsersPart(s)
  BY RewritesKeep, TheirsIs
<1>3. ~Joinable(t) /\ UsersPart(t) = Only(t, Theirs)
  <2>1. CASE t = WithoutBlocks(s)
    <3>1. ~Pairs(t)
      BY <2>1, Rewritten
    <3>2. Outside(t) = DOMAIN t /\ ~Joinable(t)
      BY <1>1, <3>1, UnpairedHasNoBlock
    <3>3. UsersPart(t) = OutsideOf(t, Theirs) /\ Only(t, Theirs) = Kept(t, {k \in DOMAIN t : t[k] \in Theirs})
      BY <1>1, TheirsIs, OnlyIsKept
    <3> QED
      BY <3>2, <3>3 DEF OutsideOf
  <2>2. CASE t = WithBlock(s, w)
    <3>1. PICK a \in Texts, b \in Texts : ~Pairs(a \o b) /\ t = Wrapped(a, w, b)
      BY <2>2, Rewritten
    <3>2. ~Joinable(Wrapped(a, w, b)) /\ UsersPart(Wrapped(a, w, b)) = Only(Wrapped(a, w, b), Theirs)
      BY <3>1, OneBlock
    <3> QED
      BY <3>1, <3>2
  <2> QED
    BY <2>1, <2>2
<1> QED
  BY <1>1, <1>2, <1>3

\* A block of ours in an empty file.
LEMMA FirstBlock ==
    ASSUME NEW w \in Publications
    PROVE  ~Joinable(Rendered(w)) /\ UsersPart(Rendered(w)) = <<>> /\ ~Joinable(<<>>) /\ UsersPart(<<>>) = <<>>
<1> DEFINE r == Rendered(w)
<1>1. r \in Texts /\ <<>> \in Texts
  BY RenderedTyped, EmptyText
<1>2. Wrapped(<<>>, w, <<>>) = r
  <2> HIDE DEF r
  <2>1. <<>> \o r \o <<>> = r
    BY <1>1 DEF Texts
  <2> QED
    BY <2>1 DEF Wrapped, r
<1>3. ~Pairs(<<>> \o <<>>) /\ ~Pairs(<<>>)
  BY DEF Pairs
<1>4. ~Joinable(Wrapped(<<>>, w, <<>>)) /\ UsersPart(Wrapped(<<>>, w, <<>>)) = Only(Wrapped(<<>>, w, <<>>), Theirs)
  BY <1>1, <1>3, OneBlock
<1>5. Outside(<<>>) = DOMAIN <<>> /\ ~Joinable(<<>>)
  BY <1>1, <1>3, UnpairedHasNoBlock
<1>6. UsersPart(<<>>) = OutsideOf(<<>>, Theirs) /\ Only(<<>>, Theirs) = Kept(<<>>, {k \in DOMAIN <<>> : <<>>[k] \in Theirs})
  BY <1>1, TheirsIs, OnlyIsKept
<1>7. UsersPart(<<>>) = <<>>
  BY <1>5, <1>6, EmptyText DEF OutsideOf
<1> QED
  BY <1>2, <1>4, <1>5, <1>7, TheirsIs

\* As long as what the user saved last has no joinable delimiters, the file
\* has none, and everything of the user's that it had.
Tidy(t, u) == ~u.joinable => ~Joinable(t) /\ u.part = UsersPart(t)
TidyInv == (there \/ text = <<>>) /\ Tidy(text, users)

LEMMA SavedIsTidy == \A s : Tidy(s, Users(s))
  BY DEF Tidy, Users

LEMMA SwapIsTidy ==
    ASSUME TypeOK, FreshInv, TidyInv, NEW p \in Procs, Swap(p)
    PROVE  Tidy(text', users')
<1>1. CASE op[p].stale
  BY <1>1, SavedIsTidy DEF Swap
<1>2. CASE ~op[p].stale
  <2> DEFINE w == Wants[op[p].want]
  <2>1. text' = Asked(p) /\ users' = users
    BY <1>2 DEF FreshInv, Fresh, Swap, Busy
  <2>2. text \in Texts /\ w \in Publications
    <3>1. op[p] \in Ops
      BY DEF TypeOK, Ops
    <3>2. op[p].want \in DOMAIN Wants
      BY <3>1 DEF Ops
    <3> QED
      BY <3>2, WantsTyped DEF TypeOK
  <2>3. \/ text' = WithoutBlocks(text)
        \/ text' = WithBlock(text, w)
        \/ ~there /\ text' = Rendered(w)
    BY <2>1 DEF Asked
  <2> HIDE DEF w
  <2>4. CASE text' = WithoutBlocks(text) \/ text' = WithBlock(text, w)
    <3> SUFFICES ASSUME ~users.joinable PROVE ~Joinable(text') /\ users.part = UsersPart(text')
      BY <2>1 DEF Tidy
    <3>1. ~Joinable(text) /\ users.part = UsersPart(text)
      BY DEF TidyInv, Tidy
    <3> QED
      BY <2>2, <2>4, <3>1, StaysTidy
  <2>5. CASE ~there /\ text' = Rendered(w)
    <3>1. text = <<>>
      BY <2>5 DEF TidyInv
    <3>2. ~Joinable(Rendered(w)) /\ UsersPart(Rendered(w)) = <<>> /\ ~Joinable(<<>>) /\ UsersPart(<<>>) = <<>>
      BY <2>2, FirstBlock
    <3> QED
      BY <2>1, <2>5, <3>1, <3>2 DEF TidyInv, Tidy
  <2> QED
    BY <2>3, <2>4, <2>5
<1> QED
  BY <1>1, <1>2

LEMMA InitTidy == Init => TidyInv
<1> SUFFICES ASSUME Init PROVE TidyInv
  OBVIOUS
<1>1. there \/ text = <<>>
  BY DEF Init
<1>2. Tidy(text, users)
  BY SavedIsTidy DEF Init
<1> QED
  BY <1>1, <1>2 DEF TidyInv

LEMMA StepTidy == TypeOK /\ FreshInv /\ TidyInv /\ [NextStep]_vars => TidyInv'
<1> SUFFICES ASSUME TypeOK, FreshInv, TidyInv, [NextStep]_vars PROVE TidyInv'
  OBVIOUS
<1>1. CASE UNCHANGED <<there, text, users>>
  BY <1>1 DEF TidyInv, Tidy
<1>2. ASSUME NEW p \in Procs, Swap(p) PROVE TidyInv'
  <2>1. there' /\ Tidy(text', users')
    BY <1>2, SwapIsTidy DEF Swap
  <2> QED
    BY <2>1 DEF TidyInv
<1>3. CASE OldTick
  BY <1>3, SavedIsTidy DEF OldTick, TidyInv
<1>4. CASE UserSaves
  BY <1>4, SavedIsTidy DEF UserSaves, TidyInv
<1>5. \/ UNCHANGED <<there, text, users>>
      \/ \E p \in Procs : Swap(p)
      \/ OldTick \/ UserSaves
  BY DEF NextStep, Step, Tick, Strip, Classify, Read, Stat, Chmod, GiveUp, Publish, UserChmods,
         vars, file, history
<1> QED
  BY <1>1, <1>2, <1>3, <1>4, <1>5

\* The user's part of a text is in it.
LEMMA PartIsThere == \A s \in Texts : ToSet(UsersPart(s)) \subseteq ToSet(s)
<1> SUFFICES ASSUME NEW s \in Texts PROVE ToSet(UsersPart(s)) \subseteq ToSet(s)
  OBVIOUS
<1> DEFINE at == {k \in Outside(s) : IsUsers(s[k])}
           g == [k \in 1..Len(s) |-> IF k \in at THEN <<s[k]>> ELSE <<>>]
<1>1. Len(s) \in Nat /\ DOMAIN s = 1..Len(s) /\ \A k \in 1..Len(s) : s[k] \in Tokens
  BY DEF Texts
<1>2. UsersPart(s) = FlattenSeq(g)
  BY <1>1 DEF UsersPart, Kept
<1>3. /\ \A k \in 1..Len(s) : g[k] \in Seq(Tokens) /\ ToSet(g[k]) \subseteq {s[k]}
      /\ g \in [1..Len(s) -> Seq(Tokens)]
  <2> HIDE DEF at
  <2>1. \A k \in 1..Len(s) : g[k] \in Seq(Tokens)
    BY <1>1
  <2>2. \A k \in 1..Len(s) : ToSet(g[k]) \subseteq {s[k]}
    BY DEF ToSet
  <2> QED
    BY <2>1, <2>2
<1> HIDE DEF g
<1>4. \A x : x \in ToSet(FlattenSeq(g)) <=> \E i \in 1..Len(s) : x \in ToSet(g[i])
  BY <1>1, <1>3, FlattenMap
<1>5. \A k \in 1..Len(s) : s[k] \in ToSet(s)
  BY <1>1 DEF ToSet
<1>6. ASSUME NEW x \in ToSet(FlattenSeq(g)) PROVE x \in ToSet(s)
  <2>1. PICK i \in 1..Len(s) : x \in ToSet(g[i])
    BY <1>4, <1>6
  <2>2. x = s[i]
    BY <1>3, <2>1
  <2> QED
    BY <1>5, <2>2
<1> QED
  BY <1>2, <1>6

\* Unless the user left a begin and an end around a block, every line of
\* theirs that stood outside of all blocks when they last saved is still in
\* the file, however many passes, strips, crashes and publications since
\* (reconcile.go:164-168 and 244-283).
THEOREM TidyTextIsKept == Spec => []TidyTextSurvives
<1>1. TypeOK /\ TidyInv => TidyTextSurvives
  BY PartIsThere DEF TypeOK, TidyInv, Tidy, TidyTextSurvives, UsersTextSurvives
<1> QED
  BY <1>1, TypeCorrect, InitFresh, StepFresh, InitTidy, StepTidy, PTL DEF Spec
-----------------------------------------------------------------------------
(***************************************************************************)
(* Installing and stripping again: what is left is a margin, and a         *)
(* margin's margin is itself.                                              *)
(***************************************************************************)
LEMMA TrimUnique ==
    ASSUME NEW s \in Texts, NEW n \in 0..Len(s), n # 0 => s[n] # Newline,
           \A k \in (n + 1)..Len(s) : s[k] = Newline
    PROVE  TrimRight(s) = SubSeq(s, 1, n)
<1>1. PICK m \in 0..Len(s) : /\ TrimRight(s) = SubSeq(s, 1, m)
                             /\ (m # 0 => s[m] # Newline)
                             /\ \A k \in (m + 1)..Len(s) : s[k] = Newline
  BY TrimRightIs
<1>2. Len(s) \in Nat
  BY DEF Texts
<1>3. ~(m < n)
  <2> SUFFICES ASSUME m < n PROVE FALSE
    OBVIOUS
  <2>1. n \in (m + 1)..Len(s) /\ n # 0
    BY <1>2
  <2> QED
    BY <1>1, <2>1
<1>4. ~(n < m)
  <2> SUFFICES ASSUME n < m PROVE FALSE
    OBVIOUS
  <2>1. m \in (n + 1)..Len(s) /\ m # 0
    BY <1>2
  <2> QED
    BY <1>1, <2>1
<1>5. m = n
  BY <1>2, <1>3, <1>4
<1> QED
  BY <1>1, <1>5

LEMMA MarginOnce ==
    ASSUME NEW s \in Texts
    PROVE  Margin(Margin(s)) = Margin(s)
<1> DEFINE body == TrimRight(s)
<1>1. PICK n \in 0..Len(s) : /\ body = SubSeq(s, 1, n)
                             /\ (n # 0 => s[n] # Newline)
                             /\ \A k \in (n + 1)..Len(s) : s[k] = Newline
  BY TrimRightIs
<1>2. /\ body \in Texts /\ Len(s) \in Nat /\ Len(body) = n
      /\ \A k \in 1..n : body[k] = s[k]
  <2>1. s \in Seq(Tokens) /\ Len(s) \in Nat
    BY DEF Texts
  <2>2. Len(SubSeq(s, 1, n)) = n /\ \A k \in 1..n : SubSeq(s, 1, n)[k] = s[k]
    BY <2>1
  <2> QED
    BY <1>1, <2>1, <2>2, TrimRightTyped
<1> HIDE DEF body
<1>3. body \in Seq(Tokens) /\ SubSeq(body, 1, n) = body
  <2>1. body \in Seq(Tokens)
    BY <1>2 DEF Texts
  <2> QED
    BY <1>2, <2>1
<1>4. TrimRight(body) = body
  <2>1. n \in 0..Len(body) /\ (n # 0 => body[n] # Newline) /\ \A k \in (n + 1)..Len(body) : body[k] = Newline
    BY <1>1, <1>2
  <2> QED
    BY <1>2, <1>3, <2>1, TrimUnique
<1>5. TrimRight(body \o Blank) = body
  <2> DEFINE u == body \o Blank
  <2>1. Blank \in Seq(Tokens) /\ Len(Blank) = 2 /\ Blank[1] = Newline /\ Blank[2] = Newline
    BY DEF Blank, Tokens
  <2>2. /\ u \in Seq(Tokens) /\ Len(u) = n + 2
        /\ \A k \in 1..(n + 2) : u[k] = IF k <= n THEN body[k] ELSE Blank[k - n]
    <3> HIDE DEF Blank
    <3>1. /\ body \o Blank \in Seq(Tokens) /\ Len(body \o Blank) = Len(body) + Len(Blank)
          /\ \A k \in 1..(Len(body) + Len(Blank)) :
               (body \o Blank)[k] = IF k <= Len(body) THEN body[k] ELSE Blank[k - Len(body)]
      BY <1>3, <2>1, ConcatProperties
    <3> QED
      BY <1>2, <2>1, <3>1
  <2> HIDE DEF u
  <2>3. \A k \in 1..n : u[k] = body[k]
    BY <1>2, <2>2
  <2>4. \A k \in (n + 1)..Len(u) : u[k] = Newline
    <3> SUFFICES ASSUME NEW k \in (n + 1)..Len(u) PROVE u[k] = Newline
      OBVIOUS
    <3>1. k \in 1..(n + 2) /\ ~(k <= n) /\ (k - n = 1 \/ k - n = 2)
      BY <1>2, <2>2
    <3> QED
      BY <2>1, <2>2, <3>1
  <2>5. u \in Texts /\ n \in 0..Len(u) /\ (n # 0 => u[n] # Newline)
    BY <1>1, <1>2, <2>2, <2>3 DEF Texts
  <2>6. TrimRight(u) = SubSeq(u, 1, n)
    BY <2>4, <2>5, TrimUnique
  <2>7. SubSeq(u, 1, n) = body
    <3>1. SubSeq(u, 1, n) \in Seq(Tokens) /\ Len(SubSeq(u, 1, n)) = n /\ \A k \in 1..n : SubSeq(u, 1, n)[k] = u[k]
      BY <1>2, <2>2
    <3> DEFINE v == SubSeq(u, 1, n)
    <3>2. \A k \in 1..Len(v) : v[k] = body[k]
      BY <2>3, <3>1
    <3> HIDE DEF v
    <3>3. v \in Seq(Tokens) /\ Len(v) = Len(body)
      BY <1>2, <3>1 DEF v
    <3>4. v = body
      BY <1>3, <3>2, <3>3, SeqEqual
    <3> QED
      BY <3>4 DEF v
  <2> QED
    BY <2>6, <2>7 DEF u
<1>6. Margin(s) = IF body \in {<<>>, <<Matter>>} THEN body ELSE body \o Blank
  BY DEF Margin, body
<1> QED
  BY <1>4, <1>5, <1>6 DEF Margin

\* A text that ends with the only block it has: stripping it leaves the rest.
LEMMA StripsLast ==
    ASSUME NEW a \in Texts, ~Pairs(a), NEW w \in Publications
    PROVE  WithoutBlocks(a \o Rendered(w)) = a
<1> DEFINE t == Wrapped(a, w, <<>>)
           n == Len(a)
           f == FindMarkers(t)
           F == Found(t, n + 1, n + 4)
<1>1. a \o <<>> = a /\ t = a \o Rendered(w) /\ <<>> \in Texts
  <2> DEFINE r == Rendered(w)
             u == a \o r
  <2>1. u \in Seq(Tokens) /\ a \in Seq(Tokens)
    BY RenderedTyped, JoinTyped DEF Texts
  <2> HIDE DEF r, u
  <2>2. u \o <<>> = u /\ a \o <<>> = a
    BY <2>1
  <2> QED
    BY <2>2, EmptyText DEF Wrapped, u, r
<1>2. /\ t \in Texts /\ n \in Nat /\ Len(t) = n + 5
      /\ \A k \in 1..n : t[k] = a[k]
      /\ t[n + 5] = Newline
  <2> DEFINE b == <<>>
  <2>1. Len(b) = 0 /\ b \in Texts
    BY <1>1
  <2>2. a \in Seq(Tokens)
    BY DEF Texts
  <2>3. Len(a) \in Nat
    BY <2>2
  <2> HIDE DEF b
  <2>4. /\ Wrapped(a, w, b) \in Texts /\ Len(Wrapped(a, w, b)) = (Len(a) + 5) + Len(b)
        /\ \A k \in 1..Len(a) : Wrapped(a, w, b)[k] = a[k]
        /\ Wrapped(a, w, b)[Len(a) + 5] = Newline
    BY <2>1, WrappedIs
  <2>5. Len(Wrapped(a, w, b)) = Len(a) + 5
    BY <2>1, <2>3, <2>4
  <2> QED
    BY <2>3, <2>4, <2>5 DEF b
<1>3. Blocks(t) = {<<n + 1, n + 4>>}
  <2>1. ~Pairs(a \o <<>>)
    BY <1>1
  <2> QED
    BY <1>1, <2>1, OneBlock
<1> HIDE DEF t
<1>4. AfterNewlines(t, n + 5) = n + 6
  <2>1. {k \in (n + 5)..Len(t) : t[k] # Newline} = {}
    BY <1>2
  <2> QED
    BY <1>2, <2>1 DEF AfterNewlines
<1>5. F.start = n + 1 /\ F.next = n + 6
  <2>1. (n + 4) + 1 = n + 5
    BY <1>2
  <2> QED
    BY <1>4, <2>1 DEF Found
<1>6. f = <<F>>
  <2>1. /\ f \in Seq(Finds(t, 1)) /\ ToSet(f) = {F}
        /\ \A i, j \in DOMAIN f : i < j => f[i].next <= f[j].start
    <3>1. /\ f \in Seq(Finds(t, 1)) /\ ToSet(f) = {Found(t, x[1], x[2]) : x \in Blocks(t)}
          /\ \A i, j \in DOMAIN f : i < j => f[i].next <= f[j].start
      BY <1>2, FindMarkersRight
    <3>2. {Found(t, x[1], x[2]) : x \in Blocks(t)} = {F}
      BY <1>3
    <3> QED
      BY <3>1, <3>2
  <2> HIDE DEF f, F
  <2>2. Len(f) \in Nat /\ DOMAIN f = 1..Len(f) /\ \A i \in 1..Len(f) : f[i] = F
    <3>1. Len(f) \in Nat /\ DOMAIN f = 1..Len(f)
      BY <2>1
    <3>2. \A i \in 1..Len(f) : f[i] \in ToSet(f)
      BY <3>1 DEF ToSet
    <3> QED
      BY <2>1, <3>1, <3>2
  <2>3. Len(f) # 0
    <3>1. PICK i \in DOMAIN f : f[i] = F
      BY <2>1 DEF ToSet
    <3> QED
      BY <2>2, <3>1
  <2>4. ~(Len(f) > 1)
    <3> SUFFICES ASSUME Len(f) > 1 PROVE FALSE
      OBVIOUS
    <3>1. 1 \in DOMAIN f /\ 2 \in DOMAIN f /\ f[1] = F /\ f[2] = F
      BY <2>2
    <3>2. F.next <= F.start
      BY <2>1, <3>1
    <3> QED
      BY <1>2, <1>5, <3>2
  <2>5. Len(f) = 1 /\ f[1] = F
    BY <2>2, <2>3, <2>4
  <2> QED
    BY <2>1, <2>5
<1>7. WithoutBlocks(t) = Before(t) \o <<>> \o Between(t)
  <2>1. f # <<>>
    BY <1>6
  <2> QED
    BY <2>1, SpliceIs DEF WithoutBlocks
<1>8. Before(t) = a
  <2>1. Before(t) = SubSeq(t, 1, n)
    <3>1. Head(f) = F /\ F.start - 1 = n
      BY <1>2, <1>5, <1>6
    <3> QED
      BY <3>1 DEF Before
  <2>2. t \in Seq(Tokens) /\ a \in Seq(Tokens)
    BY <1>2 DEF Texts
  <2> DEFINE v == SubSeq(t, 1, n)
  <2>3. v \in Seq(Tokens) /\ Len(v) = n /\ \A k \in 1..n : v[k] = t[k]
    BY <1>2, <2>2
  <2> HIDE DEF v
  <2>4. \A k \in 1..Len(v) : v[k] = a[k]
    BY <1>2, <2>3
  <2>5. v = a
    BY <2>2, <2>3, <2>4, SeqEqual
  <2> QED
    BY <2>1, <2>5 DEF v
<1>9. Between(t) = <<>>
  <2>1. Gaps(t) = <<SubSeq(t, n + 6, n + 5)>>
    <3>1. f = <<F>> /\ Len(<<F>>) = 1 /\ DOMAIN <<F>> = {1} /\ <<F>>[1] = F
      BY <1>6
    <3> HIDE DEF f, F
    <3>2. Gap(t, f, 1) = SubSeq(t, n + 6, n + 5)
      BY <1>2, <1>5, <3>1 DEF Gap
    <3>3. DOMAIN f = {1}
      BY <3>1
    <3>4. Gaps(t) = [i \in {1} |-> Gap(t, f, i)]
      BY <3>3 DEF Gaps, f
    <3>5. [i \in {1} |-> Gap(t, f, i)] = [i \in {1} |-> SubSeq(t, n + 6, n + 5)]
      BY <3>2
    <3> QED
      BY <3>4, <3>5
  <2>2. SubSeq(t, n + 6, n + 5) = <<>>
    BY <1>2 DEF Texts
  <2>3. FlattenSeq(<<<<>>>>) = <<>>
    <3>1. <<>> \in Seq(Seq(Tokens)) /\ <<>> \in Seq(Tokens)
      OBVIOUS
    <3>2. FlattenSeq(Append(<<>>, <<>>)) = FlattenSeq(<<>>) \o <<>>
      BY <3>1, FlattenAppend
    <3>3. Append(<<>>, <<>>) = <<<<>>>>
      OBVIOUS
    <3> QED
      BY <3>2, <3>3, FlattenEmpty
  <2> QED
    BY <2>1, <2>2, <2>3 DEF Between
<1>10. a \o <<>> \o <<>> = a
  BY <1>1
<1> QED
  BY <1>1, <1>7, <1>8, <1>9, <1>10

LEMMA CycleIsMargin ==
    ASSUME NEW s \in Texts, ~Pairs(s), NEW w \in Publications
    PROVE  WithoutBlocks(WithBlock(s, w)) = Margin(s) /\ ~Pairs(Margin(s))
<1>1. FindMarkers(s) = <<>> /\ ~Joinable(s) /\ Outside(s) = DOMAIN s
  BY UnpairedHasNoBlock
<1>2. WithBlock(s, w) = Margin(s) \o Rendered(w)
  BY <1>1, RenderedTyped, MarginIs DEF WithBlock
<1>3. Margin(s) \in Texts /\ Only(Margin(s), Delimiters) = Only(s, Delimiters)
  BY MarginIs, PlainDelimiters
<1>4. Pairs(Only(s, Delimiters)) <=> Pairs(s)
  BY DelimitersPair
<1>5. Pairs(Only(Margin(s), Delimiters)) <=> Pairs(Margin(s))
  BY <1>3, DelimitersPair
<1>6. ~Pairs(Margin(s))
  BY <1>3, <1>4, <1>5
<1> QED
  BY <1>2, <1>3, <1>6, StripsLast

\* Where no delimiters can be joined, installing and stripping twice leaves
\* what doing it once did, in any text and for any publication (writeMarker,
\* stripMarkerFile).
THEOREM CyclesSettle == Spec => []CycleSettles
<1>1. TypeOK => CycleSettles
  <2> SUFFICES ASSUME TypeOK, ~Joinable(text), NEW w \in ToSet(Wants)
               PROVE  LET Cycle(s) == WithoutBlocks(WithBlock(s, w))
                          once == Cycle(WithoutBlocks(text))
                      IN Cycle(once) = once
    BY DEF CycleSettles
  <2>1. text \in Texts /\ w \in Publications
    BY WantsTyped DEF TypeOK, ToSet
  <2> DEFINE u == WithoutBlocks(text)
  <2>2. u \in Texts /\ ~Pairs(u)
    BY <2>1, Rewritten
  <2> HIDE DEF u
  <2>3. WithoutBlocks(WithBlock(u, w)) = Margin(u) /\ ~Pairs(Margin(u)) /\ Margin(u) \in Texts
    BY <2>1, <2>2, CycleIsMargin, MarginIs
  <2>4. WithoutBlocks(WithBlock(Margin(u), w)) = Margin(Margin(u))
    BY <2>1, <2>3, CycleIsMargin
  <2>5. Margin(Margin(u)) = Margin(u)
    BY <2>2, MarginOnce
  <2> QED
    BY <2>3, <2>4, <2>5 DEF u
<1> QED
  BY <1>1, TypeCorrect, PTL
=============================================================================
