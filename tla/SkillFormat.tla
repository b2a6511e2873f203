----------------------------- MODULE SkillFormat -----------------------------
(***************************************************************************)
(* The frontmatter of a gated tool's SKILL.md.  museSkillMD takes the      *)
(* description out of whatever YAML the published file has and writes it   *)
(* as the one double-quoted line Muse loads.  A text is a sequence of      *)
(* characters, of which only those with a meaning here are told apart: a   *)
(* blank (also a tab or a line break), the two quotes, the backslash, "n"  *)
(* (as in the escape \n), "#", a control character, and any other, "w".    *)
(* A file is a sequence of lines [kind, text]; the text of a "description" *)
(* line is what follows the colon.                                         *)
(***************************************************************************)
EXTENDS Naturals, Sequences, SequencesExt

CONSTANTS MaxDescription,  \* museDescriptionMax
          DefaultText      \* "Pilot Protocol skill " and the name

Blank == " "
Quote == "\""
Apostrophe == "'"
Back == "\\"
Control == "^"    \* what tr -d drops; also the mark that stands for \\
Dots == <<".", ".", ".">>

FenceLine == [kind |-> "fence", text |-> <<>>]
NameLine == [kind |-> "name", text |-> <<>>]

ASSUME FormatAssumption ==
    /\ MaxDescription \in Nat /\ MaxDescription >= 4
    /\ DefaultText \in Seq(STRING) /\ DefaultText # <<>> /\ Control \notin ToSet(DefaultText)
-----------------------------------------------------------------------------
\* strings.ReplaceAll of the pair <<a, b>>, and of one character.
ReplacePair(s, a, b, new) ==
    LET From[i \in 1..Len(s) + 1] ==
          IF i > Len(s) THEN <<>>
          ELSE IF i < Len(s) /\ s[i] = a /\ s[i+1] = b THEN new \o From[i+2]
          ELSE <<s[i]>> \o From[i+1]
    IN From[1]

ReplaceChar(s, a, new) == FlattenSeq([i \in DOMAIN s |-> IF s[i] = a THEN new ELSE <<s[i]>>])

\* Text without the blanks around it (strings.Trim).
Trimmed(s) ==
    LET inked == {i \in DOMAIN s : s[i] # Blank}
    IN IF inked = {} THEN <<>>
       ELSE SubSeq(s, CHOOSE i \in inked : \A j \in inked : i <= j,
                      CHOOSE i \in inked : \A j \in inked : j <= i)

\* A trailing comment of a plain scalar, from the first blank before a "#".
StripComment(s) ==
    LET at == {i \in 1..Len(s) - 1 : s[i] = Blank /\ s[i+1] = "#"}
    IN IF at = {} THEN s ELSE SubSeq(s, 1, (CHOOSE i \in at : \A j \in at : i <= j) - 1)

\* Control characters go, runs of blanks become one (whichever: they are all
\* alike), none is left around.
Squeezed(s) ==
    LET From[i \in 1..Len(s) + 1] ==
          IF i > Len(s) THEN <<>>
          ELSE IF s[i] = Control \/ (s[i] = Blank /\ From[i+1] # <<>> /\ From[i+1][1] = Blank)
               THEN From[i+1] ELSE <<s[i]>> \o From[i+1]
    IN Trimmed(From[1])
-----------------------------------------------------------------------------
\* A block indicator (here "|"), alone or before a comment.
IsBlock(v) == v # <<>> /\ v[1] = "|" /\ Trimmed(StripComment(Tail(v))) = <<>>
IsQuoted(v) == v # <<>> /\ v[1] \in {Quote, Apostrophe}

\* The first description and the indented or empty lines after it, trimmed
\* and joined by blanks; every line of a plain scalar loses its comment.
ExtractDescription(lines) ==
    LET first == SelectInSeq(lines, LAMBDA l : l.kind = "description")
        v == Trimmed(lines[first].text)
        plain == ~IsBlock(v) /\ ~IsQuoted(v)
        Piece(s) == IF plain THEN StripComment(s) ELSE s
        rest == SubSeq(lines, first + 1, Len(lines))
        ends == SelectInSeq(rest, LAMBDA l : l.kind # "indented")
        more == IF ends = 0 THEN rest ELSE SubSeq(rest, 1, ends - 1)
        Joined[i \in 0..Len(more)] ==
          IF i = 0 THEN IF IsBlock(v) THEN <<>> ELSE Piece(v)
          ELSE LET piece == Piece(Trimmed(more[i].text))
               IN IF piece = <<>> THEN Joined[i-1] ELSE Joined[i-1] \o <<Blank>> \o piece
    IN IF first = 0 THEN <<>> ELSE Joined[Len(more)]

Wrapped(d, q) == Len(d) >= 2 /\ d[1] = q /\ d[Len(d)] = q
Inside(d) == SubSeq(d, 2, Len(d) - 1)

\* Mutant: the line breaks are replaced before the backslashes.
UnquotedBreaksFirst(d) ==
    IF Wrapped(d, Quote)
    THEN ReplacePair(ReplacePair(ReplacePair(Inside(d), Back, "n", <<Blank>>),
                                 Back, Back, <<Back>>), Back, Quote, <<Quote>>)
    ELSE IF Wrapped(d, Apostrophe) THEN ReplacePair(Inside(d), Apostrophe, Apostrophe, <<Apostrophe>>)
    ELSE d

\* The quotes of a scalar go, and its escapes, one kind after the other; the
\* mark keeps the backslash of \\ from the replacements between.
Unquoted(d) ==
    IF Wrapped(d, Quote)
    THEN LET marked == ReplacePair(Inside(d), Back, Back, <<Control>>)
             quoted == ReplacePair(marked, Back, Quote, <<Quote>>)
             blank == ReplacePair(quoted, Back, "n", <<Blank>>)
         IN ReplaceChar(blank, Control, <<Back>>)
    ELSE IF Wrapped(d, Apostrophe) THEN ReplacePair(Inside(d), Apostrophe, Apostrophe, <<Apostrophe>>)
    ELSE d

\* What is too long is cut at the last blank that leaves room.
Shortened(d) ==
    IF Len(d) <= MaxDescription THEN d
    ELSE LET head == SubSeq(d, 1, MaxDescription - 4)
             last == SelectLastInSeq(head, LAMBDA c : c = Blank)
         IN (IF last = 0 THEN head ELSE SubSeq(head, 1, last - 1)) \o Dots

Escaped(d) == ReplaceChar(ReplaceChar(d, Back, <<Back, Back>>), Quote, <<Back, Quote>>)

OrDefault(d) == IF d = <<>> THEN DefaultText ELSE d

\* Mutant: the text is escaped, then cut.
NormalizeDescriptionCutLast(v) == Shortened(Escaped(OrDefault(Unquoted(Squeezed(v)))))

NormalizeDescription(v) == Escaped(Shortened(OrDefault(Unquoted(Squeezed(v)))))

\* The line after the fence that closes the frontmatter, 0 without one.
BodyStart(file) ==
    IF file = <<>> \/ file[1].kind # "fence" THEN 0
    ELSE LET closing == SelectInSubSeq(file, 2, Len(file), LAMBDA l : l.kind = "fence")
         IN IF closing = 0 THEN 0 ELSE closing + 1

\* What is not in a closed block of frontmatter is left as it is.
MuseSkillMD(file) ==
    LET body == BodyStart(file)
        desc == NormalizeDescription(ExtractDescription(SubSeq(file, 2, body - 2)))
    IN IF body = 0 THEN file
       ELSE <<FenceLine, NameLine,
              [kind |-> "description", text |-> <<Quote>> \o desc \o <<Quote>>], FenceLine>>
            \o SubSeq(file, body, Len(file))

FormatSkill(file, format) == IF format = "muse" THEN MuseSkillMD(file) ELSE file
-----------------------------------------------------------------------------
(***************************************************************************)
(* What a YAML loader makes of a scalar on one line, read from left to     *)
(* right; NoValue where it is no valid scalar.                             *)
(***************************************************************************)
NoValue == [valid |-> FALSE, text |-> <<>>]
Value(s) == [valid |-> TRUE, text |-> s]

\* The inside of a scalar in double quotes.
LoadDouble(s) ==
    LET Read[i \in 1..Len(s) + 1] ==
          IF i > Len(s) THEN Value(<<>>)
          ELSE LET escape == s[i] = Back
                   next == Read[IF escape THEN i+2 ELSE i+1]
                   char == IF ~escape THEN s[i] ELSE IF s[i+1] = "n" THEN Blank ELSE s[i+1]
               IN IF \/ s[i] = Quote
                     \/ escape /\ (i = Len(s) \/ s[i+1] \notin {Back, Quote, "n"})
                     \/ ~next.valid
                  THEN NoValue ELSE Value(<<char>> \o next.text)
    IN Read[1]

\* The inside of a scalar in single quotes: each quote in it is doubled.
LoadSingle(s) ==
    LET Read[i \in 1..Len(s) + 1] ==
          IF i > Len(s) THEN Value(<<>>)
          ELSE LET next == Read[IF s[i] = Apostrophe THEN i+2 ELSE i+1]
               IN IF (s[i] = Apostrophe /\ (i = Len(s) \/ s[i+1] # Apostrophe)) \/ ~next.valid
                  THEN NoValue ELSE Value(<<s[i]>> \o next.text)
    IN Read[1]

LoadLine(v) ==
    LET t == Trimmed(v) IN
    IF t = <<>> \/ t[1] \in {"#", "|"} \/ Control \in ToSet(t) THEN NoValue
    ELSE IF IsQuoted(t) THEN IF ~Wrapped(t, t[1]) THEN NoValue
                             ELSE IF t[1] = Quote THEN LoadDouble(Inside(t)) ELSE LoadSingle(Inside(t))
    ELSE Value(StripComment(t))
-----------------------------------------------------------------------------
\* Muse loads the copy: the two quoted lines and nothing else between the
\* fences, the body as it was; the description decodes to something no
\* longer than the cap.
LoadsInMuse(file, copy) ==
    IF BodyStart(file) = 0 THEN copy = file
    ELSE /\ Len(copy) >= 4
         /\ <<copy[1], copy[2], copy[4]>> = <<FenceLine, NameLine, FenceLine>>
         /\ SubSeq(copy, 5, Len(copy)) = SubSeq(file, BodyStart(file), Len(file))
         /\ LET v == LoadLine(copy[3].text)
            IN /\ copy[3].kind = "description" /\ Wrapped(copy[3].text, Quote)
               /\ v.valid /\ v.text # <<>> /\ Len(v.text) <= MaxDescription

\* A description on one line that a YAML loader can read comes out with the
\* same value, blanks aside, unless it is cut.
DescriptionKept(file, copy) ==
    BodyStart(file) # 0 =>
    LET front == SubSeq(file, 2, BodyStart(file) - 2)
        at == SelectInSeq(front, LAMBDA l : l.kind = "description")
        was == LoadLine(front[at].text)
        is == Squeezed(LoadLine(copy[3].text).text)
    IN (at # 0 /\ (at < Len(front) => front[at+1].kind # "indented"))
       => LET kept == Squeezed(was.text) IN
          was.valid /\ kept # <<>> /\ Len(was.text) <= MaxDescription => is = kept
=============================================================================
