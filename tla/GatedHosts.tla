------------------------------ MODULE GatedHosts ------------------------------
(***************************************************************************)
(* Hosts for GatedTool: the good row under every marker; every row under a *)
(* good marker; every published description under a good row and marker.   *)
(***************************************************************************)
EXTENDS GatedTool

Tilde(s) == [from |-> "~", to |-> s]
Slash(s) == [from |-> "/", to |-> s]
Relative(s) == [from |-> ".", to |-> s]

MCHome == <<"h">>
MCLinks == [l \in {<<"h", "ws">>} |-> <<"h", "workspace">>]
MCRegularFile == <<"h", "workspace", "agent", "pilot-protocol", "SKILL.md">>

Muse == [marker |-> Tilde(<<".pilot", "targets", "muse">>), root |-> Tilde(<<"workspace">>),
         skills |-> Tilde(<<"workspace", "skills">>), format |-> "muse"]
MCRows == {
    Muse,
    [Muse EXCEPT !.format = ""],
    [Muse EXCEPT !.format = "other"],
    [Muse EXCEPT !.marker = Tilde(<<".pilot">>)],
    [Muse EXCEPT !.marker = Tilde(<<".pilot", "..", ".ssh">>)],
    [Muse EXCEPT !.marker = Relative(<<".pilot", "x">>)],
    [Muse EXCEPT !.root = Tilde(<<>>)],
    [Muse EXCEPT !.root = Slash(<<"etc">>), !.skills = Slash(<<"etc", "skills">>)],
    [Muse EXCEPT !.root = Tilde(<<"workspace", "skills">>)],
    [Muse EXCEPT !.skills = Tilde(<<"workspace", "..", "other">>)],
    [Muse EXCEPT !.skills = Tilde(<<"workspace", "agent">>)],
    [Muse EXCEPT !.root = Tilde(<<"ws">>), !.skills = Tilde(<<"ws", "agent">>)]}

Skip == [is |-> "skip"]
Bare == [is |-> "bare"]
Set(k, v) == [is |-> "set", key |-> k, value |-> v]
Dir(p) == Set("skills_dir", p)
Fmt(f) == Set("skill_format", f)
Marker(lines) == [kind |-> "lines", lines |-> lines]

\* A marker for exactly this row.
ForRow(r) == Marker(<<Dir(r.skills), Fmt(IF r.format = "" THEN "canonical" ELSE r.format)>>)
Good == ForRow(Muse)

MCMarkers == {
    [kind |-> "missing", lines |-> <<>>],
    [kind |-> "odd", lines |-> Good.lines],
    Good, Marker(<<>>), Marker(<<Skip>>),
    Marker(<<Skip, Fmt("muse"), Set("version", "2"), Dir(Slash(<<"h", "ws", "skills">>))>>),
    Marker(<<Dir(Muse.skills)>>), Marker(<<Fmt("muse")>>),
    Marker(<<Dir([from |-> "", to |-> <<>>]), Fmt("muse")>>),
    Marker(<<Dir(Tilde(<<"workspace">>)), Fmt("muse")>>),
    Marker(<<Dir(Relative(<<"workspace", "skills">>)), Fmt("muse")>>),
    Marker(<<Dir(Muse.skills), Fmt("canonical")>>),
    Marker(<<Dir(Muse.skills), Fmt("muse"), Bare>>),
    Marker(<<Dir(Tilde(<<"other">>)), Dir(Muse.skills), Fmt("muse")>>),
    Marker(<<Dir(Muse.skills), Fmt("muse"), Set("version", "2"), Set("version", "2")>>)}

MCSaved == {Good, Marker(<<Dir(Tilde(<<"other">>)), Fmt("muse")>>)}

\* Published files.
Prose(s) == [kind |-> "prose", text |-> s]
Description(s) == [kind |-> "description", text |-> s]
Indented(s) == [kind |-> "indented", text |-> s]
Published(front) == <<FenceLine, NameLine>> \o front \o <<FenceLine, Prose(<<"w">>), FenceLine>>
Plain == Published(<<Description(<<" ", "w">>)>>)

Alphabet == {"w", " ", Quote, Apostrophe, Back, "n", "#", Control}
Texts == UNION {[1..k -> Alphabet] : k \in 0..3}
         \cup {<<Quote>> \o t \o <<Quote>> : t \in [1..4 -> {"w", " ", Quote, Back, "n"}]}
         \cup {<<Apostrophe>> \o t \o <<Apostrophe>> : t \in [1..3 -> {"w", " ", Apostrophe, Back}]}
         \cup {t \o <<"w", "w">> : t \in [1..6 -> {"w", " ", Back}]}

MCSources ==
    {Published(<<Description(t)>>) : t \in Texts}
    \cup {Published(<<Description(v), Indented(t), Indented(<<>>), Indented(u)>>) :
            v \in {<<>>, <<"|">>, <<"|", " ", "#">>, <<Quote, "w">>, <<"w">>},
            t \in [1..3 -> {"w", " ", "#", Quote}], u \in {<<"w">>, <<"w", Quote>>}}
    \cup {Published(<<>>), Published(<<Prose(<<"w">>), Description(<<"w">>), Description(<<"n">>)>>),
          <<Prose(<<"w">>)>>, <<FenceLine, Description(<<"w">>)>>, <<FenceLine, FenceLine>>}

Host(r, m, s, c, n) == [row |-> r, marker |-> m, src |-> s, copy |-> c, edits |-> n]
MCHosts == {Host(Muse, m, Plain, c, 1) : m \in MCMarkers, c \in {Absent, Theirs}}
           \cup {Host(r, ForRow(r), Plain, c, 1) : r \in MCRows, c \in {Absent, Theirs}}
           \cup {Host(Muse, Good, Plain, Absent, 2)}
           \cup {Host(Muse, Good, s, Absent, 0) : s \in MCSources}

MCDefaultText == <<"w", "n">>
=============================================================================
