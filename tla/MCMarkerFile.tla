---------------------------- MODULE MCMarkerFile ----------------------------
(***************************************************************************)
(* Heartbeat files as releases and users leave them, and two publications: *)
(* a changed SKILL.md with its template.                                   *)
(***************************************************************************)
EXTENDS MarkerFile

MCWants == <<[hash |-> 1, tmpl |-> 1], [hash |-> 2, tmpl |-> 1]>>
Current == <<Begin(1, <<1, 1>>), Close, Body(1), End, Newline>>

\* The user's alone; an older block among it; two blocks; an orphaned begin
\* before one.
MCFirstFiles ==
    { <<Matter, Line(1), Newline>>,
      <<Line(1), Newline>> \o OldBlock(1) \o <<Line(2)>>,
      OldBlock(1) \o <<Mention, Newline>> \o Current,
      <<Begin(1, NoRender), Close, Quote, Newline>> \o Current }
MCUserTokens == {Line(3), End}

\* An orphaned begin and a stray end around a block.
MCOrphans == {<<Begin(1, NoRender), Close, Line(1), Newline>> \o Current \o <<Line(2), Newline, End, Newline>>}
=============================================================================
