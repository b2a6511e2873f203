---------------------------- MODULE MCSkillInject ----------------------------
(***************************************************************************)
(* A small host.  claude and opencode share one heartbeat file f1 through  *)
(* a symlink; openclaw has a heartbeat file f2 of its own and the plugin;  *)
(* openhands has no heartbeat file.                                        *)
(***************************************************************************)
EXTENDS SkillInject

NoRetired == [markers |-> <<>>, plugins |-> <<>>, helpers |-> <<>>]
Manifest(tools, helpers, gated, retired) ==
    [tools |-> tools, helpers |-> helpers, gated |-> gated, retired |-> retired]

MCFileOf == [t \in Tools |-> CASE t = "openclaw" -> "f2" [] t = "openhands" -> None [] OTHER -> "f1"]
MCPluginOf == [t \in Tools |-> IF t = "openclaw" THEN "injector" ELSE None]
MCFilesOf == [p \in Plugins |-> <<"index">>]

\* The built-in list names the injector, which revision 1 still manages;
\* revision 2 drops openclaw, adopts openhands, and retires f2.
MCBuiltin == [markers |-> <<>>, plugins |-> <<"injector">>, helpers |-> <<>>]
MCManifests ==
    << Manifest(<<"openclaw">>, <<>>, <<>>, NoRetired),
       Manifest(<<"openhands">>, <<>>, <<>>, [NoRetired EXCEPT !.markers = <<"f2">>]) >>
MCOneManifest == <<Manifest(<<"openclaw">>, <<"ask">>, <<"muse">>, NoRetired)>>

\* Two tools on one file, and a retired list that names the file in use.
MCSharedBuiltin == [NoRetired EXCEPT !.markers = <<"f1">>]
MCSharedManifests ==
    << Manifest(<<"claude", "opencode">>, <<>>, <<>>, NoRetired),
       Manifest(<<"opencode", "claude">>, <<>>, <<>>, NoRetired) >>
=============================================================================
