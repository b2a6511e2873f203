--------------------------- MODULE MCPluginConfig ---------------------------
(***************************************************************************)
(* A few files: none, one from before the install, ones in which the user  *)
(* has set something while we are listed or switched off, one that does    *)
(* not parse.                                                              *)
(***************************************************************************)
EXTENDS PluginConfig

File(kind, allow, entry, user, number) ==
    [kind |-> kind, allow |-> allow, entry |-> entry, user |-> user, number |-> number]

Fresh == File("object", FALSE, "none", {}, "none")
MCFirstFiles == {Missing, Fresh, File("object", FALSE, "none", {"own"}, "exact"),
                 File("malformed", FALSE, "none", {"own"}, "none")}
MCUserFiles == {Missing, Fresh,
                File("object", TRUE, "on", {"own"}, "none"),
                File("object", TRUE, "off", {"own"}, "none"),
                File("malformed", TRUE, "on", {"own"}, "none")}
=============================================================================
