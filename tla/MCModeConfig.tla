---------------------------- MODULE MCModeConfig ----------------------------
(***************************************************************************)
(* Files that may be there: none, broken ones, the literal null, and       *)
(* objects with each kind of skill_inject value, alone or with something   *)
(* after them.                                                             *)
(***************************************************************************)
EXTENDS ModeConfig

Object(s, u, o) == [k \in Keys |-> CASE k = "skill_inject" -> s [] k = "update" -> u [] OTHER -> o]
File(kind, obj) == [kind |-> kind, obj |-> obj]

MCUserFiles ==
    {File(k, Empty) : k \in {"missing", "garbage", "null"}}
    \cup {File(k, Object(s, u, o)) : k \in {"object", "trailing"},
             s \in {"disabled", "enabled", "unknown", "scalar", NoKey}, u \in {"pinned", NoKey}, o \in {"set"}}
=============================================================================
