----------------------------- MODULE MCService -----------------------------
(***************************************************************************)
(* A fetcher with a key, behind a proxy that answers 407, when the first   *)
(* SKILL.md is too long; one without, behind a proxy that garbles, when the *)
(* first manifest is bad; the refreshing client; and one with a bad key.   *)
(***************************************************************************)
EXTENDS Service

MCConfigs ==
    { [key |-> "resolved", owns |-> FALSE, garbles |-> FALSE, broken |-> {}, oversized |-> {1}],
      [key |-> "none", owns |-> FALSE, garbles |-> TRUE, broken |-> {1}, oversized |-> {}],
      [key |-> "none", owns |-> TRUE, garbles |-> TRUE, broken |-> {}, oversized |-> {}],
      [key |-> "refused", owns |-> FALSE, garbles |-> FALSE, broken |-> {}, oversized |-> {}] }
=============================================================================
