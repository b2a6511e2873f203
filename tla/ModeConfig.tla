------------------------------ MODULE ModeConfig ------------------------------
(***************************************************************************)
(* ~/.pilot/config.json: SetMode and SetUpdateConfig each read the whole   *)
(* file, replace one key of it and rename the result over it.  No lock     *)
(* covers the three steps, so calls of several processes interleave with   *)
(* each other and with whoever else edits the file.  The rename itself is  *)
(* AtomicFile's.                                                           *)
(***************************************************************************)
EXTENDS FiniteSets

CONSTANTS Callers,       \* processes that call SetMode or SetUpdateConfig
          UpdateValues,  \* values of the "update" key
          OtherValues,   \* values of the keys this package does not know
          NoKey,         \* the key is absent
          FirstFiles,    \* what the file may hold at first
          UserFiles      \* what someone else may leave in it

Modes == {"auto", "manual", "disabled"}

\* "skill_inject" values: {"mode": m} for a known m; the legacy {"enabled":
\* true} and {"enabled": false}; an object with neither (or null); a value
\* of another type.
SkillValues == Modes \cup {"enabled", "not_enabled", "unknown", "scalar"}

Keys == {"skill_inject", "update", "other"}
Objects == [Keys -> SkillValues \cup UpdateValues \cup OtherValues \cup {NoKey}]
Empty == [k \in Keys |-> NoKey]

\* No file; not JSON, or no object; the literal null; an object; an object
\* with something after it.
Kinds == {"missing", "garbage", "null", "object", "trailing"}
Files == {f \in [kind : Kinds, obj : Objects] :
            f.kind \in {"missing", "garbage", "null"} => f.obj = Empty}

ASSUME FilesAssumption == FirstFiles \subseteq Files /\ UserFiles \subseteq Files
ASSUME KeyAssumption == NoKey \notin SkillValues \cup {"update", "skill_inject"}

\* json.Decoder reads the first value only; json.Unmarshal wants no other
\* after it, and leaves the map it was given empty.
Decoded(f) == f.obj
Unmarshalled(f) == IF f.kind = "trailing" THEN Empty ELSE f.obj

\* GetMode: the mode, else the legacy flag, whose zero value is off; what is
\* absent or cannot be read is auto.
ModeOf(sub) == CASE sub \in Modes -> sub
                 [] sub \in {"not_enabled", "unknown"} -> "disabled"
                 [] OTHER -> "auto"
GetMode(f) == ModeOf(Decoded(f)["skill_inject"])

\* SetMode's argument: what is not a mode counts as auto.
Normalized(m) == IF m \in Modes THEN m ELSE "auto"
-----------------------------------------------------------------------------
VARIABLES file,    \* config.json
          view,    \* caller -> its call: key, argument, and the object to write
          missed   \* caller -> keys whose current value it does not carry (history)

vars == <<file, view, missed>>

None == [key |-> NoKey, obj |-> Empty, arg |-> NoKey]
Args == Modes \cup {"", "often"} \cup UpdateValues
Views == [key : {"skill_inject", "update"}, obj : Objects, arg : Args] \cup {None}
InCall(c) == view[c].key # NoKey

TypeOK == /\ file \in Files
          /\ view \in [Callers -> Views]
          /\ missed \in [Callers -> SUBSET Keys]

Init == /\ file \in FirstFiles
        /\ view = [c \in Callers |-> None]
        /\ missed = [c \in Callers |-> {}]

\* Mutant: what was read is dropped.
ReadAfresh(c, k, a, v) ==
    /\ ~InCall(c)
    /\ file.kind # "null"
    /\ view' = [view EXCEPT ![c] = [key |-> k, obj |-> [Empty EXCEPT ![k] = v], arg |-> a]]
    /\ missed' = [missed EXCEPT ![c] = IF file.kind = "trailing" THEN Keys ELSE {}]
    /\ UNCHANGED file

\* The file is read and the key replaced in memory.  On the literal null the
\* map is nil and the assignment panics: the call is over, nothing written.
Read(c, k, a, v) ==
    /\ ~InCall(c)
    /\ file.kind # "null"
    /\ view' = [view EXCEPT ![c] =
          [key |-> k, obj |-> [Unmarshalled(file) EXCEPT ![k] = v], arg |-> a]]
    /\ missed' = [missed EXCEPT ![c] = IF file.kind = "trailing" THEN Keys ELSE {}]
    /\ UNCHANGED file

\* Mutant: SetMode persists the legacy flag.
SetModeLegacy(c, m) ==
    Read(c, "skill_inject", m, IF Normalized(m) = "disabled" THEN "not_enabled" ELSE "enabled")

\* Mutant: SetMode takes any string for a mode.
SetModeVerbatim(c, m) == Read(c, "skill_inject", m, m)

SetMode(c, m) == Read(c, "skill_inject", m, Normalized(m))

SetUpdateConfig(c, u) == Read(c, "update", u, u)

\* Everyone else who is in a call now misses what c writes, and what c did
\* not know itself.
Commit(c) ==
    /\ InCall(c)
    /\ file' = [kind |-> "object", obj |-> view[c].obj]
    /\ view' = [view EXCEPT ![c] = None]
    /\ missed' = [d \in Callers |->
          IF d = c \/ ~InCall(d) THEN {} ELSE missed[d] \cup {view[c].key} \cup missed[c]]

\* The write or the rename fails, or the process dies.
GiveUp(c) ==
    /\ InCall(c)
    /\ view' = [view EXCEPT ![c] = None]
    /\ missed' = [missed EXCEPT ![c] = {}]
    /\ UNCHANGED file

\* The user, or another part of pilotctl, writes the file.
UserEdits(f) ==
    /\ file' = f
    /\ missed' = [c \in Callers |-> IF InCall(c) THEN Keys ELSE {}]
    /\ UNCHANGED view

Next == \/ \E c \in Callers : \/ \E m \in Modes \cup {"", "often"} : SetMode(c, m)
                              \/ \E u \in UpdateValues : SetUpdateConfig(c, u)
                              \/ Commit(c)
                              \/ GiveUp(c)
        \/ \E f \in UserFiles : UserEdits(f)

Spec == Init /\ [][Next]_vars
-----------------------------------------------------------------------------
\* SetMode and SetUpdateConfig "update only" their key: a key that nobody
\* touched since the call read the file, and that it could read, keeps its
\* value.  Only overlapping calls lose updates.
OnlyOverlapLoses ==
    [][\A c \in Callers : Commit(c) =>
          \A k \in Keys \ ({view[c].key} \cup missed[c]) : Decoded(file')[k] = Decoded(file)[k]]_vars

\* The mode a call was given is the mode GetMode reads once it is over,
\* whatever the file held before: nothing, the legacy flag, not even JSON.
SetModeIsRead ==
    [][\A c \in Callers : Commit(c) /\ view[c].key = "skill_inject"
          => GetMode(file') = Normalized(view[c].arg)]_vars
-----------------------------------------------------------------------------
\* What a caller carries of the keys it does not miss is what the file holds.
ViewsCurrent == \A c \in Callers : InCall(c) =>
    \A k \in Keys \ ({view[c].key} \cup missed[c]) : view[c].obj[k] = Decoded(file)[k]

\* A call of SetMode carries the mode it was given.
ViewsAnswer == \A c \in Callers :
    view[c].key = "skill_inject" => view[c].obj["skill_inject"] = Normalized(view[c].arg)

IInv == TypeOK /\ ViewsCurrent /\ ViewsAnswer
=============================================================================
