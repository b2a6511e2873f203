------------------------------ MODULE WholeFile ------------------------------
(***************************************************************************)
(* What every write path of skillinject promises about one file: a reader  *)
(* sees nothing, or one value that some writer wanted to put there, whole. *)
(* A write that was begun either takes effect in one step or is given up   *)
(* without a trace.                                                        *)
(***************************************************************************)
CONSTANTS Writers, Values, NoValue

VARIABLES file,   \* what a reader of the path sees
          want    \* what each writer is trying to put there

wvars == <<file, want>>

WInit == file = NoValue /\ want = [w \in Writers |-> NoValue]

Begin(w, v) == /\ want[w] = NoValue
               /\ want' = [want EXCEPT ![w] = v]
               /\ file' = file

Commit(w) == /\ want[w] # NoValue
             /\ file' = want[w]
             /\ want' = [want EXCEPT ![w] = NoValue]

GiveUp(w) == /\ want[w] # NoValue
             /\ want' = [want EXCEPT ![w] = NoValue]
             /\ file' = file

WNext == \E w \in Writers : \/ \E v \in Values : Begin(w, v)
                            \/ Commit(w)
                            \/ GiveUp(w)

WSpec == WInit /\ [][WNext]_wvars
=============================================================================
