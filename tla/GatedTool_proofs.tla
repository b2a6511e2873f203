--------------------------- MODULE GatedTool_proofs ---------------------------
(***************************************************************************)
(* What GatedTool guarantees for any row, marker, links and number of      *)
(* processes: a file that one undisturbed tick settled stays as it is, and *)
(* turns change nothing but what the marker they read allows, as the       *)
(* package comment describes such a marker.  And for any file that is      *)
(* published: the copy made of it is one Muse loads, with the description  *)
(* that was published.                                                     *)
(***************************************************************************)
EXTENDS GatedTool, SequenceFacts

Markers == Saved \cup {h.marker : h \in Hosts}
Turns == [kind : {"tick", "uninstall"},
          pc : {"idle", "regular", "marker", "resolve", "look", "write", "rename"},
          decl : {Nothing} \cup {Parsed(m) : m \in Markers},
          taken : BOOLEAN, grounds : BOOLEAN]

TurnsOK == /\ turn \in [Procs -> Turns]
           /\ marker \in Markers
           /\ there \in BOOLEAN
           /\ quiet \in {"no", "pass", "yes"}
           /\ \A p \in Procs : ~Busy(p) => turn[p] = Idle

\* A turn that got past its marker holds one that attests the row.
Entitled(t) ==
    /\ t.pc \in {"resolve", "look", "write", "rename"} => MarkerPathOK(row)
    /\ t.pc \in {"look", "write", "rename"} => TargetOK(row) /\ Attests(t.decl, row)

IInv == TurnsOK /\ (\A p \in Procs : Entitled(turn[p])) /\ QuietInv

LEMMA IdleTurn == Idle \in Turns /\ Idle.kind = "tick" /\ Idle.pc = "idle"
BY DEF Idle, Turns

LEMMA DocumentedBoolean == \A m : Documented(m) \in BOOLEAN
BY DEF Documented

\* A turn that goes on leaves the others where they are.
LEMMA TurnMoves ==
    ASSUME TurnsOK, NEW p \in Procs, NEW u \in Turns, u.pc # "idle",
           turn' = [turn EXCEPT ![p] = u], UNCHANGED <<world, quiet>>
    PROVE  TurnsOK'
<1>1. /\ turn' \in [Procs -> Turns] /\ marker' \in Markers /\ there' \in BOOLEAN
      /\ quiet' \in {"no", "pass", "yes"}
    BY DEF TurnsOK, world
<1>2. ASSUME NEW q \in Procs, turn'[q].pc = "idle" PROVE turn'[q] = Idle
    <2>1. turn'[q] = turn[q]
        BY <1>2 DEF TurnsOK
    <2> QED BY <1>2, <2>1 DEF TurnsOK, Busy
<1> QED BY <1>1, <1>2 DEF TurnsOK, Busy

\* Every turn is in one of its places, and knows a marker there has been.
LEMMA TurnsStay == TurnsOK /\ [GatedNext]_gatedVars => TurnsOK'
<1> SUFFICES ASSUME TurnsOK, [GatedNext]_gatedVars PROVE TurnsOK'
    OBVIOUS
<1> USE IdleTurn DEF TurnsOK, Busy, At
<1>1. ASSUME NEW p \in Procs, NEW k \in {"tick", "uninstall"}, Begin(p, k) PROVE TurnsOK'
    BY <1>1 DEF Begin, world, Turns
<1>2. ASSUME NEW p \in Procs, Regular(p) PROVE TurnsOK'
  <2> DEFINE taken == turn[p].kind = "tick" /\ there /\ Shared(row)
  <2>1. taken \in BOOLEAN
    OBVIOUS
  <2>2. turn' = [turn EXCEPT ![p].pc = "marker", ![p].taken = taken] /\ UNCHANGED <<world, quiet>>
    BY <1>2 DEF Regular
  <2> HIDE DEF taken
  <2> DEFINE u == [turn[p] EXCEPT !.pc = "marker", !.taken = taken]
  <2>3. u \in Turns /\ u.pc = "marker"
    BY <2>1 DEF Turns
  <2>4. turn' = [turn EXCEPT ![p] = u]
    BY <2>2
  <2> HIDE DEF u
  <2> QED
    BY <2>2, <2>3, <2>4, TurnMoves
<1>3. ASSUME NEW p \in Procs, Over(p), UNCHANGED world PROVE TurnsOK'
    BY <1>3 DEF Over, world
<1>4. ASSUME NEW p \in Procs, ReadMarker(p) PROVE TurnsOK'
  <2>1. Documented(marker) \in BOOLEAN
    BY DocumentedBoolean
  <2>2. Parsed(marker) \in {Nothing} \cup {Parsed(m) : m \in Markers}
    OBVIOUS
  <2> DEFINE m == Parsed(marker)
             d == Documented(marker)
             u == [turn[p] EXCEPT !.pc = "resolve", !.decl = m, !.grounds = d]
  <2>3. turn' = [turn EXCEPT ![p].pc = "resolve", ![p].decl = m, ![p].grounds = d] /\ UNCHANGED <<world, quiet>>
    BY <1>4 DEF ReadMarker
  <2>4. m \in {Nothing} \cup {Parsed(x) : x \in Markers} /\ d \in BOOLEAN
    BY <2>1, <2>2
  <2> HIDE DEF m, d
  <2>5. u \in Turns /\ u.pc = "resolve"
    BY <2>4 DEF Turns
  <2>6. turn' = [turn EXCEPT ![p] = u]
    BY <2>3
  <2> HIDE DEF u
  <2> QED
    BY <2>3, <2>5, <2>6, TurnMoves
<1>5. ASSUME NEW p \in Procs, Resolve(p) \/ Look(p) \/ Recheck(p) PROVE TurnsOK'
    BY <1>5 DEF Resolve, Look, Recheck, Goto, world, Turns
<1>6. ASSUME NEW p \in Procs, TurnFails(p) PROVE TurnsOK'
    BY <1>6 DEF TurnFails, world
<1>7. ASSUME NEW m \in Saved, SavesMarker(m) PROVE TurnsOK'
    BY <1>7 DEF SavesMarker, Intervention, Markers
<1>8. ASSUME NEW c \in {Absent, Link, Theirs}, SavesFile(c) PROVE TurnsOK'
    BY <1>8 DEF SavesFile, Intervention
<1>9. ASSUME RootGoes \/ RootComes PROVE TurnsOK'
    BY <1>9 DEF RootGoes, RootComes, Intervention
<1>10. ASSUME UNCHANGED gatedVars PROVE TurnsOK'
    BY <1>10 DEF gatedVars
<1> QED
    BY <1>1, <1>2, <1>3, <1>4, <1>5, <1>6, <1>7, <1>8, <1>9, <1>10
    DEF GatedNext, Step, NoMarker, Inactive, NothingToDo, RecheckFails, Install, Delete

\* Passing the checks is what the code's conditions say.
LEMMA EntitledStays ==
    IInv /\ [GatedNext]_gatedVars => \A p \in Procs : Entitled(turn[p])'
<1> SUFFICES ASSUME IInv, [GatedNext]_gatedVars, NEW r \in Procs PROVE Entitled(turn[r])'
    OBVIOUS
<1> USE IdleTurn DEF IInv, TurnsOK, Turns, Busy, At, Entitled
<1>1. ASSUME NEW p \in Procs, NEW k \in {"tick", "uninstall"}, Begin(p, k) PROVE Entitled(turn[r])'
    BY <1>1 DEF Begin, world
<1>2. ASSUME NEW p \in Procs, Regular(p) PROVE Entitled(turn[r])'
    BY <1>2 DEF Regular, world
<1>3. ASSUME NEW p \in Procs, Over(p) \/ TurnFails(p), UNCHANGED row PROVE Entitled(turn[r])'
    BY <1>3 DEF Over, TurnFails
<1>4. ASSUME NEW p \in Procs, ReadMarker(p) PROVE Entitled(turn[r])'
    BY <1>4 DEF ReadMarker, world
<1>5. ASSUME NEW p \in Procs, Resolve(p) PROVE Entitled(turn[r])'
    BY <1>5 DEF Resolve, Active, Goto, world
<1>6. ASSUME NEW p \in Procs, Look(p) \/ Recheck(p) PROVE Entitled(turn[r])'
    BY <1>6 DEF Look, Recheck, Goto, world
<1>7. ASSUME \/ \E m \in Saved : SavesMarker(m)
             \/ \E c \in {Absent, Link, Theirs} : SavesFile(c)
             \/ RootGoes \/ RootComes
             \/ UNCHANGED gatedVars
      PROVE Entitled(turn[r])'
    BY <1>7 DEF SavesMarker, SavesFile, RootGoes, RootComes, Intervention, gatedVars
<1> QED
    BY <1>1, <1>2, <1>3, <1>4, <1>5, <1>6, <1>7
    DEF GatedNext, Step, NoMarker, Inactive, NothingToDo, RecheckFails, Install, Delete, TurnFails, world

\* Nothing but the world decides whether a tick would act.
LEMMA WorldDecides ==
    UNCHANGED world => /\ WouldAct' = WouldAct /\ Want' = Want
                       /\ Shared(row)' = Shared(row) /\ Copy(src)' = Copy(src)
                       /\ MarkerPathOK(row)' = MarkerPathOK(row)
                       /\ Parsed(marker)' = Parsed(marker)
BY DEF world, WouldAct, Want, Shared, Copy, MarkerPathOK, TargetOK, Attests, Format, Parsed

\* A turn that ends leaves a quiet host quiet if the file is settled then.
LEMMA EndsSettled ==
    ASSUME IInv, NEW p \in Procs, Busy(p), Over(p), UNCHANGED world, Settled', quiet # "no"
    PROVE  QuietInv'
<1> USE IdleTurn, WorldDecides DEF IInv, TurnsOK, Turns, Busy
<1>1. turn' = [turn EXCEPT ![p] = Idle] /\ quiet' = "yes"
    BY DEF Over
<1>2. ASSUME NEW q \in Procs PROVE Current(turn[q])'
    BY <1>1 DEF QuietInv, Current, Settled, RegularDone, world
<1>3. ASSUME NEW q \in Procs PROVE turn'[q].pc \notin {"write", "rename"}
  <2>1. CASE q = p
    BY <2>1, <1>1
  <2>2. CASE q # p /\ quiet = "yes"
    BY <2>2, <1>1 DEF QuietInv
  <2>3. CASE q # p /\ quiet = "pass"
    <3>1. ~Busy(q)
      BY <2>3 DEF QuietInv
    <3> QED
      BY <2>3, <3>1, <1>1
  <2> QED
    BY <2>1, <2>2, <2>3
<1> QED
    BY <1>1, <1>2, <1>3 DEF QuietInv

LEMMA QuietStays == IInv /\ [GatedNext]_gatedVars => QuietInv'
<1> SUFFICES ASSUME IInv, [GatedNext]_gatedVars, quiet' # "no" PROVE QuietInv'
    BY DEF QuietInv
<1> USE IdleTurn, WorldDecides DEF IInv, TurnsOK, Turns, Busy, At
<1>1. ASSUME NEW p \in Procs, NEW k \in {"tick", "uninstall"}, Begin(p, k) PROVE QuietInv'
  <2>1. /\ k = "tick"
        /\ \/ quiet = "yes" /\ quiet' = "yes"
           \/ quiet = "no" /\ quiet' = "pass" /\ \A q \in Procs : ~Busy(q)
    BY <1>1 DEF Begin
  <2>2. turn' = [turn EXCEPT ![p].kind = k, ![p].pc = "regular"] /\ UNCHANGED <<world, copy>> /\ ~Busy(p)
    BY <1>1 DEF Begin
  <2>3. ASSUME NEW q \in Procs PROVE Current(turn[q])'
    BY <2>1, <2>2 DEF QuietInv, Current, RegularDone, world
  <2>4. quiet' = "pass" => Busy(p)' /\ \A q \in Procs \ {p} : ~Busy(q)'
    BY <2>1, <2>2
  <2>5. quiet' = "yes" => Settled' /\ \A q \in Procs : turn'[q].pc \notin {"write", "rename"}
    BY <2>1, <2>2 DEF QuietInv, Settled, RegularDone, world
  <2> QED
    BY <2>1, <2>3, <2>4, <2>5 DEF QuietInv
<1>2. ASSUME NEW p \in Procs, Regular(p) PROVE QuietInv'
  <2>1. UNCHANGED <<world, quiet>> /\ turn[p].kind = "tick" /\ turn[p].pc = "regular"
    BY <1>2 DEF Regular, QuietInv, Current
  <2>2. copy' = IF there /\ Shared(row) THEN Copy(src) ELSE copy
    BY <1>2, <2>1 DEF Regular, Shared
  <2> DEFINE taken == there /\ Shared(row)
  <2>3. turn' = [turn EXCEPT ![p].pc = "marker", ![p].taken = taken]
    BY <1>2, <2>1 DEF Regular
  <2>4. RegularDone'
    BY <2>1, <2>2 DEF RegularDone, world
  <2>5. ASSUME NEW q \in Procs PROVE Current(turn[q])'
    BY <2>1, <2>3, <2>4 DEF QuietInv, Current, world
  <2>6. quiet = "yes" => Settled'
    BY <2>1, <2>2, <2>4 DEF QuietInv, Settled, WouldAct, world
  <2>7. \A q \in Procs : turn'[q].pc = IF q = p THEN "marker" ELSE turn[q].pc
    BY <2>3
  <2> QED
    BY <2>1, <2>5, <2>6, <2>7 DEF QuietInv
<1>3. ASSUME NEW p \in Procs, ReadMarker(p) \/ Resolve(p) \/ Look(p) \/ Recheck(p) PROVE QuietInv'
  <2>1. UNCHANGED <<world, copy, quiet>> /\ Current(turn[p])
    BY <1>3 DEF ReadMarker, Resolve, Look, Recheck, Goto, QuietInv
  <2>2. RegularDone' = RegularDone /\ Settled' = Settled
    BY <2>1 DEF RegularDone, Settled, world
  <2>3. Current(turn[p])'
    <3>1. CASE ReadMarker(p)
      BY <2>1, <2>2, <3>1 DEF ReadMarker, Current, world
    <3>2. CASE Resolve(p)
      BY <2>1, <2>2, <3>2 DEF Resolve, Active, Goto, Current, WouldAct, world
    <3>3. CASE Look(p) \/ Recheck(p)
      BY <2>1, <2>2, <3>3 DEF Look, Recheck, Goto, Current, world
    <3> QED
      BY <1>3, <3>1, <3>2, <3>3
  <2>4. \A q \in Procs \ {p} : turn'[q] = turn[q]
    BY <1>3 DEF ReadMarker, Resolve, Look, Recheck, Goto
  <2>5. ASSUME NEW q \in Procs PROVE Current(turn[q])'
    BY <2>1, <2>2, <2>3, <2>4 DEF QuietInv, Current, world
  <2>6. Busy(p) /\ Busy(p)'
    BY <1>3 DEF ReadMarker, Resolve, Look, Recheck, Goto
  <2>7. quiet = "yes" => turn'[p].pc \notin {"write", "rename"}
    BY <1>3, <2>1 DEF ReadMarker, Resolve, Look, Recheck, Goto, ToDo, QuietInv, Settled, Current
  <2> QED
    BY <2>1, <2>2, <2>4, <2>5, <2>6, <2>7 DEF QuietInv
<1>4. ASSUME NEW p \in Procs, NoMarker(p) PROVE QuietInv'
  <2>1. Busy(p) /\ Over(p) /\ UNCHANGED <<world, copy>> /\ Current(turn[p]) /\ quiet # "no"
    BY <1>4 DEF NoMarker, Over, QuietInv
  <2>2. RegularDone /\ ~WouldAct
    BY <1>4, <2>1 DEF NoMarker, Current, WouldAct
  <2>3. Settled'
    BY <2>1, <2>2 DEF Settled, RegularDone, world
  <2> QED
    BY <2>1, <2>3, EndsSettled
<1>5. ASSUME NEW p \in Procs, Inactive(p) PROVE QuietInv'
  <2>1. Busy(p) /\ Over(p) /\ UNCHANGED <<world, copy>> /\ Current(turn[p]) /\ quiet # "no"
    BY <1>5 DEF Inactive, Over, QuietInv
  <2>2. RegularDone /\ ~WouldAct
    BY <1>5, <2>1 DEF Inactive, Active, Current, WouldAct
  <2>3. Settled'
    BY <2>1, <2>2 DEF Settled, RegularDone, world
  <2> QED
    BY <2>1, <2>3, EndsSettled
<1>6. ASSUME NEW p \in Procs, NothingToDo(p) \/ RecheckFails(p) PROVE QuietInv'
  <2>1. Busy(p) /\ Over(p) /\ UNCHANGED <<world, copy>> /\ Current(turn[p]) /\ quiet # "no"
    BY <1>6 DEF NothingToDo, RecheckFails, Over, QuietInv
  <2>2. RegularDone /\ copy \in {Want, Link}
    BY <1>6, <2>1 DEF NothingToDo, RecheckFails, ToDo, Current, WouldAct
  <2>3. Settled'
    BY <2>1, <2>2 DEF Settled, RegularDone, world
  <2> QED
    BY <2>1, <2>3, EndsSettled
<1>7. ASSUME NEW p \in Procs, Install(p) PROVE QuietInv'
  <2>1. Busy(p) /\ Over(p) /\ UNCHANGED world /\ copy' = Want /\ Current(turn[p]) /\ quiet # "no"
    BY <1>7 DEF Install, Over, QuietInv
  <2>2. WouldAct
    BY <1>7, <2>1 DEF Install, Current
  <2>3. Settled'
    BY <2>1, <2>2 DEF Settled, RegularDone, WouldAct, world
  <2> QED
    BY <2>1, <2>3, EndsSettled
<1>8. ASSUME NEW p \in Procs, Delete(p) PROVE FALSE
    BY <1>8 DEF Delete, Over, QuietInv, Current
<1>9. ASSUME \/ \E p \in Procs : TurnFails(p)
             \/ \E m \in Saved : SavesMarker(m)
             \/ \E c \in {Absent, Link, Theirs} : SavesFile(c)
             \/ RootGoes \/ RootComes
      PROVE FALSE
    BY <1>9 DEF TurnFails, SavesMarker, SavesFile, RootGoes, RootComes, Intervention
<1>10. ASSUME UNCHANGED gatedVars PROVE QuietInv'
  <2>1. UNCHANGED <<world, copy, turn, quiet>>
    BY <1>10 DEF gatedVars, world
  <2> QED
    BY <2>1 DEF QuietInv, Current, Settled, RegularDone, world
<1> QED
    BY <1>1, <1>2, <1>3, <1>4, <1>5, <1>6, <1>7, <1>8, <1>9, <1>10 DEF GatedNext, Step

\* A busy turn knows a marker there has been and passed every check on its way;
\* a quiet host has turns that go by the world as it is.
THEOREM Inductive == GatedSpec => []IInv
<1>1. GatedInit => IInv
  <2> SUFFICES ASSUME GatedInit PROVE IInv
    OBVIOUS
  <2>1. turn = [p \in Procs |-> Idle] /\ quiet = "no" /\ marker \in Markers /\ there = TRUE
    BY DEF GatedInit, Markers
  <2> QED
    BY <2>1, IdleTurn DEF IInv, TurnsOK, Busy, Entitled, QuietInv
<1>2. IInv /\ [GatedNext]_gatedVars => IInv'
    BY TurnsStay, EntitledStays, QuietStays DEF IInv
<1> QED
    BY <1>1, <1>2, PTL DEF GatedSpec

\* Once a tick ran undisturbed, no tick changes the file again, whatever the
\* row, the marker, the links, and the number of processes.
THEOREM SettledStays == GatedSpec => NoRewriting
<1>1. IInv /\ [GatedNext]_gatedVars => [SettledStep]_gatedVars
  <2> SUFFICES ASSUME IInv, [GatedNext]_gatedVars, quiet = "yes", quiet' = "yes" PROVE copy' = copy
    BY DEF SettledStep
  <2> USE DEF IInv, QuietInv, TurnsOK, Busy, At
  <2>1. ASSUME NEW p \in Procs, Regular(p) PROVE copy' = copy
    BY <2>1 DEF Regular, Current, Settled, RegularDone, Shared
  <2>2. ASSUME NEW p \in Procs, Install(p) \/ Delete(p) PROVE FALSE
    BY <2>2 DEF Install, Delete
  <2>3. ASSUME \/ \E m \in Saved : SavesMarker(m)
               \/ \E c \in {Absent, Link, Theirs} : SavesFile(c)
               \/ RootGoes \/ RootComes
        PROVE FALSE
    BY <2>3 DEF SavesMarker, SavesFile, RootGoes, RootComes, Intervention
  <2> QED
    BY <2>1, <2>2, <2>3
    DEF GatedNext, Step, Begin, NoMarker, ReadMarker, Inactive, Resolve, NothingToDo, Look, Recheck,
        RecheckFails, TurnFails, gatedVars
<1> QED
    BY <1>1, Inductive, PTL DEF GatedSpec, NoRewriting

\* After the regular tool's step a turn changes the file where it renames.
LEMMA WritesAtRename ==
    ASSUME IInv, [GatedNext]_gatedVars, NEW r \in Procs,
           turn[r].pc # "regular", turn'[r] # turn[r], copy' # copy, there'
    PROVE  turn[r].pc = "rename"
<1> USE DEF IInv, TurnsOK, At
<1>1. ASSUME NEW p \in Procs, Regular(p) PROVE FALSE
    BY <1>1 DEF Regular
<1>2. ASSUME NEW p \in Procs, Install(p) \/ Delete(p) PROVE p = r /\ turn[p].pc = "rename"
    BY <1>2 DEF Install, Delete, Over
<1>3. ASSUME \/ \E m \in Saved : SavesMarker(m)
             \/ \E c \in {Absent, Link, Theirs} : SavesFile(c)
             \/ RootGoes \/ RootComes
      PROVE FALSE
    BY <1>3 DEF SavesMarker, SavesFile, RootGoes, RootComes
<1> QED
    BY <1>1, <1>2, <1>3
    DEF GatedNext, Step, Begin, NoMarker, ReadMarker, Inactive, Resolve, NothingToDo, Look, Recheck,
        RecheckFails, TurnFails, gatedVars

-----------------------------------------------------------------------------
\* What is written below the root is there to be written to.
Rooted(t) == /\ t.pc \in {"write", "rename"} => there
             /\ t.kind = "uninstall" => ~t.taken
             /\ t.pc \in {"look", "write", "rename"} => ~t.taken

TypeInv == /\ marker.kind \in MarkerKinds
           /\ edits \in Nat
           /\ ~there => copy = Absent
           /\ copy \in {Absent, Link, Theirs, Copy(src), Want}
           /\ \A p \in Procs : Rooted(turn[p])

LEMMA TypeStays == IInv /\ TypeInv /\ [GatedNext]_gatedVars => TypeInv'
<1> SUFFICES ASSUME IInv, TypeInv, [GatedNext]_gatedVars PROVE TypeInv'
    OBVIOUS
<1> USE IdleTurn, WorldDecides DEF IInv, TurnsOK, Turns, Busy, At, TypeInv, Rooted
<1>1. ASSUME NEW p \in Procs, NEW k \in {"tick", "uninstall"}, Begin(p, k) PROVE TypeInv'
  <2>1. turn[p] = Idle /\ Idle.taken = FALSE
    BY <1>1 DEF Begin, Idle
  <2> QED
    BY <1>1, <2>1 DEF Begin, world
<1>2. ASSUME NEW p \in Procs, Regular(p) PROVE TypeInv'
  <2> DEFINE taken == turn[p].kind = "tick" /\ there /\ Shared(row)
  <2>1. turn' = [turn EXCEPT ![p].pc = "marker", ![p].taken = taken] /\ UNCHANGED <<world, quiet>>
    BY <1>2 DEF Regular
  <2>2. copy' \in {copy, Copy(src), Absent} /\ (~there => copy' = copy)
    BY <1>2 DEF Regular
  <2>3. taken \in BOOLEAN /\ (turn[p].kind = "uninstall" => ~taken)
    OBVIOUS
  <2> HIDE DEF taken
  <2> QED
    BY <2>1, <2>2, <2>3 DEF world
<1>3. ASSUME NEW p \in Procs, NoMarker(p) \/ Inactive(p) \/ NothingToDo(p) \/ RecheckFails(p) \/ TurnFails(p)
      PROVE TypeInv'
    BY <1>3 DEF NoMarker, Inactive, NothingToDo, RecheckFails, TurnFails, Over, Idle, world
<1>4. ASSUME NEW p \in Procs, ReadMarker(p) PROVE TypeInv'
    BY <1>4 DEF ReadMarker, world
<1>5. ASSUME NEW p \in Procs, Resolve(p) PROVE TypeInv'
    BY <1>5 DEF Resolve, Active, Goto, world
<1>6. ASSUME NEW p \in Procs, Look(p) \/ Recheck(p) PROVE TypeInv'
    BY <1>6 DEF Look, Recheck, ToDo, Goto, world
<1>7. ASSUME NEW p \in Procs, Install(p) \/ Delete(p) PROVE TypeInv'
    BY <1>7 DEF Install, Delete, Over, Idle, world
<1>8. ASSUME NEW m \in Saved, SavesMarker(m) PROVE TypeInv'
    BY <1>8, HostsAssumption DEF SavesMarker, Intervention, Want, Copy, IsMarker
<1>9. ASSUME NEW c \in {Absent, Link, Theirs}, SavesFile(c) PROVE TypeInv'
    BY <1>9 DEF SavesFile, Intervention, Want, Copy
<1>10. ASSUME RootGoes PROVE TypeInv'
    BY <1>10 DEF RootGoes, Intervention, Idle
<1>11. ASSUME RootComes PROVE TypeInv'
    BY <1>11 DEF RootComes, Intervention, Want, Copy
<1>12. ASSUME UNCHANGED gatedVars PROVE TypeInv'
    BY <1>12 DEF gatedVars, world
<1> QED
    BY <1>1, <1>2, <1>3, <1>4, <1>5, <1>6, <1>7, <1>8, <1>9, <1>10, <1>11, <1>12 DEF GatedNext, Step

\* Every variable keeps its type: nothing is written below a root that is
\* gone, and no turn gets past its checks with a marker that does not parse.
THEOREM TypeCorrect == GatedSpec => []GatedTypeOK
<1>1. GatedInit => TypeInv
    BY HostsAssumption DEF GatedInit, TypeInv, Rooted, Idle, IsMarker
<1>2. IInv /\ TypeInv => GatedTypeOK
    BY DEF IInv, TurnsOK, Turns, TypeInv, Rooted, Entitled, Attests, GatedTypeOK
<1> QED
    BY <1>1, <1>2, TypeStays, Inductive, PTL DEF GatedSpec
-----------------------------------------------------------------------------
(***************************************************************************)
(* What a marker that parses says, and what a cleaned path is.  Both are   *)
(* recursive functions, so both proofs go by induction on the prefix.      *)
(***************************************************************************)
\* The recursion of a marker's parsing: what is known after each line.
ParseFrom(lines) ==
    CHOOSE f : f = [i \in 0..Len(lines) |-> IF i = 0 THEN Nothing ELSE ParseLine(f[i - 1], lines[i])]

\* The strings; the provers are told of the two literals that they are strings.
Words == STRING \cup {"", "skills_dir"}
Declarations == [dir : Paths, format : Words, seen : SUBSET Words, ok : BOOLEAN]

LEMMA ParsedIsParseFrom ==
    \A m : Parsed(m) = IF m.kind = "odd" THEN [Nothing EXCEPT !.ok = FALSE]
                       ELSE ParseFrom(m.lines)[Len(m.lines)]
BY DEF Parsed, ParseFrom

LEMMA NothingTyped == Nothing \in Declarations
<1>1. <<>> \in Seq(STRING)
    OBVIOUS
<1>2. NoPath \in Paths
    BY <1>1 DEF NoPath, Paths
<1> QED
    BY <1>2 DEF Nothing, Declarations, Words

LEMMA KeysAreWords == \A l \in Lines : l.is = "set" => l.key \in Words
BY DEF Lines, Words

\* One line makes a declaration of a declaration.
LEMMA ParseLineTyped == \A m \in Declarations, l \in Lines : ParseLine(m, l) \in Declarations
<1> SUFFICES ASSUME NEW m \in Declarations, NEW l \in Lines PROVE ParseLine(m, l) \in Declarations
    OBVIOUS
<1>1. CASE ~m.ok \/ l.is = "skip"
    BY <1>1 DEF ParseLine
<1>2. [Nothing EXCEPT !.ok = FALSE] \in Declarations
    BY NothingTyped DEF Declarations
<1>3. CASE m.ok /\ l.is # "skip" /\ (l.is = "bare" \/ l.key \in m.seen)
    BY <1>2, <1>3 DEF ParseLine
<1>4. CASE m.ok /\ l.is = "set" /\ l.key \notin m.seen
  <2> DEFINE n == [m EXCEPT !.seen = @ \cup {l.key}]
  <2>1. n \in Declarations
    <3>1. l.key \in Words
      BY <1>4, KeysAreWords
    <3> QED
      BY <3>1 DEF Declarations
  <2>2. l.key = "skills_dir" => l.value \in Paths
    BY <1>4 DEF Lines
  <2>3. l.key # "skills_dir" => l.value \in Words
    BY <1>4 DEF Lines, Words
  <2>4. ParseLine(m, l) = CASE l.key = "skills_dir" -> [n EXCEPT !.dir = l.value]
                            [] l.key = "skill_format" -> [n EXCEPT !.format = l.value]
                            [] OTHER -> n
    BY <1>4 DEF ParseLine
  <2> HIDE DEF n
  <2> QED
    BY <2>1, <2>2, <2>3, <2>4 DEF Declarations
<1> QED
    BY <1>1, <1>3, <1>4 DEF Lines

\* The recursion has a solution, so it is what it says line by line.
LEMMA ParseFromUnfolds ==
    ASSUME NEW lines \in Seq(Lines)
    PROVE  \A i \in 0..Len(lines) :
             ParseFrom(lines)[i] = IF i = 0 THEN Nothing ELSE ParseLine(ParseFrom(lines)[i - 1], lines[i])
<1> DEFINE n == Len(lines)
           G == [s \in Declarations \X (1..n) |-> ParseLine(s[1], lines[s[2]])]
<1>1. n \in Nat /\ \A i \in 1..n : lines[i] \in Lines
    OBVIOUS
<1>2. \A m \in Declarations, i \in 1..n : G[<<m, i>>] = ParseLine(m, lines[i])
    OBVIOUS
<1>3. G \in [Declarations \X (1..n) -> Declarations]
    BY <1>1, ParseLineTyped
<1> HIDE DEF n, G
<1>4. PICK f \in [0..n -> Declarations] : Recurs(f, n, Nothing, G)
    BY <1>1, <1>3, NothingTyped, RecursionSolved
<1>5. ASSUME NEW i \in 0..n PROVE f[i] = IF i = 0 THEN Nothing ELSE ParseLine(f[i - 1], lines[i])
    <2>1. i # 0 => i \in 1..n /\ i - 1 \in 0..n
        BY <1>1
    <2> QED BY <1>2, <1>4, <2>1 DEF Recurs
<1>6. f = [i \in 0..n |-> IF i = 0 THEN Nothing ELSE ParseLine(f[i - 1], lines[i])]
    BY <1>5
<1>7. ParseFrom(lines) = [i \in 0..n |-> IF i = 0 THEN Nothing ELSE ParseLine(ParseFrom(lines)[i - 1], lines[i])]
    BY <1>6 DEF ParseFrom, n
<1> QED BY <1>7 DEF n

\* What a declaration that is in order says about the lines it was read from.
Faithful(m, lines, i) ==
    m.ok => /\ \A j \in 1..i : lines[j].is # "bare"
            /\ \A j \in 1..i : lines[j].is = "set" => lines[j].key \in m.seen
            /\ \A j, k \in 1..i : lines[j].is = "set" /\ lines[k].is = "set" /\ j # k
                                  => lines[j].key # lines[k].key
            /\ m.dir # NoPath => \E j \in 1..i : /\ lines[j].is = "set" /\ lines[j].key = "skills_dir"
                                                 /\ lines[j].value = m.dir
            /\ m.format # "" => \E j \in 1..i : /\ lines[j].is = "set" /\ lines[j].key = "skill_format"
                                                /\ lines[j].value = m.format

LEMMA ParseLineFaithful ==
    ASSUME NEW lines \in Seq(Lines), NEW i \in 1..Len(lines), NEW m \in Declarations,
           Faithful(m, lines, i - 1)
    PROVE  Faithful(ParseLine(m, lines[i]), lines, i)
<1> DEFINE l == lines[i]
           o == ParseLine(m, l)
<1> SUFFICES ASSUME o.ok PROVE Faithful(o, lines, i)
    BY DEF Faithful
<1>1. l \in Lines /\ i \in Nat /\ i # 0 /\ 1..i = (1..(i - 1)) \cup {i} /\ i \notin 1..(i - 1)
    OBVIOUS
<1>2. m.ok /\ l.is # "bare"
    BY <1>1 DEF ParseLine, Nothing
<1>3. CASE l.is = "skip"
  <2>1. o = m
    BY <1>3 DEF ParseLine
  <2> QED
    BY <1>1, <1>2, <1>3, <2>1 DEF Faithful
<1>4. CASE l.is = "set"
  <2>1. l.key \notin m.seen
    BY <1>2, <1>4 DEF ParseLine, Nothing
  <2> DEFINE n == [m EXCEPT !.seen = @ \cup {l.key}]
  <2>2. n.dir = m.dir /\ n.format = m.format /\ n.seen = m.seen \cup {l.key} /\ n \in Declarations
    <3>1. l.key \in Words
      BY <1>1, <1>4, KeysAreWords
    <3> HIDE DEF l
    <3> QED BY <3>1 DEF Declarations
  <2>3. o = CASE l.key = "skills_dir" -> [n EXCEPT !.dir = l.value]
              [] l.key = "skill_format" -> [n EXCEPT !.format = l.value]
              [] OTHER -> n
    BY <1>2, <1>4, <2>1 DEF ParseLine
  <2> HIDE DEF n, o
  <2>4. /\ o.seen = m.seen \cup {l.key}
        /\ o.dir = IF l.key = "skills_dir" THEN l.value ELSE m.dir
        /\ o.format = IF l.key = "skill_format" THEN l.value ELSE m.format
    BY <2>2, <2>3 DEF Declarations
  <2>5. /\ \A j \in 1..i : lines[j].is # "bare"
        /\ \A j \in 1..i : lines[j].is = "set" => lines[j].key \in o.seen
    BY <1>1, <1>2, <2>4 DEF Faithful
  <2>6. \A j, k \in 1..i : lines[j].is = "set" /\ lines[k].is = "set" /\ j # k => lines[j].key # lines[k].key
    BY <1>1, <1>2, <2>1 DEF Faithful
  <2>7. o.dir # NoPath => \E j \in 1..i : lines[j].is = "set" /\ lines[j].key = "skills_dir" /\ lines[j].value = o.dir
    BY <1>1, <1>2, <1>4, <2>4 DEF Faithful
  <2>8. o.format # "" => \E j \in 1..i : lines[j].is = "set" /\ lines[j].key = "skill_format" /\ lines[j].value = o.format
    BY <1>1, <1>2, <1>4, <2>4 DEF Faithful
  <2> QED
    BY <2>5, <2>6, <2>7, <2>8 DEF Faithful
<1> QED
    BY <1>1, <1>2, <1>3, <1>4 DEF Lines

\* By induction on the lines: a marker that parses says what was taken from it.
LEMMA ParsedFaithful ==
    ASSUME NEW lines \in Seq(Lines)
    PROVE  Faithful(ParseFrom(lines)[Len(lines)], lines, Len(lines))
<1> DEFINE n == Len(lines)
           f == ParseFrom(lines)
           P == {i \in 0..n : f[i] \in Declarations /\ Faithful(f[i], lines, i)}
<1>1. n \in Nat /\ \A i \in 1..n : lines[i] \in Lines
    OBVIOUS
<1>2. \A i \in 0..n : f[i] = IF i = 0 THEN Nothing ELSE ParseLine(f[i - 1], lines[i])
    BY ParseFromUnfolds
<1>3. 0 \in P
  <2>1. f[0] = Nothing
    BY <1>1, <1>2
  <2>2. Faithful(Nothing, lines, 0)
    BY DEF Faithful, Nothing
  <2> HIDE DEF f
  <2> QED
    BY <1>1, <2>1, <2>2, NothingTyped
<1>4. ASSUME NEW i \in 0..(n - 1), i \in P PROVE i + 1 \in P
  <2>1. i + 1 \in 1..n /\ i + 1 \in 0..n /\ (i + 1) - 1 = i /\ i + 1 # 0
    BY <1>1
  <2>2. f[i + 1] = ParseLine(f[i], lines[i + 1]) /\ lines[i + 1] \in Lines
    BY <1>1, <1>2, <2>1
  <2>3. f[i] \in Declarations /\ Faithful(f[i], lines, (i + 1) - 1)
    BY <1>4, <2>1
  <2> HIDE DEF f
  <2>4. Faithful(ParseLine(f[i], lines[i + 1]), lines, i + 1)
    BY <2>1, <2>3, ParseLineFaithful
  <2>5. ParseLine(f[i], lines[i + 1]) \in Declarations
    BY <2>2, <2>3, ParseLineTyped
  <2> QED
    BY <2>1, <2>2, <2>4, <2>5
<1> HIDE DEF P, n
<1>5. \A i \in 0..n : i \in P
  <2>1. \A i \in 0..(n - 1) : i \in P => i + 1 \in P
    BY <1>4
  <2> QED
    BY <1>1, <1>3, <2>1, InductionUpTo
<1>6. n \in P
    BY <1>1, <1>5
<1> QED
    BY <1>6 DEF P, n

\* A marker that attests the row is one the package comment describes: there is
\* no line it does not allow, no key twice, and both settings are there.
LEMMA AttestingDocuments ==
    ASSUME NEW m, IsMarker(m), m.kind # "missing", Attests(Parsed(m), row)
    PROVE  Documented(m)
<1> DEFINE d == ParseFrom(m.lines)[Len(m.lines)]
           n == Len(m.lines)
<1>1. m.kind = "lines" /\ Parsed(m) = d
    BY ParsedIsParseFrom DEF IsMarker, MarkerKinds, Attests, Nothing
<1>2. m.lines \in Seq(Lines) /\ n \in Nat /\ DOMAIN m.lines = 1..n
    BY DEF IsMarker
<1>3. Faithful(d, m.lines, n)
    BY <1>2, ParsedFaithful
<1>4. /\ d.ok /\ Absolute(d.dir) /\ d.format = IF row.format = "" THEN "canonical" ELSE row.format
      /\ Canonical(Resolved(d.dir)) = Canonical(Resolved(row.skills))
    BY <1>1 DEF Attests, Format
<1> HIDE DEF d, n
<1>5. d.dir # NoPath /\ d.format # ""
  <2>1. NoPath.from = "" /\ d.dir.from # ""
    BY <1>4 DEF Absolute, NoPath
  <2>2. d.format # ""
    BY <1>4
  <2> QED
    BY <2>1, <2>2
<1>6. PICK i \in 1..n : m.lines[i].is = "set" /\ m.lines[i].key = "skills_dir" /\ m.lines[i].value = d.dir
    BY <1>3, <1>4, <1>5 DEF Faithful
<1>7. PICK j \in 1..n : m.lines[j].is = "set" /\ m.lines[j].key = "skill_format" /\ m.lines[j].value = d.format
    BY <1>3, <1>4, <1>5 DEF Faithful
<1>8. /\ \A k \in 1..n : m.lines[k].is # "bare"
      /\ \A k, l \in 1..n : m.lines[k].is = "set" /\ m.lines[l].is = "set" /\ k # l
                            => m.lines[k].key # m.lines[l].key
    BY <1>3, <1>4 DEF Faithful
<1> QED
    BY <1>1, <1>2, <1>4, <1>6, <1>7, <1>8 DEF Documented

\* One name makes a path of a path.
LEMMA EnterTyped == ASSUME NEW S, NEW q \in Seq(S), NEW e \in S PROVE Enter(q, e) \in Seq(S)
<1>1. q # <<>> => Front(q) \in Seq(S)
    BY DEF Front
<1>2. Append(q, e) \in Seq(S)
    OBVIOUS
<1> QED
    BY <1>1, <1>2 DEF Enter

\* A clean path is a sequence of names.
LEMMA CleanTyped == \A s \in Seq(STRING) : Clean(s) \in Seq(STRING)
<1> SUFFICES ASSUME NEW s \in Seq(STRING) PROVE Clean(s) \in Seq(STRING)
    OBVIOUS
<1> DEFINE X == Seq(STRING)
           n == Len(s)
           G == [a \in X \X (1..n) |-> Enter(a[1], s[a[2]])]
           C == CHOOSE f : f = [i \in 0..n |-> IF i = 0 THEN <<>> ELSE Enter(f[i - 1], s[i])]
<1>1. n \in Nat /\ (\A i \in 1..n : s[i] \in STRING) /\ <<>> \in X
    OBVIOUS
<1>2. ASSUME NEW q \in X, NEW e \in STRING PROVE Enter(q, e) \in X
    BY EnterTyped
<1>3. Clean(s) = C[n]
    BY DEF Clean
<1>4. G \in [X \X (1..n) -> X]
  <2> HIDE DEF X, n
  <2> QED
    BY <1>1, <1>2
<1>5. \A q \in X, i \in 1..n : G[<<q, i>>] = Enter(q, s[i])
    OBVIOUS
<1> HIDE DEF X, n, G
<1>6. PICK f \in [0..n -> X] : Recurs(f, n, <<>>, G)
    BY <1>1, <1>4, RecursionSolved
<1>7. ASSUME NEW i \in 0..n PROVE f[i] = IF i = 0 THEN <<>> ELSE Enter(f[i - 1], s[i])
    <2>1. i # 0 => i \in 1..n /\ i - 1 \in 0..n
        BY <1>1
    <2> QED BY <1>5, <1>6, <2>1 DEF Recurs
<1>8. f = [i \in 0..n |-> IF i = 0 THEN <<>> ELSE Enter(f[i - 1], s[i])]
    BY <1>7
<1>9. C = [i \in 0..n |-> IF i = 0 THEN <<>> ELSE Enter(C[i - 1], s[i])]
    BY <1>8
<1> DEFINE P == {i \in 0..n : C[i] \in X}
<1> HIDE DEF C
<1>10. 0 \in P
    BY <1>1, <1>9
<1>11. ASSUME NEW i \in 0..(n - 1), i \in P PROVE i + 1 \in P
    <2>1. i + 1 \in 1..n /\ i + 1 \in 0..n /\ (i + 1) - 1 = i /\ i + 1 # 0
        BY <1>1
    <2>2. C[i + 1] = Enter(C[i], s[i + 1]) /\ s[i + 1] \in STRING /\ C[i] \in X
        BY <1>1, <1>9, <1>11, <2>1
    <2> QED BY <1>2, <2>1, <2>2
<1> HIDE DEF P
<1>12. \A i \in 0..n : i \in P
  <2>1. \A i \in 0..(n - 1) : i \in P => i + 1 \in P
    BY <1>11
  <2> QED
    BY <1>1, <1>10, <2>1, InductionUpTo
<1>13. n \in P
    BY <1>1, <1>12
<1> QED
    BY <1>3, <1>13 DEF P, X

LEMMA ResolvedTyped == \A p \in Paths : Resolved(p) \in Seq(STRING)
<1> SUFFICES ASSUME NEW p \in Paths PROVE Resolved(p) \in Seq(STRING)
    OBVIOUS
<1>1. (IF p.from = "~" THEN Home \o p.to ELSE p.to) \in Seq(STRING)
  <2>1. p.to \in Seq(STRING) /\ Home \in Seq(STRING)
    BY HostsAssumption DEF Paths
  <2>2. Home \o p.to \in Seq(STRING)
    BY <2>1
  <2> QED
    BY <2>1, <2>2
<1> QED
    BY <1>1, CleanTyped DEF Resolved

\* The skill file is below the root when the skills directory is.
LEMMA SkillFileBelowRoot ==
    ASSUME row.root \in Paths, row.skills \in Paths, TargetOK(row)
    PROVE  IsStrictPrefix(Resolved(row.root), SkillFile(row))
<1> DEFINE r == Resolved(row.root)
           s == Resolved(row.skills)
           x == <<"pilot-protocol", "SKILL.md">>
<1>1. r \in Seq(STRING) /\ s \in Seq(STRING)
    BY ResolvedTyped
<1>2. IsPrefix(r, s)
    BY DEF TargetOK
<1>3. SkillFile(row) = s \o x
    BY DEF SkillFile
<1> HIDE DEF r, s
<1>4. Len(s \o x) = Len(s) + 2 /\ Len(r) <= Len(s) /\ Len(r) \in Nat /\ Len(s) \in Nat
    BY <1>1, <1>2 DEF IsPrefix
<1>5. SubSeq(s \o x, 1, Len(r)) = SubSeq(s, 1, Len(r))
    BY <1>1, <1>4
<1>6. s \o x # r
    BY <1>4
<1> QED
    BY <1>2, <1>3, <1>4, <1>5, <1>6 DEF IsStrictPrefix, IsPrefix, r
-----------------------------------------------------------------------------
\* A turn that passed its checks has the grounds the package comment asks for;
\* one that is about to check them knows the marker they are in.
Grounded(t) ==
    /\ t.pc = "resolve" => \E m \in Markers : /\ m.kind # "missing"
                                              /\ t.decl = Parsed(m) /\ t.grounds = Documented(m)
    /\ t.pc \in {"look", "write", "rename"} => t.grounds

GroundsInv == /\ row.root \in Paths /\ row.skills \in Paths
              /\ \A p \in Procs : Grounded(turn[p])

LEMMA MarkersTyped == \A m \in Markers : IsMarker(m)
BY HostsAssumption DEF Markers

LEMMA GroundsStay == IInv /\ GroundsInv /\ [GatedNext]_gatedVars => GroundsInv'
<1> SUFFICES ASSUME IInv, GroundsInv, [GatedNext]_gatedVars PROVE GroundsInv'
    OBVIOUS
<1>1. UNCHANGED row
    BY DEF GatedNext, Step, Begin, Regular, NoMarker, ReadMarker, Inactive, Resolve, NothingToDo, Look, Recheck,
           RecheckFails, Install, Delete, TurnFails, SavesMarker, SavesFile, RootGoes, RootComes, Intervention,
           Goto, world, gatedVars
<1>2. \A m : Documented(m)' = Documented(m)
    BY <1>1 DEF Documented
<1> SUFFICES ASSUME NEW r \in Procs PROVE Grounded(turn[r])'
    BY <1>1 DEF GroundsInv
<1> USE IdleTurn DEF IInv, TurnsOK, Turns, Busy, At
<1>3. Grounded(turn[r])
    BY DEF GroundsInv
<1>4. CASE turn'[r] = turn[r]
    BY <1>2, <1>3, <1>4 DEF Grounded
<1>5. CASE turn'[r].pc \notin {"resolve", "look", "write", "rename"}
    BY <1>5 DEF Grounded
<1>6. ASSUME ReadMarker(r) PROVE Grounded(turn[r])'
  <2>1. /\ turn'[r].pc = "resolve" /\ marker \in Markers /\ marker.kind # "missing"
        /\ turn'[r].decl = Parsed(marker) /\ turn'[r].grounds = Documented(marker)
    BY <1>6 DEF ReadMarker
  <2> QED
    BY <1>2, <2>1 DEF Grounded
<1>7. ASSUME Resolve(r) PROVE Grounded(turn[r])'
  <2>1. turn[r].pc = "resolve" /\ Attests(turn[r].decl, row) /\ turn'[r].pc = "look" /\ turn'[r].grounds = turn[r].grounds
    BY <1>7 DEF Resolve, Active, Goto
  <2>2. PICK m \in Markers : m.kind # "missing" /\ turn[r].decl = Parsed(m) /\ turn[r].grounds = Documented(m)
    BY <1>3, <2>1 DEF Grounded
  <2>3. Documented(m)
    BY <2>1, <2>2, MarkersTyped, AttestingDocuments
  <2> QED
    BY <2>1, <2>2, <2>3 DEF Grounded
<1>8. ASSUME Look(r) \/ Recheck(r) PROVE Grounded(turn[r])'
    BY <1>3, <1>8 DEF Look, Recheck, Goto, Grounded
<1>9. ASSUME NEW p \in Procs,
             \/ \E k \in {"tick", "uninstall"} : Begin(p, k)
             \/ Regular(p) \/ Over(p) \/ TurnFails(p)
             \/ p # r /\ (ReadMarker(p) \/ Resolve(p) \/ Look(p) \/ Recheck(p))
      PROVE turn'[r] = turn[r] \/ turn'[r].pc \notin {"resolve", "look", "write", "rename"}
    BY <1>9 DEF Begin, Regular, Over, TurnFails, ReadMarker, Resolve, Look, Recheck, Goto
<1>10. ASSUME \/ \E m \in Saved : SavesMarker(m)
              \/ \E c \in {Absent, Link, Theirs} : SavesFile(c)
              \/ RootGoes \/ RootComes \/ UNCHANGED gatedVars
       PROVE turn'[r] = turn[r] \/ turn'[r].pc \notin {"resolve", "look", "write", "rename"}
    BY <1>10 DEF SavesMarker, SavesFile, RootGoes, RootComes, Intervention, gatedVars
<1> QED
    BY <1>4, <1>5, <1>6, <1>7, <1>8, <1>9, <1>10
    DEF GatedNext, Step, NoMarker, Inactive, NothingToDo, RecheckFails, Install, Delete

\* The package comment's promise, for any marker, row, links, home directory
\* and number of processes: a turn changes the file below its root only if the
\* marker it read is line for line what the comment describes, the marker is
\* below ~/.pilot, the root in the home directory and the file below the root.
THEOREM AttestedOnly == GatedSpec => OnlyAttested
<1>1. GatedInit => GroundsInv
    BY HostsAssumption DEF GatedInit, GroundsInv, Grounded, Idle
<1>2. IInv /\ GroundsInv /\ [GatedNext]_gatedVars => [AttestedStep]_gatedVars
  <2> SUFFICES ASSUME IInv, GroundsInv, [GatedNext]_gatedVars, NEW r \in Procs,
                      turn[r].pc # "regular", turn'[r] # turn[r], copy' # copy, there'
               PROVE /\ turn[r].grounds
                     /\ IsStrictPrefix(Append(Home, ".pilot"), Resolved(row.marker))
                     /\ IsStrictPrefix(Resolved(row.root), SkillFile(row))
                     /\ IsStrictPrefix(Home, Resolved(row.root))
    BY DEF AttestedStep
  <2>1. turn[r].pc = "rename"
    BY WritesAtRename
  <2>2. turn[r].grounds
    BY <2>1 DEF GroundsInv, Grounded
  <2>3. MarkerPathOK(row) /\ TargetOK(row)
    BY <2>1 DEF IInv, Entitled
  <2>4. IsStrictPrefix(Resolved(row.root), SkillFile(row))
    BY <2>3, SkillFileBelowRoot DEF GroundsInv
  <2> QED
    BY <2>2, <2>3, <2>4 DEF MarkerPathOK, TargetOK
<1> QED
    BY <1>1, <1>2, GroundsStay, Inductive, PTL DEF GatedSpec, OnlyAttested
-----------------------------------------------------------------------------
(***************************************************************************)
(* The scans of SkillFormat, each by its first character or two.           *)
(***************************************************************************)
\* ReplacePair's recursive function.
PairFrom(s, a, b, new) ==
    CHOOSE From : From = [i \in 1..Len(s) + 1 |->
          IF i > Len(s) THEN <<>>
          ELSE IF i < Len(s) /\ s[i] = a /\ s[i+1] = b THEN new \o From[i+2]
          ELSE <<s[i]>> \o From[i+1]]

PairOne(S) == [c \in S |-> <<c>> \o <<>>]
PairTwo(S, a, b, new) ==
    [x \in S \X S \X Seq(S) \X Seq(S) |-> IF x[1] = a /\ x[2] = b THEN new \o x[4] ELSE <<x[1]>> \o x[3]]

\* The replacement of a pair is a scan, for characters of any set.
LEMMA PairScan ==
    ASSUME NEW S, NEW a, NEW b, NEW new \in Seq(S)
    PROVE  /\ ScanRules(S, Seq(S), <<>>, PairOne(S), PairTwo(S, a, b, new))
           /\ \A s \in Seq(S) :
                 ReplacePair(s, a, b, new) = Scanned(s, <<>>, PairOne(S), PairTwo(S, a, b, new))
<1> DEFINE X == Seq(S)
           one == PairOne(S)
           two == PairTwo(S, a, b, new)
<1>1. <<>> \in X
    OBVIOUS
<1>2. one \in [S -> X] /\ \A c \in S : one[c] = <<c>> \o <<>>
    <2>1. \A c \in S : <<c>> \o <<>> \in X
        OBVIOUS
    <2> QED BY <2>1 DEF PairOne
<1>3. \A c \in S, d \in S, x \in X, y \in X :
         two[<<c, d, x, y>>] = IF c = a /\ d = b THEN new \o y ELSE <<c>> \o x
    BY DEF PairTwo
<1>4. two \in [S \X S \X X \X X -> X]
    <2>1. \A c \in S, x \in X : <<c>> \o x \in X /\ new \o x \in X
        OBVIOUS
    <2>2. two = [x \in S \X S \X X \X X |-> IF x[1] = a /\ x[2] = b THEN new \o x[4] ELSE <<x[1]>> \o x[3]]
        BY DEF PairTwo
    <2> HIDE DEF X, two
    <2> QED BY <2>1, <2>2
<1> HIDE DEF one, two
<1>5. ScanRules(S, X, <<>>, one, two)
    BY <1>1, <1>2, <1>4, ScannedValue
<1>6. ASSUME NEW s \in X PROVE ReplacePair(s, a, b, new) = Scanned(s, <<>>, one, two)
    <2> DEFINE n == Len(s)
               F == PairFrom(s, a, b, new)
               Body(f, i) == IF i < n /\ s[i] = a /\ s[i+1] = b THEN new \o f[i+2] ELSE <<s[i]>> \o f[i+1]
               Solves(f) == f = [i \in 1..n + 1 |-> IF i > n THEN <<>> ELSE Body(f, i)]
    <2>1. n \in Nat /\ \A i \in 1..n : s[i] \in S
        OBVIOUS
    <2> HIDE DEF X
    <2>2. ASSUME NEW f, f[n + 1] = <<>>, NEW i \in 1..n, f[i + 1] \in X, i # n => f[i + 2] \in X
          PROVE  Body(f, i) = ScanStep(f, s, i, one, two)
        <3>1. CASE i = n
            <4>1. ~(i < n) /\ s[i] \in S /\ f[i + 1] = <<>>
                BY <2>1, <2>2, <3>1
            <4>2. ScanStep(f, s, i, one, two) = one[s[i]]
                BY <3>1 DEF ScanStep
            <4> QED BY <1>2, <4>1, <4>2
        <3>2. CASE i # n
            <4>1. i < n /\ s[i] \in S /\ s[i + 1] \in S /\ f[i + 2] \in X
                BY <2>1, <2>2, <3>2
            <4>2. ScanStep(f, s, i, one, two) = two[<<s[i], s[i + 1], f[i + 1], f[i + 2]>>]
                BY <3>2 DEF ScanStep
            <4> QED BY <1>3, <2>2, <4>1, <4>2
        <3> QED BY <3>1, <3>2
    <2>3. ReplacePair(s, a, b, new) = F[1] /\ F = CHOOSE f : Solves(f)
        BY DEF ReplacePair, PairFrom
    <2> HIDE DEF Body, F
    <2>4. PICK f \in [1..(n + 1) -> X] : BackScan(f, s, <<>>, one, two)
        BY <1>1, <1>2, <1>4, BackScanExists DEF X
    <2> HIDE DEF n
    <2>5. Solves(f)
        <3>1. f[n + 1] = <<>> /\ \A i \in 1..n : f[i] = ScanStep(f, s, i, one, two)
            BY <2>4 DEF BackScan, n
        <3>2. ASSUME NEW i \in 1..n PROVE f[i] = Body(f, i)
            <4>1. f[i + 1] \in X /\ (i # n => f[i + 2] \in X)
                BY <2>1, <2>4
            <4> QED BY <2>2, <3>1, <4>1
        <3>3. \A i \in 1..(n + 1) : f[i] = IF i > n THEN <<>> ELSE Body(f, i)
            <4>1. \A i \in 1..(n + 1) : (i = n + 1 /\ i > n) \/ (i \in 1..n /\ ~(i > n))
                BY <2>1
            <4> QED BY <3>1, <3>2, <4>1
        <3> QED BY <2>4, <3>3
    <2>6. Solves(F)
        <3> HIDE DEF Solves
        <3> QED BY <2>3, <2>5
    <2>7. /\ F[n + 1] = <<>>
          /\ \A i \in 1..n : F[i] = Body(F, i)
        <3>1. n + 1 \in 1..(n + 1) /\ n + 1 > n /\ \A i \in 1..n : i \in 1..(n + 1) /\ ~(i > n)
            BY <2>1
        <3> QED BY <2>6, <3>1
    <2>8. Scanning(F, s, X, <<>>, one, two)
        BY <2>2, <2>7 DEF Scanning, n
    <2>9. BackScan(F, s, <<>>, one, two)
        BY <1>1, <1>2, <1>4, <2>8, ScanningScans DEF X
    <2> QED BY <1>5, <2>3, <2>9 DEF ScanRules, X
<1> QED BY <1>5, <1>6 DEF one, two
-----------------------------------------------------------------------------
\* Squeezed before the trimming.
CollapsedFrom(s) ==
    CHOOSE From : From = [i \in 1..Len(s) + 1 |->
          IF i > Len(s) THEN <<>>
          ELSE IF s[i] = Control \/ (s[i] = Blank /\ From[i+1] # <<>> /\ From[i+1][1] = Blank)
               THEN From[i+1] ELSE <<s[i]>> \o From[i+1]]
Collapsed(s) == CollapsedFrom(s)[1]

Kept(c, x) == IF c = Control \/ (c = Blank /\ x # <<>> /\ x[1] = Blank) THEN x ELSE <<c>> \o x

\* A character before a squeezed text, unless it goes.
LEMMA KeptTyped ==
    ASSUME NEW S
    PROVE  <<>> \in Seq(S) /\ \A c \in S, x \in Seq(S) : Kept(c, x) \in Seq(S)
<1>1. \A c \in S, x \in Seq(S) : <<c>> \o x \in Seq(S)
    OBVIOUS
<1> QED BY <1>1 DEF Kept

KeptOne(S) == [c \in S |-> Kept(c, <<>>)]
KeptTwo(S) == [z \in S \X S \X Seq(S) \X Seq(S) |-> Kept(z[1], z[3])]

\* The squeezing is a scan.
LEMMA CollapsedScan ==
    ASSUME NEW S
    PROVE  /\ ScanRules(S, Seq(S), <<>>, KeptOne(S), KeptTwo(S))
           /\ \A s \in Seq(S) : Collapsed(s) = Scanned(s, <<>>, KeptOne(S), KeptTwo(S))
<1> DEFINE X == Seq(S)
           one == KeptOne(S)
           two == KeptTwo(S)
<1>1. <<>> \in X
    BY KeptTyped
<1>2. one \in [S -> X] /\ \A c \in S : one[c] = Kept(c, <<>>)
    <2>1. \A c \in S : Kept(c, <<>>) \in X
        BY KeptTyped
    <2> QED BY <2>1 DEF KeptOne
<1>3. \A c \in S, d \in S, x \in X, y \in X : two[<<c, d, x, y>>] = Kept(c, x)
    BY DEF KeptTwo
<1>4. two \in [S \X S \X X \X X -> X]
    <2>1. \A c \in S, d \in S, x \in X, y \in X : Kept(c, x) \in X
        BY KeptTyped
    <2>2. two = [z \in S \X S \X X \X X |-> Kept(z[1], z[3])]
        BY DEF KeptTwo
    <2>3. \A z \in S \X S \X X \X X : Kept(z[1], z[3]) \in X
        <3> HIDE DEF X
        <3> QED BY <2>1
    <2> HIDE DEF X, two
    <2> QED BY <2>2, <2>3
<1> HIDE DEF one, two
<1>5. ScanRules(S, X, <<>>, one, two)
    BY <1>1, <1>2, <1>4, ScannedValue
<1>6. ASSUME NEW s \in Seq(S) PROVE Collapsed(s) = Scanned(s, <<>>, one, two)
    <2> DEFINE n == Len(s)
               F == CollapsedFrom(s)
               Body(f, i) == Kept(s[i], f[i + 1])
               Solves(f) == f = [i \in 1..n + 1 |-> IF i > n THEN <<>> ELSE Body(f, i)]
    <2>1. n \in Nat /\ \A i \in 1..n : s[i] \in S
        OBVIOUS
    <2> HIDE DEF X
    <2>2. ASSUME NEW f, f[n + 1] = <<>>, NEW i \in 1..n, f[i + 1] \in X, i # n => f[i + 2] \in X
          PROVE  Body(f, i) = ScanStep(f, s, i, one, two)
        <3>1. CASE i = n
            <4>1. ~(i < n) /\ s[i] \in S /\ f[i + 1] = <<>>
                BY <2>1, <2>2, <3>1
            <4>2. ScanStep(f, s, i, one, two) = one[s[i]]
                BY <3>1 DEF ScanStep
            <4>3. Body(f, i) = one[s[i]]
                BY <1>2, <3>1, <4>1 DEF Body
            <4> HIDE DEF Body
            <4> QED BY <4>2, <4>3
        <3>2. CASE i # n
            <4>1. i < n /\ s[i] \in S /\ s[i + 1] \in S /\ f[i + 2] \in X
                BY <2>1, <2>2, <3>2
            <4>2. ScanStep(f, s, i, one, two) = two[<<s[i], s[i + 1], f[i + 1], f[i + 2]>>]
                BY <3>2 DEF ScanStep
            <4>3. Body(f, i) = two[<<s[i], s[i + 1], f[i + 1], f[i + 2]>>]
                BY <1>3, <2>2, <3>2, <4>1 DEF Body
            <4> HIDE DEF Body
            <4> QED BY <4>2, <4>3
        <3> QED BY <3>1, <3>2
    <2>3. Collapsed(s) = F[1] /\ F = CHOOSE f : Solves(f)
        BY DEF Collapsed, CollapsedFrom, Kept
    <2> HIDE DEF Body, F
    <2>4. PICK f \in [1..(n + 1) -> X] : BackScan(f, s, <<>>, one, two)
        BY <1>1, <1>2, <1>4, BackScanExists DEF X
    <2> HIDE DEF n
    <2>5. Solves(f)
        <3>1. f[n + 1] = <<>> /\ \A i \in 1..n : f[i] = ScanStep(f, s, i, one, two)
            BY <2>4 DEF BackScan, n
        <3>2. ASSUME NEW i \in 1..n PROVE f[i] = Body(f, i)
            <4>1. f[i + 1] \in X /\ (i # n => f[i + 2] \in X)
                BY <2>1, <2>4
            <4> QED BY <2>2, <3>1, <4>1
        <3>3. \A i \in 1..(n + 1) : f[i] = IF i > n THEN <<>> ELSE Body(f, i)
            <4>1. \A i \in 1..(n + 1) : (i = n + 1 /\ i > n) \/ (i \in 1..n /\ ~(i > n))
                BY <2>1
            <4> QED BY <3>1, <3>2, <4>1
        <3> QED BY <2>4, <3>3
    <2>6. Solves(F)
        <3> HIDE DEF Solves
        <3> QED BY <2>3, <2>5
    <2>7. /\ F[n + 1] = <<>>
          /\ \A i \in 1..n : F[i] = Body(F, i)
        <3>1. n + 1 \in 1..(n + 1) /\ n + 1 > n /\ \A i \in 1..n : i \in 1..(n + 1) /\ ~(i > n)
            BY <2>1
        <3> QED BY <2>6, <3>1
    <2>8. Scanning(F, s, X, <<>>, one, two)
        BY <2>2, <2>7 DEF Scanning, n
    <2>9. BackScan(F, s, <<>>, one, two)
        BY <1>1, <1>2, <1>4, <2>8, ScanningScans DEF X
    <2> QED BY <1>5, <2>3, <2>9 DEF ScanRules, X
<1> QED BY <1>5, <1>6 DEF one, two

\* What loads, of any characters.
Values(S) == [valid : BOOLEAN, text : Seq(S)]
Prefixed(c, v) == IF v.valid THEN Value(<<c>> \o v.text) ELSE NoValue

\* A character before what loads, or what does not.
LEMMA PrefixedTyped ==
    ASSUME NEW S
    PROVE  /\ NoValue \in Values(S) /\ Value(<<>>) \in Values(S)
           /\ \A c \in S, v \in Values(S) : Prefixed(c, v) \in Values(S)
           /\ \A v \in Values(S) : v.valid \in BOOLEAN /\ v.text \in Seq(S)
<1>1. \A c \in S, x \in Seq(S) : <<c>> \o x \in Seq(S)
    OBVIOUS
<1>2. \A x \in Seq(S) : Value(x) \in Values(S)
    BY DEF Values, Value
<1>3. \A v \in Values(S) : v.valid \in BOOLEAN /\ v.text \in Seq(S)
    BY DEF Values
<1>4. <<>> \in Seq(S)
    OBVIOUS
<1>5. NoValue \in Values(S)
    BY DEF Values, NoValue
<1> QED BY <1>1, <1>2, <1>3, <1>4, <1>5 DEF Prefixed

\* LoadDouble's recursive function.
DoubleFrom(s) ==
    CHOOSE Read : Read = [i \in 1..Len(s) + 1 |->
          IF i > Len(s) THEN Value(<<>>)
          ELSE LET escape == s[i] = Back
                   next == Read[IF escape THEN i+2 ELSE i+1]
                   char == IF ~escape THEN s[i] ELSE IF s[i+1] = "n" THEN Blank ELSE s[i+1]
               IN IF \/ s[i] = Quote
                     \/ escape /\ (i = Len(s) \/ s[i+1] \notin {Back, Quote, "n"})
                     \/ ~next.valid
                  THEN NoValue ELSE Value(<<char>> \o next.text)]

Unescaped(d) == IF d = "n" THEN Blank ELSE d
DoubleOneOf(c) == IF c \in {Quote, Back} THEN NoValue ELSE Prefixed(c, Value(<<>>))
DoubleTwoOf(c, d, x, y) ==
    IF c = Quote \/ (c = Back /\ d \notin {Back, Quote, "n"}) THEN NoValue
    ELSE IF c = Back THEN Prefixed(Unescaped(d), y) ELSE Prefixed(c, x)
DoubleOne(S) == [c \in S |-> DoubleOneOf(c)]
DoubleTwo(S) == [z \in S \X S \X Values(S) \X Values(S) |-> DoubleTwoOf(z[1], z[2], z[3], z[4])]

\* Loading the inside of double quotes is a scan.
LEMMA DoubleScan ==
    ASSUME NEW S, Blank \in S
    PROVE  /\ ScanRules(S, Values(S), Value(<<>>), DoubleOne(S), DoubleTwo(S))
           /\ \A s \in Seq(S) : LoadDouble(s) = Scanned(s, Value(<<>>), DoubleOne(S), DoubleTwo(S))
<1> DEFINE X == Values(S)
           one == DoubleOne(S)
           two == DoubleTwo(S)
<1>1. Value(<<>>) \in X
    BY PrefixedTyped
<1>2. one \in [S -> X] /\ \A c \in S : one[c] = DoubleOneOf(c)
    <2>1. \A c \in S : DoubleOneOf(c) \in X
        BY PrefixedTyped DEF DoubleOneOf
    <2> QED BY <2>1 DEF DoubleOne
<1>3. \A c \in S, d \in S, x \in X, y \in X : two[<<c, d, x, y>>] = DoubleTwoOf(c, d, x, y)
    BY DEF DoubleTwo
<1>4. two \in [S \X S \X X \X X -> X]
    <2>1. \A c \in S, d \in S, x \in X, y \in X : DoubleTwoOf(c, d, x, y) \in X
        BY PrefixedTyped DEF DoubleTwoOf, Unescaped
    <2>2. two = [z \in S \X S \X X \X X |-> DoubleTwoOf(z[1], z[2], z[3], z[4])]
        BY DEF DoubleTwo
    <2>3. \A z \in S \X S \X X \X X : DoubleTwoOf(z[1], z[2], z[3], z[4]) \in X
        <3> HIDE DEF X
        <3> QED BY <2>1
    <2> HIDE DEF X, two
    <2> QED BY <2>2, <2>3
<1> HIDE DEF one, two
<1>5. ScanRules(S, X, Value(<<>>), one, two)
    BY <1>1, <1>2, <1>4, ScannedValue
<1>6. ASSUME NEW s \in Seq(S) PROVE LoadDouble(s) = Scanned(s, Value(<<>>), one, two)
    <2> DEFINE n == Len(s)
               F == DoubleFrom(s)
               Body(f, i) == LET escape == s[i] = Back
                                 next == f[IF escape THEN i+2 ELSE i+1]
                                 char == IF ~escape THEN s[i] ELSE IF s[i+1] = "n" THEN Blank ELSE s[i+1]
                             IN IF \/ s[i] = Quote
                                   \/ escape /\ (i = n \/ s[i+1] \notin {Back, Quote, "n"})
                                   \/ ~next.valid
                                THEN NoValue ELSE Value(<<char>> \o next.text)
               Solves(f) == f = [i \in 1..n + 1 |-> IF i > n THEN Value(<<>>) ELSE Body(f, i)]
    <2>1. n \in Nat /\ \A i \in 1..n : s[i] \in S
        OBVIOUS
    <2> HIDE DEF X
    <2>2. ASSUME NEW f, f[n + 1] = Value(<<>>), NEW i \in 1..n, f[i + 1] \in X, i # n => f[i + 2] \in X
          PROVE  Body(f, i) = ScanStep(f, s, i, one, two)
        <3>1. CASE i = n
            <4>1. ~(i < n) /\ s[i] \in S /\ f[i + 1] = Value(<<>>)
                BY <2>1, <2>2, <3>1
            <4>2. ScanStep(f, s, i, one, two) = one[s[i]]
                BY <3>1 DEF ScanStep
            <4>3. Body(f, i) = one[s[i]]
                BY <1>2, <3>1, <4>1 DEF Body, DoubleOneOf, Prefixed, Value
            <4> HIDE DEF Body
            <4> QED BY <4>2, <4>3
        <3>2. CASE i # n
            <4>1. i < n /\ s[i] \in S /\ s[i + 1] \in S /\ f[i + 2] \in X
                BY <2>1, <2>2, <3>2
            <4>2. ScanStep(f, s, i, one, two) = two[<<s[i], s[i + 1], f[i + 1], f[i + 2]>>]
                BY <3>2 DEF ScanStep
            <4>5. two[<<s[i], s[i + 1], f[i + 1], f[i + 2]>>]
                    = DoubleTwoOf(s[i], s[i + 1], f[i + 1], f[i + 2])
                BY <1>3, <2>2, <4>1
            <4>6. s[i] = Back => Body(f, i) = DoubleTwoOf(s[i], s[i + 1], f[i + 1], f[i + 2])
                BY <3>2 DEF Body, DoubleTwoOf, Prefixed, Unescaped
            <4>7. s[i] # Back => Body(f, i) = DoubleTwoOf(s[i], s[i + 1], f[i + 1], f[i + 2])
                BY <3>2 DEF Body, DoubleTwoOf, Prefixed, Unescaped
            <4> HIDE DEF Body
            <4>3. Body(f, i) = two[<<s[i], s[i + 1], f[i + 1], f[i + 2]>>]
                BY <4>5, <4>6, <4>7
            <4> HIDE DEF Body
            <4> QED BY <4>2, <4>3
        <3> QED BY <3>1, <3>2
    <2>3. LoadDouble(s) = F[1] /\ F = CHOOSE f : Solves(f)
        BY DEF LoadDouble, DoubleFrom
    <2> HIDE DEF Body, F
    <2>4. PICK f \in [1..(n + 1) -> X] : BackScan(f, s, Value(<<>>), one, two)
        BY <1>1, <1>2, <1>4, BackScanExists DEF X
    <2> HIDE DEF n
    <2>5. Solves(f)
        <3>1. f[n + 1] = Value(<<>>) /\ \A i \in 1..n : f[i] = ScanStep(f, s, i, one, two)
            BY <2>4 DEF BackScan, n
        <3>2. ASSUME NEW i \in 1..n PROVE f[i] = Body(f, i)
            <4>1. f[i + 1] \in X /\ (i # n => f[i + 2] \in X)
                BY <2>1, <2>4
            <4> QED BY <2>2, <3>1, <4>1
        <3>3. \A i \in 1..(n + 1) : f[i] = IF i > n THEN Value(<<>>) ELSE Body(f, i)
            <4>1. \A i \in 1..(n + 1) : (i = n + 1 /\ i > n) \/ (i \in 1..n /\ ~(i > n))
                BY <2>1
            <4> QED BY <3>1, <3>2, <4>1
        <3> QED BY <2>4, <3>3
    <2>6. Solves(F)
        <3> HIDE DEF Solves
        <3> QED BY <2>3, <2>5
    <2>7. /\ F[n + 1] = Value(<<>>)
          /\ \A i \in 1..n : F[i] = Body(F, i)
        <3>1. n + 1 \in 1..(n + 1) /\ n + 1 > n /\ \A i \in 1..n : i \in 1..(n + 1) /\ ~(i > n)
            BY <2>1
        <3> QED BY <2>6, <3>1
    <2>8. Scanning(F, s, X, Value(<<>>), one, two)
        BY <2>2, <2>7 DEF Scanning, n
    <2>9. BackScan(F, s, Value(<<>>), one, two)
        BY <1>1, <1>2, <1>4, <2>8, ScanningScans DEF X
    <2> QED BY <1>5, <2>3, <2>9 DEF ScanRules, X
<1> QED BY <1>5, <1>6 DEF one, two

\* LoadSingle's recursive function.
SingleFrom(s) ==
    CHOOSE Read : Read = [i \in 1..Len(s) + 1 |->
          IF i > Len(s) THEN Value(<<>>)
          ELSE LET next == Read[IF s[i] = Apostrophe THEN i+2 ELSE i+1]
               IN IF (s[i] = Apostrophe /\ (i = Len(s) \/ s[i+1] # Apostrophe)) \/ ~next.valid
                  THEN NoValue ELSE Value(<<s[i]>> \o next.text)]

SingleOneOf(c) == IF c = Apostrophe THEN NoValue ELSE Prefixed(c, Value(<<>>))
SingleTwoOf(c, d, x, y) ==
    IF c = Apostrophe THEN IF d = Apostrophe THEN Prefixed(c, y) ELSE NoValue
    ELSE Prefixed(c, x)
SingleOne(S) == [c \in S |-> SingleOneOf(c)]
SingleTwo(S) == [z \in S \X S \X Values(S) \X Values(S) |-> SingleTwoOf(z[1], z[2], z[3], z[4])]

\* Loading the inside of single quotes is a scan.
LEMMA SingleScan ==
    ASSUME NEW S
    PROVE  /\ ScanRules(S, Values(S), Value(<<>>), SingleOne(S), SingleTwo(S))
           /\ \A s \in Seq(S) : LoadSingle(s) = Scanned(s, Value(<<>>), SingleOne(S), SingleTwo(S))
<1> DEFINE X == Values(S)
           one == SingleOne(S)
           two == SingleTwo(S)
<1>1. Value(<<>>) \in X
    BY PrefixedTyped
<1>2. one \in [S -> X] /\ \A c \in S : one[c] = SingleOneOf(c)
    <2>1. \A c \in S : SingleOneOf(c) \in X
        BY PrefixedTyped DEF SingleOneOf
    <2> QED BY <2>1 DEF SingleOne
<1>3. \A c \in S, d \in S, x \in X, y \in X : two[<<c, d, x, y>>] = SingleTwoOf(c, d, x, y)
    BY DEF SingleTwo
<1>4. two \in [S \X S \X X \X X -> X]
    <2>1. \A c \in S, d \in S, x \in X, y \in X : SingleTwoOf(c, d, x, y) \in X
        BY PrefixedTyped DEF SingleTwoOf
    <2>2. two = [z \in S \X S \X X \X X |-> SingleTwoOf(z[1], z[2], z[3], z[4])]
        BY DEF SingleTwo
    <2>3. \A z \in S \X S \X X \X X : SingleTwoOf(z[1], z[2], z[3], z[4]) \in X
        <3> HIDE DEF X
        <3> QED BY <2>1
    <2> HIDE DEF X, two
    <2> QED BY <2>2, <2>3
<1> HIDE DEF one, two
<1>5. ScanRules(S, X, Value(<<>>), one, two)
    BY <1>1, <1>2, <1>4, ScannedValue
<1>6. ASSUME NEW s \in Seq(S) PROVE LoadSingle(s) = Scanned(s, Value(<<>>), one, two)
    <2> DEFINE n == Len(s)
               F == SingleFrom(s)
               Body(f, i) == LET next == f[IF s[i] = Apostrophe THEN i+2 ELSE i+1]
                             IN IF (s[i] = Apostrophe /\ (i = n \/ s[i+1] # Apostrophe)) \/ ~next.valid
                                THEN NoValue ELSE Value(<<s[i]>> \o next.text)
               Solves(f) == f = [i \in 1..n + 1 |-> IF i > n THEN Value(<<>>) ELSE Body(f, i)]
    <2>1. n \in Nat /\ \A i \in 1..n : s[i] \in S
        OBVIOUS
    <2> HIDE DEF X
    <2>2. ASSUME NEW f, f[n + 1] = Value(<<>>), NEW i \in 1..n, f[i + 1] \in X, i # n => f[i + 2] \in X
          PROVE  Body(f, i) = ScanStep(f, s, i, one, two)
        <3>1. CASE i = n
            <4>1. ~(i < n) /\ s[i] \in S /\ f[i + 1] = Value(<<>>)
                BY <2>1, <2>2, <3>1
            <4>2. ScanStep(f, s, i, one, two) = one[s[i]]
                BY <3>1 DEF ScanStep
            <4>3. Body(f, i) = one[s[i]]
                BY <1>2, <3>1, <4>1 DEF Body, SingleOneOf, Prefixed, Value
            <4> HIDE DEF Body
            <4> QED BY <4>2, <4>3
        <3>2. CASE i # n
            <4>1. i < n /\ s[i] \in S /\ s[i + 1] \in S /\ f[i + 2] \in X
                BY <2>1, <2>2, <3>2
            <4>2. ScanStep(f, s, i, one, two) = two[<<s[i], s[i + 1], f[i + 1], f[i + 2]>>]
                BY <3>2 DEF ScanStep
            <4>3. Body(f, i) = two[<<s[i], s[i + 1], f[i + 1], f[i + 2]>>]
                BY <1>3, <2>2, <3>2, <4>1 DEF Body, SingleTwoOf, Prefixed
            <4> HIDE DEF Body
            <4> QED BY <4>2, <4>3
        <3> QED BY <3>1, <3>2
    <2>3. LoadSingle(s) = F[1] /\ F = CHOOSE f : Solves(f)
        BY DEF LoadSingle, SingleFrom
    <2> HIDE DEF Body, F
    <2>4. PICK f \in [1..(n + 1) -> X] : BackScan(f, s, Value(<<>>), one, two)
        BY <1>1, <1>2, <1>4, BackScanExists DEF X
    <2> HIDE DEF n
    <2>5. Solves(f)
        <3>1. f[n + 1] = Value(<<>>) /\ \A i \in 1..n : f[i] = ScanStep(f, s, i, one, two)
            BY <2>4 DEF BackScan, n
        <3>2. ASSUME NEW i \in 1..n PROVE f[i] = Body(f, i)
            <4>1. f[i + 1] \in X /\ (i # n => f[i + 2] \in X)
                BY <2>1, <2>4
            <4> QED BY <2>2, <3>1, <4>1
        <3>3. \A i \in 1..(n + 1) : f[i] = IF i > n THEN Value(<<>>) ELSE Body(f, i)
            <4>1. \A i \in 1..(n + 1) : (i = n + 1 /\ i > n) \/ (i \in 1..n /\ ~(i > n))
                BY <2>1
            <4> QED BY <3>1, <3>2, <4>1
        <3> QED BY <2>4, <3>3
    <2>6. Solves(F)
        <3> HIDE DEF Solves
        <3> QED BY <2>3, <2>5
    <2>7. /\ F[n + 1] = Value(<<>>)
          /\ \A i \in 1..n : F[i] = Body(F, i)
        <3>1. n + 1 \in 1..(n + 1) /\ n + 1 > n /\ \A i \in 1..n : i \in 1..(n + 1) /\ ~(i > n)
            BY <2>1
        <3> QED BY <2>6, <3>1
    <2>8. Scanning(F, s, X, Value(<<>>), one, two)
        BY <2>2, <2>7 DEF Scanning, n
    <2>9. BackScan(F, s, Value(<<>>), one, two)
        BY <1>1, <1>2, <1>4, <2>8, ScanningScans DEF X
    <2> QED BY <1>5, <2>3, <2>9 DEF ScanRules, X
<1> QED BY <1>5, <1>6 DEF one, two
-----------------------------------------------------------------------------
(***************************************************************************)
(* The same as equations on the first characters.                          *)
(***************************************************************************)
\* The empty text is a text of any characters.
LEMMA EmptyText == \A S : <<>> \in Seq(S)
OBVIOUS

PairRules(S, a, b, new) ==
    /\ ReplacePair(<<>>, a, b, new) = <<>>
    /\ \A s \in Seq(S) : ReplacePair(s, a, b, new) \in Seq(S)
    /\ \A c \in S, r \in Seq(S) : c # a => ReplacePair(Cons(c, r), a, b, new) = Cons(c, ReplacePair(r, a, b, new))
    /\ \A c \in S : ReplacePair(Cons(c, <<>>), a, b, new) = Cons(c, <<>>)
    /\ \A c \in S, d \in S, r \in Seq(S) :
          ReplacePair(Cons(c, Cons(d, r)), a, b, new)
             = IF c = a /\ d = b THEN new \o ReplacePair(r, a, b, new)
               ELSE Cons(c, ReplacePair(Cons(d, r), a, b, new))

\* A pair replaced.
LEMMA PairValue ==
    ASSUME NEW S, NEW a, NEW b, NEW new \in Seq(S)
    PROVE  PairRules(S, a, b, new)
<1> DEFINE one == PairOne(S)
           two == PairTwo(S, a, b, new)
           R(s) == ReplacePair(s, a, b, new)
<1>1. /\ ScanRules(S, Seq(S), <<>>, one, two)
      /\ \A s \in Seq(S) : R(s) = Scanned(s, <<>>, one, two)
    BY PairScan
<1>2. \A c \in S : one[c] = Cons(c, <<>>)
    BY DEF PairOne, Cons
<1>3. \A c \in S, d \in S, x \in Seq(S), y \in Seq(S) :
         two[<<c, d, x, y>>] = IF c = a /\ d = b THEN new \o y ELSE Cons(c, x)
    BY DEF PairTwo, Cons
<1> HIDE DEF one, two, R
<1>4. R(<<>>) = <<>> /\ \A s \in Seq(S) : R(s) \in Seq(S)
    <2>1. <<>> \in Seq(S)
        OBVIOUS
    <2> QED BY <1>1, <2>1 DEF ScanRules
<1>5. \A c \in S : R(Cons(c, <<>>)) = Cons(c, <<>>)
    <2>1. \A c \in S : Cons(c, <<>>) \in Seq(S)
        BY EmptyText, ConsFacts
    <2> QED BY <1>1, <1>2, <2>1 DEF ScanRules
<1>6. ASSUME NEW c \in S, NEW d \in S, NEW r \in Seq(S)
      PROVE  R(Cons(c, Cons(d, r))) = IF c = a /\ d = b THEN new \o R(r) ELSE Cons(c, R(Cons(d, r)))
    <2>1. Cons(d, r) \in Seq(S)
        BY ConsFacts
    <2>2. Cons(c, Cons(d, r)) \in Seq(S)
        BY <2>1, ConsFacts
    <2>3. R(Cons(c, Cons(d, r))) = two[<<c, d, R(Cons(d, r)), R(r)>>]
        <3>1. \A s \in Seq(S) : R(s) = Scanned(s, <<>>, one, two)
            BY <1>1
        <3>2. /\ R(Cons(c, Cons(d, r))) = Scanned(Cons(c, Cons(d, r)), <<>>, one, two)
              /\ R(Cons(d, r)) = Scanned(Cons(d, r), <<>>, one, two) /\ R(r) = Scanned(r, <<>>, one, two)
            BY <2>1, <2>2, <3>1
        <3>3. Scanned(Cons(c, Cons(d, r)), <<>>, one, two)
                = two[<<c, d, Scanned(Cons(d, r), <<>>, one, two), Scanned(r, <<>>, one, two)>>]
            BY <1>1 DEF ScanRules
        <3> QED BY <3>2, <3>3
    <2> QED BY <1>3, <1>4, <2>1, <2>3
<1>7. ASSUME NEW c \in S, NEW r \in Seq(S), c # a PROVE R(Cons(c, r)) = Cons(c, R(r))
    <2>1. CASE r = <<>>
        BY <1>4, <1>5, <2>1
    <2>2. CASE r # <<>>
        <3>1. PICK d \in S, t \in Seq(S) : r = Cons(d, t)
            BY <2>2, ConsExists
        <3> QED BY <1>6, <1>7, <3>1
    <2> QED BY <2>1, <2>2
<1> QED BY <1>4, <1>5, <1>6, <1>7 DEF R, PairRules

CollapsedRules(S) ==
    /\ Collapsed(<<>>) = <<>>
    /\ \A s \in Seq(S) : Collapsed(s) \in Seq(S)
    /\ \A c \in S, r \in Seq(S) : Collapsed(Cons(c, r)) = Kept(c, Collapsed(r))

\* Runs of blanks squeezed.
LEMMA CollapsedValue == ASSUME NEW S PROVE CollapsedRules(S)
<1> DEFINE one == KeptOne(S)
           two == KeptTwo(S)
<1>1. /\ ScanRules(S, Seq(S), <<>>, one, two)
      /\ \A s \in Seq(S) : Collapsed(s) = Scanned(s, <<>>, one, two)
    BY CollapsedScan
<1>2. \A c \in S : one[c] = Kept(c, <<>>)
    BY DEF KeptOne
<1>3. \A c \in S, d \in S, x \in Seq(S), y \in Seq(S) : two[<<c, d, x, y>>] = Kept(c, x)
    BY DEF KeptTwo
<1> HIDE DEF one, two
<1>4. Collapsed(<<>>) = <<>> /\ \A s \in Seq(S) : Collapsed(s) \in Seq(S)
    <2>1. <<>> \in Seq(S)
        OBVIOUS
    <2> QED BY <1>1, <2>1 DEF ScanRules
<1>5. \A c \in S : Collapsed(Cons(c, <<>>)) = Kept(c, <<>>)
    <2>1. \A c \in S : Cons(c, <<>>) \in Seq(S)
        BY EmptyText, ConsFacts
    <2> QED BY <1>1, <1>2, <2>1 DEF ScanRules
<1>6. ASSUME NEW c \in S, NEW d \in S, NEW r \in Seq(S)
      PROVE  Collapsed(Cons(c, Cons(d, r))) = Kept(c, Collapsed(Cons(d, r)))
    <2>1. Cons(d, r) \in Seq(S)
        BY ConsFacts
    <2>2. Cons(c, Cons(d, r)) \in Seq(S)
        BY <2>1, ConsFacts
    <2>3. Collapsed(Cons(c, Cons(d, r))) = two[<<c, d, Collapsed(Cons(d, r)), Collapsed(r)>>]
        BY <1>1, <2>1, <2>2 DEF ScanRules
    <2> QED BY <1>3, <1>4, <2>1, <2>3
<1>7. ASSUME NEW c \in S, NEW r \in Seq(S) PROVE Collapsed(Cons(c, r)) = Kept(c, Collapsed(r))
    <2>1. CASE r = <<>>
        BY <1>4, <1>5, <2>1
    <2>2. CASE r # <<>>
        <3>1. PICK d \in S, t \in Seq(S) : r = Cons(d, t)
            BY <2>2, ConsExists
        <3> QED BY <1>6, <3>1
    <2> QED BY <2>1, <2>2
<1> QED BY <1>4, <1>7 DEF CollapsedRules

Escapes == {Back, Quote, "n"}
DoubleRules(S) ==
    /\ LoadDouble(<<>>) = Value(<<>>)
    /\ \A s \in Seq(S) : LoadDouble(s) \in Values(S)
    /\ \A c \in S, r \in Seq(S) : c \notin {Quote, Back} => LoadDouble(Cons(c, r)) = Prefixed(c, LoadDouble(r))
    /\ \A r \in Seq(S) : Quote \in S => LoadDouble(Cons(Quote, r)) = NoValue
    /\ Back \in S => LoadDouble(Cons(Back, <<>>)) = NoValue
    /\ \A d \in S, r \in Seq(S) :
          Back \in S => LoadDouble(Cons(Back, Cons(d, r)))
                           = IF d \in Escapes THEN Prefixed(Unescaped(d), LoadDouble(r)) ELSE NoValue

\* The inside of double quotes loaded.
LEMMA DoubleValue == ASSUME NEW S, Blank \in S PROVE DoubleRules(S)
<1> DEFINE one == DoubleOne(S)
           two == DoubleTwo(S)
           X == Values(S)
<1>1. /\ ScanRules(S, X, Value(<<>>), one, two)
      /\ \A s \in Seq(S) : LoadDouble(s) = Scanned(s, Value(<<>>), one, two)
    BY DoubleScan
<1>2. \A c \in S : one[c] = DoubleOneOf(c)
    BY DEF DoubleOne
<1>3. \A c \in S, d \in S, x \in X, y \in X : two[<<c, d, x, y>>] = DoubleTwoOf(c, d, x, y)
    BY DEF DoubleTwo
<1> HIDE DEF one, two, X
<1>4. LoadDouble(<<>>) = Value(<<>>) /\ \A s \in Seq(S) : LoadDouble(s) \in X
    <2>1. <<>> \in Seq(S)
        OBVIOUS
    <2> QED BY <1>1, <2>1 DEF ScanRules
<1>5. \A c \in S : LoadDouble(Cons(c, <<>>)) = DoubleOneOf(c)
    <2>1. \A c \in S : Cons(c, <<>>) \in Seq(S)
        BY EmptyText, ConsFacts
    <2> QED BY <1>1, <1>2, <2>1 DEF ScanRules
<1>6. ASSUME NEW c \in S, NEW d \in S, NEW r \in Seq(S)
      PROVE  LoadDouble(Cons(c, Cons(d, r))) = DoubleTwoOf(c, d, LoadDouble(Cons(d, r)), LoadDouble(r))
    <2>1. Cons(d, r) \in Seq(S)
        BY ConsFacts
    <2>2. Cons(c, Cons(d, r)) \in Seq(S)
        BY <2>1, ConsFacts
    <2>3. LoadDouble(Cons(c, Cons(d, r))) = two[<<c, d, LoadDouble(Cons(d, r)), LoadDouble(r)>>]
        BY <1>1, <2>1, <2>2 DEF ScanRules
    <2> QED BY <1>3, <1>4, <2>1, <2>3
<1>7. ASSUME NEW c \in S, NEW r \in Seq(S), c \notin {Quote, Back} PROVE LoadDouble(Cons(c, r)) = Prefixed(c, LoadDouble(r))
    <2>1. CASE r = <<>>
        BY <1>4, <1>5, <1>7, <2>1 DEF DoubleOneOf
    <2>2. CASE r # <<>>
        <3>1. PICK d \in S, t \in Seq(S) : r = Cons(d, t)
            BY <2>2, ConsExists
        <3> QED BY <1>6, <1>7, <3>1 DEF DoubleTwoOf
    <2> QED BY <2>1, <2>2
<1>8. ASSUME NEW r \in Seq(S), Quote \in S PROVE LoadDouble(Cons(Quote, r)) = NoValue
    <2>1. CASE r = <<>>
        BY <1>5, <1>8, <2>1 DEF DoubleOneOf
    <2>2. CASE r # <<>>
        <3>1. PICK d \in S, t \in Seq(S) : r = Cons(d, t)
            BY <2>2, ConsExists
        <3> QED BY <1>6, <1>8, <3>1 DEF DoubleTwoOf
    <2> QED BY <2>1, <2>2
<1>9. Back \in S => LoadDouble(Cons(Back, <<>>)) = NoValue
    BY <1>5 DEF DoubleOneOf
<1>10. ASSUME NEW d \in S, NEW r \in Seq(S), Back \in S
       PROVE  LoadDouble(Cons(Back, Cons(d, r)))
                 = IF d \in Escapes THEN Prefixed(Unescaped(d), LoadDouble(r)) ELSE NoValue
    <2>1. Back # Quote
        BY DEF Back, Quote
    <2>2. LoadDouble(Cons(Back, Cons(d, r))) = DoubleTwoOf(Back, d, LoadDouble(Cons(d, r)), LoadDouble(r))
        BY <1>6, <1>10
    <2> QED BY <2>1, <2>2 DEF DoubleTwoOf, Escapes
<1> QED BY <1>4, <1>7, <1>8, <1>9, <1>10 DEF X, DoubleRules

SingleRules(S) ==
    /\ LoadSingle(<<>>) = Value(<<>>)
    /\ \A s \in Seq(S) : LoadSingle(s) \in Values(S)
    /\ \A c \in S, r \in Seq(S) : c # Apostrophe => LoadSingle(Cons(c, r)) = Prefixed(c, LoadSingle(r))
    /\ Apostrophe \in S => LoadSingle(Cons(Apostrophe, <<>>)) = NoValue
    /\ \A d \in S, r \in Seq(S) :
          Apostrophe \in S => LoadSingle(Cons(Apostrophe, Cons(d, r)))
                           = IF d = Apostrophe THEN Prefixed(d, LoadSingle(r)) ELSE NoValue

\* The inside of single quotes loaded.
LEMMA SingleValue == ASSUME NEW S PROVE SingleRules(S)
<1> DEFINE one == SingleOne(S)
           two == SingleTwo(S)
           X == Values(S)
<1>1. /\ ScanRules(S, X, Value(<<>>), one, two)
      /\ \A s \in Seq(S) : LoadSingle(s) = Scanned(s, Value(<<>>), one, two)
    BY SingleScan
<1>2. \A c \in S : one[c] = SingleOneOf(c)
    BY DEF SingleOne
<1>3. \A c \in S, d \in S, x \in X, y \in X : two[<<c, d, x, y>>] = SingleTwoOf(c, d, x, y)
    BY DEF SingleTwo
<1> HIDE DEF one, two, X
<1>4. LoadSingle(<<>>) = Value(<<>>) /\ \A s \in Seq(S) : LoadSingle(s) \in X
    <2>1. <<>> \in Seq(S)
        OBVIOUS
    <2> QED BY <1>1, <2>1 DEF ScanRules
<1>5. \A c \in S : LoadSingle(Cons(c, <<>>)) = SingleOneOf(c)
    <2>1. \A c \in S : Cons(c, <<>>) \in Seq(S)
        BY EmptyText, ConsFacts
    <2> QED BY <1>1, <1>2, <2>1 DEF ScanRules
<1>6. ASSUME NEW c \in S, NEW d \in S, NEW r \in Seq(S)
      PROVE  LoadSingle(Cons(c, Cons(d, r))) = SingleTwoOf(c, d, LoadSingle(Cons(d, r)), LoadSingle(r))
    <2>1. Cons(d, r) \in Seq(S)
        BY ConsFacts
    <2>2. Cons(c, Cons(d, r)) \in Seq(S)
        BY <2>1, ConsFacts
    <2>3. LoadSingle(Cons(c, Cons(d, r))) = two[<<c, d, LoadSingle(Cons(d, r)), LoadSingle(r)>>]
        BY <1>1, <2>1, <2>2 DEF ScanRules
    <2> QED BY <1>3, <1>4, <2>1, <2>3
<1>7. ASSUME NEW c \in S, NEW r \in Seq(S), c # Apostrophe PROVE LoadSingle(Cons(c, r)) = Prefixed(c, LoadSingle(r))
    <2>1. CASE r = <<>>
        BY <1>4, <1>5, <1>7, <2>1 DEF SingleOneOf
    <2>2. CASE r # <<>>
        <3>1. PICK d \in S, t \in Seq(S) : r = Cons(d, t)
            BY <2>2, ConsExists
        <3> QED BY <1>6, <1>7, <3>1 DEF SingleTwoOf
    <2> QED BY <2>1, <2>2
<1>9. Apostrophe \in S => LoadSingle(Cons(Apostrophe, <<>>)) = NoValue
    BY <1>5 DEF SingleOneOf
<1>10. ASSUME NEW d \in S, NEW r \in Seq(S), Apostrophe \in S
       PROVE  LoadSingle(Cons(Apostrophe, Cons(d, r)))
                 = IF d = Apostrophe THEN Prefixed(d, LoadSingle(r)) ELSE NoValue
    <2>2. LoadSingle(Cons(Apostrophe, Cons(d, r))) = SingleTwoOf(Apostrophe, d, LoadSingle(Cons(d, r)), LoadSingle(r))
        BY <1>6, <1>10
    <2> QED BY <2>2 DEF SingleTwoOf
<1> QED BY <1>4, <1>7, <1>9, <1>10 DEF X, SingleRules

\* One character replaced.
CharRules(S, a, new) ==
    /\ ReplaceChar(<<>>, a, new) = <<>>
    /\ \A s \in Seq(S) : ReplaceChar(s, a, new) \in Seq(S)
    /\ \A c \in S, r \in Seq(S) :
          ReplaceChar(Cons(c, r), a, new) = IF c = a THEN new \o ReplaceChar(r, a, new)
                                            ELSE Cons(c, ReplaceChar(r, a, new))

\* The replacement of one character goes by its rules.
LEMMA CharValue ==
    ASSUME NEW S, NEW a, NEW new \in Seq(S)
    PROVE  CharRules(S, a, new)
<1> DEFINE Of(c) == IF c = a THEN new ELSE <<c>>
           M(s) == [i \in DOMAIN s |-> Of(s[i])]
           R(s) == ReplaceChar(s, a, new)
<1>1. \A c \in S : Of(c) \in Seq(S)
    OBVIOUS
<1>2. \A s : R(s) = FlattenSeq(M(s))
    BY DEF ReplaceChar
<1>3. R(<<>>) = <<>>
    <2>1. M(<<>>) = <<>>
        OBVIOUS
    <2> QED BY <1>2, <2>1, FlattenEmpty
<1> HIDE DEF Of
<1>4. ASSUME NEW s \in Seq(S) PROVE M(s) \in Seq(Seq(S)) /\ Len(M(s)) = Len(s) /\ \A i \in 1..Len(s) : M(s)[i] = Of(s[i])
    <2> DEFINE n == Len(s)
    <2>1. n \in Nat /\ DOMAIN s = 1..n /\ \A i \in 1..n : s[i] \in S
        OBVIOUS
    <2> HIDE DEF n
    <2>2. M(s) = [i \in 1..n |-> Of(s[i])]
        BY <2>1
    <2>3. M(s) \in [1..n -> Seq(S)] /\ \A i \in 1..n : M(s)[i] = Of(s[i])
        BY <1>1, <2>1, <2>2
    <2> HIDE DEF M
    <2> QED BY <2>1, <2>3 DEF n
<1> HIDE DEF M, R
<1>5. ASSUME NEW s \in Seq(S) PROVE R(s) \in Seq(S)
    BY <1>2, <1>4, FlattenHas
<1>6. ASSUME NEW c \in S, NEW r \in Seq(S) PROVE R(Cons(c, r)) = Of(c) \o R(r)
    <2> DEFINE s == Cons(c, r)
               one == <<Of(c)>>
    <2>1. /\ s \in Seq(S) /\ Len(r) \in Nat /\ Len(s) = Len(r) + 1 /\ s[1] = c
          /\ \A i \in 1..Len(r) : s[i + 1] = r[i]
        BY ConsFacts
    <2> HIDE DEF s
    <2>2. one \in Seq(Seq(S)) /\ Len(one) = 1 /\ one[1] = Of(c)
        BY <1>1
    <2>3. M(r) \in Seq(Seq(S)) /\ Len(M(r)) = Len(r) /\ \A i \in 1..Len(r) : M(r)[i] = Of(r[i])
        BY <1>4
    <2>4. M(s) \in Seq(Seq(S)) /\ Len(M(s)) = Len(s) /\ \A i \in 1..Len(s) : M(s)[i] = Of(s[i])
        BY <1>4, <2>1
    <2> HIDE DEF one
    <2>5. /\ one \o M(r) \in Seq(Seq(S)) /\ Len(one \o M(r)) = 1 + Len(r)
          /\ \A i \in 1..(1 + Len(r)) : (one \o M(r))[i] = IF i <= 1 THEN one[i] ELSE M(r)[i - 1]
        <3>1. /\ one \o M(r) \in Seq(Seq(S)) /\ Len(one \o M(r)) = Len(one) + Len(M(r))
              /\ \A i \in 1..(Len(one) + Len(M(r))) :
                    (one \o M(r))[i] = IF i <= Len(one) THEN one[i] ELSE M(r)[i - Len(one)]
            <4> DEFINE T == Seq(S)
                       rest == M(r)
            <4>1. one \in Seq(T) /\ rest \in Seq(T)
                BY <2>2, <2>3
            <4> HIDE DEF T, rest
            <4>2. /\ one \o rest \in Seq(T) /\ Len(one \o rest) = Len(one) + Len(rest)
                  /\ \A i \in 1..(Len(one) + Len(rest)) :
                        (one \o rest)[i] = IF i <= Len(one) THEN one[i] ELSE rest[i - Len(one)]
                BY <4>1, ConcatProperties
            <4> QED BY <4>2 DEF T, rest
        <3> QED BY <2>2, <2>3, <3>1
    <2>6. ASSUME NEW i \in 1..(1 + Len(r)) PROVE M(s)[i] = (one \o M(r))[i]
        <3>1. CASE i = 1
            <4>1. 1 \in 1..Len(s) /\ 1 \in 1..(1 + Len(r))
                BY <2>1
            <4>2. M(s)[1] = Of(c)
                BY <2>1, <2>4, <4>1
            <4>3. (one \o M(r))[1] = Of(c)
                BY <2>2, <2>5, <4>1
            <4> QED BY <3>1, <4>2, <4>3
        <3>2. CASE i # 1
            <4>1. i - 1 \in 1..Len(r) /\ (i - 1) + 1 = i /\ ~(i <= 1) /\ i \in 1..Len(s)
                BY <2>1, <3>2
            <4>2. s[i] = r[i - 1]
                BY <2>1, <4>1
            <4>3. M(s)[i] = Of(s[i]) /\ M(r)[i - 1] = Of(r[i - 1])
                BY <2>3, <2>4, <4>1
            <4> QED BY <2>5, <4>1, <4>2, <4>3
        <3> QED BY <3>1, <3>2
    <2>7. M(s) = one \o M(r)
        <3>1. Len(M(s)) = Len(one \o M(r)) /\ \A i \in 1..Len(M(s)) : M(s)[i] = (one \o M(r))[i]
            BY <2>1, <2>4, <2>5, <2>6
        <3> QED BY <2>4, <2>5, <3>1, SeqEqual
    <2>8. FlattenSeq(one \o M(r)) = FlattenSeq(one) \o FlattenSeq(M(r))
        BY <2>2, <2>3, FlattenConcat
    <2>9. FlattenSeq(one) = Of(c)
        <3>1. FlattenSeq(Append(<<>>, Of(c))) = FlattenSeq(<<>>) \o Of(c)
            <4>1. <<>> \in Seq(Seq(S))
                OBVIOUS
            <4> QED BY <1>1, <4>1, FlattenAppend
        <3>2. Append(<<>>, Of(c)) = one
            BY DEF one
        <3>3. <<>> \o Of(c) = Of(c)
            BY <1>1
        <3> QED BY <3>1, <3>2, <3>3, FlattenEmpty
    <2> QED BY <1>2, <2>7, <2>8, <2>9 DEF s
<1> QED BY <1>3, <1>5, <1>6 DEF Of, R, CharRules, Cons
-----------------------------------------------------------------------------
(***************************************************************************)
(* Texts, of any characters and those the formats tell apart.              *)
(***************************************************************************)
Marks == {Blank, Quote, Apostrophe, Back, Control, "n", ".", "#", "|"}
Chars == STRING \cup Marks

\* They are all different.
LEMMA MarksDiffer ==
    /\ Marks \subseteq Chars
    /\ Blank \notin {Quote, Apostrophe, Back, Control, "n", ".", "#", "|"}
    /\ Quote \notin {Apostrophe, Back, Control, "n", ".", "#", "|"}
    /\ Apostrophe \notin {Back, Control, "n", ".", "#", "|"}
    /\ Back \notin {Control, "n", ".", "#", "|"}
    /\ Control \notin {"n", ".", "#", "|"}
BY DEF Marks, Chars, Blank, Quote, Apostrophe, Back, Control

\* They are all characters.
LEMMA MarksTyped ==
    /\ Blank \in Chars /\ Quote \in Chars /\ Apostrophe \in Chars /\ Back \in Chars /\ Control \in Chars
    /\ "n" \in Chars /\ "." \in Chars
    /\ \A d \in Escapes : d \in Chars
BY MarksDiffer DEF Marks, Escapes

\* A text without what tr -d drops.
Clear(s) == Control \notin ToSet(s)

\* A text is clear if its first character and its rest are.
LEMMA ClearCons ==
    /\ Clear(<<>>)
    /\ \A c \in Chars, r \in Seq(Chars) : Clear(Cons(c, r)) <=> c # Control /\ Clear(r)
<1>1. Clear(<<>>)
    BY DEF Clear, ToSet
<1>2. ASSUME NEW c \in Chars, NEW r \in Seq(Chars) PROVE Clear(Cons(c, r)) <=> c # Control /\ Clear(r)
    <2>1. <<c>> \in Seq(Chars) /\ ToSet(<<c>>) = {c}
        BY DEF ToSet
    <2> DEFINE o == <<c>>
    <2>2. o \in Seq(Chars) /\ ToSet(o) = {c}
        BY <2>1
    <2> HIDE DEF o
    <2>3. ToSet(o \o r) = {c} \cup ToSet(r)
        BY <2>2, ConcatHas
    <2> QED BY <2>3 DEF Clear, Cons, o
<1> QED BY <1>1, <1>2

\* A character in front, as in an equation of a scan.
LEMMA OneInFront ==
    \A c, s : <<c>> \o s = Cons(c, s)
BY DEF Cons

\* What the replacements by a single character, and by two, do.
PairForms(a, b, e) ==
    LET R(s) == ReplacePair(s, a, b, <<e>>) IN
    /\ R(<<>>) = <<>> /\ \A s \in Seq(Chars) : R(s) \in Seq(Chars)
    /\ \A c \in Chars, r \in Seq(Chars) : c # a => R(Cons(c, r)) = Cons(c, R(r))
    /\ R(Cons(a, <<>>)) = Cons(a, <<>>)
    /\ \A d \in Chars, r \in Seq(Chars) :
          R(Cons(a, Cons(d, r))) = IF d = b THEN Cons(e, R(r)) ELSE Cons(a, R(Cons(d, r)))

\* A pair replaced by one character.
LEMMA PairByOne == ASSUME NEW a \in Chars, NEW b \in Chars, NEW e \in Chars PROVE PairForms(a, b, e)
<1> DEFINE new == <<e>>
<1>1. new \in Seq(Chars) /\ \A s : new \o s = Cons(e, s)
    BY OneInFront
<1> HIDE DEF new
<1>2. PairRules(Chars, a, b, new)
    BY <1>1, PairValue
<1>3. /\ \A c \in Chars, r \in Seq(Chars) :
            c # a => ReplacePair(Cons(c, r), a, b, new) = Cons(c, ReplacePair(r, a, b, new))
      /\ ReplacePair(Cons(a, <<>>), a, b, new) = Cons(a, <<>>)
      /\ ReplacePair(<<>>, a, b, new) = <<>> /\ \A s \in Seq(Chars) : ReplacePair(s, a, b, new) \in Seq(Chars)
    BY <1>2 DEF PairRules
<1>4. \A d \in Chars, r \in Seq(Chars) : ReplacePair(Cons(a, Cons(d, r)), a, b, new)
             = IF d = b THEN Cons(e, ReplacePair(r, a, b, new)) ELSE Cons(a, ReplacePair(Cons(d, r), a, b, new))
    BY <1>1, <1>2 DEF PairRules
<1> QED BY <1>3, <1>4 DEF PairForms, new

CharByOne(a, e) ==
    LET R(s) == ReplaceChar(s, a, <<e>>) IN
    /\ R(<<>>) = <<>> /\ \A s \in Seq(Chars) : R(s) \in Seq(Chars)
    /\ \A c \in Chars, r \in Seq(Chars) : R(Cons(c, r)) = Cons(IF c = a THEN e ELSE c, R(r))
CharByTwo(a, e, f) ==
    LET R(s) == ReplaceChar(s, a, <<e, f>>) IN
    /\ R(<<>>) = <<>> /\ \A s \in Seq(Chars) : R(s) \in Seq(Chars)
    /\ \A c \in Chars, r \in Seq(Chars) :
          R(Cons(c, r)) = IF c = a THEN Cons(e, Cons(f, R(r))) ELSE Cons(c, R(r))

\* A character replaced by one, or by two.
LEMMA CharForms ==
    ASSUME NEW a \in Chars, NEW e \in Chars, NEW f \in Chars
    PROVE  CharByOne(a, e) /\ CharByTwo(a, e, f)
<1> DEFINE one == <<e>>
           two == <<e, f>>
<1>1. one \in Seq(Chars) /\ \A s : one \o s = Cons(e, s)
    BY OneInFront
<1>2. two \in Seq(Chars) /\ \A s \in Seq(Chars) : two \o s = Cons(e, Cons(f, s))
    <2> DEFINE o == <<f>>
    <2>1. /\ o \in Seq(Chars) /\ Len(o) = 1 /\ o[1] = f /\ Len(one) = 1 /\ one[1] = e
          /\ two \in Seq(Chars) /\ Len(two) = 2 /\ two[1] = e /\ two[2] = f
        OBVIOUS
    <2>2. \A s : o \o s = Cons(f, s)
        BY OneInFront
    <2> HIDE DEF one, two, o
    <2>3. /\ one \o o \in Seq(Chars) /\ Len(one \o o) = Len(one) + Len(o)
          /\ \A i \in 1..(Len(one) + Len(o)) : (one \o o)[i] = IF i <= Len(one) THEN one[i] ELSE o[i - Len(one)]
        BY <1>1, <2>1, ConcatProperties
    <2>4. Len(one \o o) = 2 /\ (one \o o)[1] = e /\ (one \o o)[2] = f
        BY <2>1, <2>3
    <2>5. \A i \in 1..Len(two) : i = 1 \/ i = 2
        BY <2>1
    <2>6. two = one \o o
        BY <2>1, <2>3, <2>4, <2>5, SeqEqual
    <2>7. ASSUME NEW s \in Seq(Chars) PROVE (one \o o) \o s = one \o (o \o s)
        <3>1. one \in Seq(Chars) /\ o \in Seq(Chars) /\ s \in Seq(Chars)
            BY <1>1, <2>1
        <3> QED BY <3>1, ConcatAssociative
    <2> QED BY <1>1, <2>1, <2>2, <2>6, <2>7
<1> HIDE DEF one, two
<1>3. CharRules(Chars, a, one)
    BY <1>1, CharValue
<1>4. CharRules(Chars, a, two)
    BY <1>2, CharValue
<1>5. /\ ReplaceChar(<<>>, a, one) = <<>> /\ \A s \in Seq(Chars) : ReplaceChar(s, a, one) \in Seq(Chars)
      /\ \A c \in Chars, r \in Seq(Chars) :
            ReplaceChar(Cons(c, r), a, one) = Cons(IF c = a THEN e ELSE c, ReplaceChar(r, a, one))
    BY <1>1, <1>3 DEF CharRules
<1>6. /\ ReplaceChar(<<>>, a, two) = <<>> /\ \A s \in Seq(Chars) : ReplaceChar(s, a, two) \in Seq(Chars)
      /\ \A c \in Chars, r \in Seq(Chars) :
            ReplaceChar(Cons(c, r), a, two)
               = IF c = a THEN Cons(e, Cons(f, ReplaceChar(r, a, two))) ELSE Cons(c, ReplaceChar(r, a, two))
    BY <1>2, <1>4 DEF CharRules
<1> QED BY <1>5, <1>6 DEF CharByOne, CharByTwo, one, two

\* A text with a character more.
LEMMA ConsTyped ==
    \A c \in Chars, r \in Seq(Chars) : Cons(c, r) \in Seq(Chars) /\ Len(Cons(c, r)) = Len(r) + 1 /\ Len(r) \in Nat
BY ConsFacts
-----------------------------------------------------------------------------
(***************************************************************************)
(* What the inside of a scalar in double quotes may be, and what loads.    *)
(***************************************************************************)
\* What the first characters of the inside mean, and which load.
LEMMA DoubleForms ==
    /\ LoadDouble(<<>>).valid /\ LoadDouble(<<>>).text = <<>>
    /\ \A c \in Chars \ {Quote, Back}, r \in Seq(Chars) :
          /\ LoadDouble(Cons(c, r)).valid <=> LoadDouble(r).valid
          /\ LoadDouble(r).valid => LoadDouble(Cons(c, r)).text = Cons(c, LoadDouble(r).text)
    /\ \A r \in Seq(Chars) : ~LoadDouble(Cons(Quote, r)).valid
    /\ ~LoadDouble(Cons(Back, <<>>)).valid
    /\ \A d \in Chars \ Escapes, r \in Seq(Chars) : ~LoadDouble(Cons(Back, Cons(d, r))).valid
    /\ \A d \in Escapes, r \in Seq(Chars) :
          /\ LoadDouble(Cons(Back, Cons(d, r))).valid <=> LoadDouble(r).valid
          /\ LoadDouble(r).valid
                => LoadDouble(Cons(Back, Cons(d, r))).text = Cons(Unescaped(d), LoadDouble(r).text)
<1>1. DoubleRules(Chars)
    BY DoubleValue, MarksTyped
<1>2. ~NoValue.valid /\ \A s : Value(s).valid /\ Value(s).text = s
    BY DEF NoValue, Value
<1>3. \A c, v : (v.valid => Prefixed(c, v) = Value(Cons(c, v.text))) /\ (~v.valid => Prefixed(c, v) = NoValue)
    BY OneInFront DEF Prefixed
<1>4. \A c, v : (Prefixed(c, v).valid <=> v.valid) /\ (v.valid => Prefixed(c, v).text = Cons(c, v.text))
    BY <1>2, <1>3
<1> QED BY <1>1, <1>2, <1>4, MarksTyped DEF DoubleRules

\* Induction along what loads: a character that means itself, or an escape.
LEMMA DoubleInduction ==
    ASSUME NEW P, <<>> \in P,
           \A c \in Chars \ {Quote, Back}, r \in Seq(Chars) :
               LoadDouble(r).valid /\ r \in P => Cons(c, r) \in P,
           \A d \in Escapes, r \in Seq(Chars) :
               LoadDouble(r).valid /\ r \in P => Cons(Back, Cons(d, r)) \in P
    PROVE  \A u \in Seq(Chars) : LoadDouble(u).valid => u \in P
<1> DEFINE T == {u \in Seq(Chars) : LoadDouble(u).valid => u \in P}
<1>1. ASSUME NEW u \in Seq(Chars), \A r \in Seq(Chars) : Len(r) < Len(u) => r \in T PROVE u \in T
    <2> SUFFICES ASSUME LoadDouble(u).valid, u # <<>> PROVE u \in P
        OBVIOUS
    <2>1. PICK c \in Chars, r \in Seq(Chars) : u = Cons(c, r)
        BY ConsExists
    <2>2. Len(r) \in Nat /\ Len(u) = Len(r) + 1
        BY <2>1, ConsTyped
    <2>3. c # Quote
        BY <2>1, DoubleForms
    <2>4. CASE c # Back
        <3>1. r \in T
            BY <1>1, <2>2
        <3> QED BY <2>1, <2>3, <2>4, <3>1, DoubleForms
    <2>5. CASE c = Back
        <3>1. r # <<>>
            BY <2>1, <2>5, DoubleForms
        <3>2. PICK d \in Chars, t \in Seq(Chars) : r = Cons(d, t)
            BY <3>1, ConsExists
        <3>3. Len(t) \in Nat /\ Len(r) = Len(t) + 1
            BY <3>2, ConsTyped
        <3>4. t \in T
            BY <1>1, <2>2, <3>3
        <3>5. d \in Escapes /\ LoadDouble(t).valid
            BY <2>1, <2>5, <3>2, DoubleForms
        <3> QED BY <2>1, <2>5, <3>2, <3>4, <3>5
    <2> QED BY <2>4, <2>5
<1>2. \A u \in Seq(Chars) : u \in T
    <2> HIDE DEF T
    <2>1. \A u \in Seq(Chars) : (\A r \in Seq(Chars) : Len(r) < Len(u) => r \in T) => u \in T
        BY <1>1
    <2> QED BY <2>1, LengthInduction
<1> QED BY <1>2

\* The replacements, one kind after the other, make of it what a loader does.
Unescape(u) ==
    ReplaceChar(ReplacePair(ReplacePair(ReplacePair(u, Back, Back, <<Control>>),
                                        Back, Quote, <<Quote>>), Back, "n", <<Blank>>), Control, <<Back>>)

\* The order of the replacements is right: each escape is undone once.
LEMMA UnescapeLoads ==
    \A u \in Seq(Chars) : LoadDouble(u).valid /\ Clear(u) => Unescape(u) = LoadDouble(u).text
<1> DEFINE M(s) == ReplacePair(s, Back, Back, <<Control>>)
           Q(s) == ReplacePair(s, Back, Quote, <<Quote>>)
           N(s) == ReplacePair(s, Back, "n", <<Blank>>)
           C(s) == ReplaceChar(s, Control, <<Back>>)
           P == {u \in Seq(Chars) : Clear(u) => Unescape(u) = LoadDouble(u).text}
<1>1. \A u : Unescape(u) = C(N(Q(M(u))))
    BY DEF Unescape
<1>7. /\ M(<<>>) = <<>> /\ \A s \in Seq(Chars) : M(s) \in Seq(Chars)
      /\ \A c \in Chars, r \in Seq(Chars) : c # Back => M(Cons(c, r)) = Cons(c, M(r))
      /\ \A d \in Chars, r \in Seq(Chars) :
            M(Cons(Back, Cons(d, r))) = IF d = Back THEN Cons(Control, M(r)) ELSE Cons(Back, M(Cons(d, r)))
    <2>1. PairForms(Back, Back, Control)
        BY PairByOne, MarksTyped
    <2> QED BY <2>1 DEF PairForms
<1>8. /\ Q(<<>>) = <<>> /\ \A s \in Seq(Chars) : Q(s) \in Seq(Chars)
      /\ \A c \in Chars, r \in Seq(Chars) : c # Back => Q(Cons(c, r)) = Cons(c, Q(r))
      /\ \A d \in Chars, r \in Seq(Chars) :
            Q(Cons(Back, Cons(d, r))) = IF d = Quote THEN Cons(Quote, Q(r)) ELSE Cons(Back, Q(Cons(d, r)))
    <2>1. PairForms(Back, Quote, Quote)
        BY PairByOne, MarksTyped
    <2> QED BY <2>1 DEF PairForms
<1>9. /\ N(<<>>) = <<>> /\ \A s \in Seq(Chars) : N(s) \in Seq(Chars)
      /\ \A c \in Chars, r \in Seq(Chars) : c # Back => N(Cons(c, r)) = Cons(c, N(r))
      /\ \A d \in Chars, r \in Seq(Chars) :
            N(Cons(Back, Cons(d, r))) = IF d = "n" THEN Cons(Blank, N(r)) ELSE Cons(Back, N(Cons(d, r)))
    <2>1. PairForms(Back, "n", Blank)
        BY PairByOne, MarksTyped
    <2> QED BY <2>1 DEF PairForms
<1>10. /\ C(<<>>) = <<>> /\ \A s \in Seq(Chars) : C(s) \in Seq(Chars)
       /\ \A c \in Chars, r \in Seq(Chars) :
             C(Cons(c, r)) = IF c = Control THEN Cons(Back, C(r)) ELSE Cons(c, C(r))
    <2>1. CharByOne(Control, Back)
        BY CharForms, MarksTyped
    <2> QED BY <2>1 DEF CharByOne
<1> HIDE DEF M, Q, N, C
<1>11. <<>> \in P
    <2>1. Unescape(<<>>) = <<>>
        BY <1>1, <1>7, <1>8, <1>9, <1>10
    <2> QED BY <2>1, EmptyText, DoubleForms
<1>12. ASSUME NEW c \in Chars \ {Quote, Back}, NEW r \in Seq(Chars), LoadDouble(r).valid, r \in P
       PROVE  Cons(c, r) \in P
    <2>1. Cons(c, r) \in Seq(Chars) /\ LoadDouble(Cons(c, r)).text = Cons(c, LoadDouble(r).text)
        BY <1>12, ConsTyped, DoubleForms
    <2> SUFFICES ASSUME Clear(Cons(c, r)) PROVE Unescape(Cons(c, r)) = LoadDouble(Cons(c, r)).text
        BY <2>1
    <2>2. c # Control /\ Clear(r)
        BY ClearCons
    <2>3. M(Cons(c, r)) = Cons(c, M(r)) /\ M(r) \in Seq(Chars)
        BY <1>7
    <2>4. Q(Cons(c, M(r))) = Cons(c, Q(M(r))) /\ Q(M(r)) \in Seq(Chars)
        BY <1>8, <2>3
    <2>5. N(Cons(c, Q(M(r)))) = Cons(c, N(Q(M(r)))) /\ N(Q(M(r))) \in Seq(Chars)
        BY <1>9, <2>4
    <2>6. C(Cons(c, N(Q(M(r))))) = Cons(c, C(N(Q(M(r)))))
        BY <1>10, <2>2, <2>5
    <2>7. Unescape(r) = LoadDouble(r).text
        BY <1>12, <2>2
    <2> QED BY <1>1, <2>1, <2>3, <2>4, <2>5, <2>6, <2>7
<1>13. ASSUME NEW d \in Escapes, NEW r \in Seq(Chars), LoadDouble(r).valid, r \in P
       PROVE  Cons(Back, Cons(d, r)) \in P
    <2> DEFINE u == Cons(Back, Cons(d, r))
    <2>1. /\ d \in Chars /\ Cons(d, r) \in Seq(Chars) /\ u \in Seq(Chars)
          /\ LoadDouble(u).text = Cons(Unescaped(d), LoadDouble(r).text)
        BY <1>13, ConsTyped, MarksTyped, DoubleForms
    <2> SUFFICES ASSUME Clear(u) PROVE Unescape(u) = LoadDouble(u).text
        BY <2>1
    <2>2. Clear(r)
        BY <2>1, MarksTyped, ClearCons
    <2>3. Unescape(r) = LoadDouble(r).text
        BY <1>13, <2>2
    <2>4. Unescape(r) = C(N(Q(M(r)))) /\ Unescape(u) = C(N(Q(M(u))))
        BY <1>1
    <2>5. M(r) \in Seq(Chars) /\ Q(M(r)) \in Seq(Chars) /\ N(Q(M(r))) \in Seq(Chars)
        BY <1>7, <1>8, <1>9
    <2>6. CASE d = Back
        <3>1. M(u) = Cons(Control, M(r))
            BY <1>7, <2>1, <2>6
        <3>2. Q(M(u)) = Cons(Control, Q(M(r)))
            BY <1>8, <2>5, <3>1, MarksTyped, MarksDiffer
        <3>3. N(Q(M(u))) = Cons(Control, N(Q(M(r))))
            BY <1>9, <2>5, <3>2, MarksTyped, MarksDiffer
        <3>4. C(N(Q(M(u)))) = Cons(Back, C(N(Q(M(r)))))
            BY <1>10, <2>5, <3>3, MarksTyped
        <3>5. Unescaped(d) = Back
            BY <2>6, MarksDiffer DEF Unescaped
        <3> QED BY <2>1, <2>3, <2>4, <3>4, <3>5
    <2>7. CASE d = Quote
        <3>1. M(u) = Cons(Back, Cons(Quote, M(r)))
            BY <1>7, <2>1, <2>7, MarksDiffer
        <3>2. Q(M(u)) = Cons(Quote, Q(M(r)))
            BY <1>8, <2>5, <3>1, MarksTyped
        <3>3. N(Q(M(u))) = Cons(Quote, N(Q(M(r))))
            BY <1>9, <2>5, <3>2, MarksTyped, MarksDiffer
        <3>4. C(N(Q(M(u)))) = Cons(Quote, C(N(Q(M(r)))))
            BY <1>10, <2>5, <3>3, MarksTyped, MarksDiffer
        <3>5. Unescaped(d) = Quote
            BY <2>7, MarksDiffer DEF Unescaped
        <3> QED BY <2>1, <2>3, <2>4, <3>4, <3>5
    <2>8. CASE d = "n"
        <3>1. M(u) = Cons(Back, Cons(d, M(r)))
            BY <1>7, <2>1, <2>8, MarksDiffer
        <3>2. Q(M(u)) = Cons(Back, Cons(d, Q(M(r))))
            BY <1>8, <2>1, <2>5, <2>8, <3>1, MarksDiffer
        <3>3. N(Q(M(u))) = Cons(Blank, N(Q(M(r))))
            BY <1>9, <2>1, <2>5, <2>8, <3>2
        <3>4. C(N(Q(M(u)))) = Cons(Blank, C(N(Q(M(r)))))
            BY <1>10, <2>5, <3>3, MarksTyped, MarksDiffer
        <3>5. Unescaped(d) = Blank
            BY <2>8 DEF Unescaped
        <3> QED BY <2>1, <2>3, <2>4, <3>4, <3>5
    <2> QED BY <2>6, <2>7, <2>8 DEF Escapes
<1> HIDE DEF P
<1>14. /\ \A c \in Chars \ {Quote, Back}, r \in Seq(Chars) : LoadDouble(r).valid /\ r \in P => Cons(c, r) \in P
       /\ \A d \in Escapes, r \in Seq(Chars) : LoadDouble(r).valid /\ r \in P => Cons(Back, Cons(d, r)) \in P
    BY <1>12, <1>13
<1>15. \A u \in Seq(Chars) : LoadDouble(u).valid => u \in P
    BY <1>11, <1>14, DoubleInduction
<1> QED BY <1>15 DEF P

\* What Escaped writes, a loader reads.
LEMMA EscapedLoads ==
    \A s \in Seq(Chars) : /\ Escaped(s) \in Seq(Chars)
                           /\ LoadDouble(Escaped(s)).valid /\ LoadDouble(Escaped(s)).text = s
<1> DEFINE B(s) == ReplaceChar(s, Back, <<Back, Back>>)
           Q(s) == ReplaceChar(s, Quote, <<Back, Quote>>)
           P == {s \in Seq(Chars) : LoadDouble(Escaped(s)).valid /\ LoadDouble(Escaped(s)).text = s}
<1>1. /\ B(<<>>) = <<>> /\ \A s \in Seq(Chars) : B(s) \in Seq(Chars)
      /\ \A c \in Chars, r \in Seq(Chars) :
            B(Cons(c, r)) = IF c = Back THEN Cons(Back, Cons(Back, B(r))) ELSE Cons(c, B(r))
    <2>1. CharByTwo(Back, Back, Back)
        BY CharForms, MarksTyped
    <2> QED BY <2>1 DEF CharByTwo
<1>2. /\ Q(<<>>) = <<>> /\ \A s \in Seq(Chars) : Q(s) \in Seq(Chars)
      /\ \A c \in Chars, r \in Seq(Chars) :
            Q(Cons(c, r)) = IF c = Quote THEN Cons(Back, Cons(Quote, Q(r))) ELSE Cons(c, Q(r))
    <2>1. CharByTwo(Quote, Back, Quote)
        BY CharForms, MarksTyped
    <2> QED BY <2>1 DEF CharByTwo
<1>3. \A s : Escaped(s) = Q(B(s))
    BY DEF Escaped
<1> HIDE DEF B, Q
<1>4. <<>> \in P
    <2>1. Escaped(<<>>) = <<>>
        BY <1>1, <1>2, <1>3
    <2> QED BY <2>1, EmptyText, DoubleForms
<1>5. ASSUME NEW c \in Chars, NEW r \in Seq(Chars), r \in P PROVE Cons(c, r) \in P
    <2> DEFINE e == Escaped(r)
               s == Cons(c, r)
    <2>1. e = Q(B(r)) /\ B(r) \in Seq(Chars) /\ e \in Seq(Chars) /\ Escaped(s) = Q(B(s))
        BY <1>1, <1>2, <1>3
    <2>2. s \in Seq(Chars) /\ Cons(Back, B(r)) \in Seq(Chars)
        BY <2>1, ConsTyped, MarksTyped
    <2>3. LoadDouble(e).valid /\ LoadDouble(e).text = r
        BY <1>5
    <2> HIDE DEF e
    <2>4. CASE c = Back
        <3>1. B(s) = Cons(Back, Cons(Back, B(r)))
            BY <1>1, <2>4
        <3>2. Q(B(s)) = Cons(Back, Cons(Back, e))
            BY <1>2, <2>1, <2>2, <3>1, MarksTyped, MarksDiffer
        <3>3. Back \in Escapes /\ Unescaped(Back) = Back
            BY MarksDiffer DEF Escapes, Unescaped
        <3> QED BY <2>1, <2>2, <2>3, <2>4, <3>2, <3>3, DoubleForms
    <2>5. CASE c = Quote
        <3>1. B(s) = Cons(Quote, B(r))
            BY <1>1, <2>5, MarksDiffer
        <3>2. Q(B(s)) = Cons(Back, Cons(Quote, e))
            BY <1>2, <2>1, <3>1, MarksTyped
        <3>3. Quote \in Escapes /\ Unescaped(Quote) = Quote
            BY MarksDiffer DEF Escapes, Unescaped
        <3> QED BY <2>1, <2>2, <2>3, <2>5, <3>2, <3>3, DoubleForms
    <2>6. CASE c \notin {Quote, Back}
        <3>1. B(s) = Cons(c, B(r))
            BY <1>1, <2>6
        <3>2. Q(B(s)) = Cons(c, e)
            BY <1>2, <2>1, <2>6, <3>1
        <3> QED BY <2>1, <2>2, <2>3, <2>6, <3>2, DoubleForms
    <2> QED BY <2>4, <2>5, <2>6
<1>6. \A s \in Seq(Chars) : s \in P
    <2> HIDE DEF P
    <2>1. \A c \in Chars, r \in Seq(Chars) : r \in P => Cons(c, r) \in P
        BY <1>5
    <2> QED BY <1>4, <2>1, ConsInduction
<1> QED BY <1>1, <1>2, <1>3, <1>6
-----------------------------------------------------------------------------
(***************************************************************************)
(* Runs of blanks.                                                         *)
(***************************************************************************)
StartsBlank(x) == x # <<>> /\ x[1] = Blank

\* A text with a character more begins with it.
LEMMA ConsFirst ==
    \A c \in Chars, r \in Seq(Chars) : Cons(c, r) # <<>> /\ Cons(c, r)[1] = c
BY ConsFacts

\* A character squeezed in: it stays, or goes.
LEMMA KeptForms ==
    /\ \A c \in Chars, x \in Seq(Chars) : c \notin {Control, Blank} => Kept(c, x) = Cons(c, x)
    /\ \A x \in Seq(Chars) : Kept(Blank, x) = IF StartsBlank(x) THEN x ELSE Cons(Blank, x)
    /\ \A x \in Seq(Chars) : Kept(Control, x) = x
    /\ \A x \in Seq(Chars) : StartsBlank(Kept(Blank, x))
    /\ \A c \in Chars, x \in Seq(Chars) : Kept(c, x) \in Seq(Chars)
<1>1. Control # Blank
    BY MarksDiffer
<1>2. /\ \A c \in Chars, x \in Seq(Chars) : c \notin {Control, Blank} => Kept(c, x) = Cons(c, x)
      /\ \A x \in Seq(Chars) : Kept(Blank, x) = IF StartsBlank(x) THEN x ELSE Cons(Blank, x)
      /\ \A x \in Seq(Chars) : Kept(Control, x) = x
    BY <1>1, OneInFront DEF Kept, StartsBlank
<1>3. \A x \in Seq(Chars) : StartsBlank(Kept(Blank, x))
    BY <1>2, MarksTyped, ConsFirst DEF StartsBlank
<1>4. \A c \in Chars, x \in Seq(Chars) : Kept(c, x) \in Seq(Chars)
    BY KeptTyped
<1> QED BY <1>2, <1>3, <1>4

\* Runs of blanks squeezed, from the first character on.
LEMMA CollapsedForms ==
    /\ Collapsed(<<>>) = <<>>
    /\ \A s \in Seq(Chars) : Collapsed(s) \in Seq(Chars)
    /\ \A c \in Chars, r \in Seq(Chars) : Collapsed(Cons(c, r)) = Kept(c, Collapsed(r))
<1>1. CollapsedRules(Chars)
    BY CollapsedValue
<1> QED BY <1>1 DEF CollapsedRules

\* No text gets longer, and none keeps what tr -d drops.
LEMMA CollapsedClear ==
    \A s \in Seq(Chars) : Clear(Collapsed(s)) /\ Len(Collapsed(s)) <= Len(s)
<1> DEFINE P == {s \in Seq(Chars) : Clear(Collapsed(s)) /\ Len(Collapsed(s)) <= Len(s)}
<1>1. <<>> \in P
    BY EmptyText, CollapsedForms, ClearCons
<1>2. ASSUME NEW c \in Chars, NEW r \in Seq(Chars), r \in P PROVE Cons(c, r) \in P
    <2>1. Cons(c, r) \in Seq(Chars) /\ Len(Cons(c, r)) = Len(r) + 1 /\ Len(r) \in Nat
        BY ConsTyped
    <2>2. Collapsed(r) \in Seq(Chars) /\ Collapsed(Cons(c, r)) = Kept(c, Collapsed(r))
        BY CollapsedForms
    <2>3. Len(Cons(c, Collapsed(r))) = Len(Collapsed(r)) + 1 /\ Len(Collapsed(r)) \in Nat
        BY <2>2, ConsTyped
    <2>4. \/ Collapsed(Cons(c, r)) = Collapsed(r)
          \/ c # Control /\ Collapsed(Cons(c, r)) = Cons(c, Collapsed(r))
        BY <2>2, KeptForms, MarksDiffer
    <2> QED BY <1>2, <2>1, <2>2, <2>3, <2>4, ClearCons
<1> HIDE DEF P
<1>3. \A c \in Chars, r \in Seq(Chars) : r \in P => Cons(c, r) \in P
    BY <1>2
<1>4. \A s \in Seq(Chars) : s \in P
    BY <1>1, <1>3, ConsInduction
<1> QED BY <1>4 DEF P

\* What may stand between the quotes of a scalar may do so without its runs
\* of blanks, and then means the same, runs of blanks aside.
LEMMA CollapsedDouble ==
    \A u \in Seq(Chars) : LoadDouble(u).valid /\ Clear(u)
       => /\ LoadDouble(Collapsed(u)).valid
          /\ Collapsed(LoadDouble(Collapsed(u)).text) = Collapsed(LoadDouble(u).text)
          /\ Len(LoadDouble(Collapsed(u)).text) <= Len(LoadDouble(u).text)
<1> DEFINE D(u) == LoadDouble(u)
           T(u) == LoadDouble(u).text
           C(u) == Collapsed(u)
           Good(u) == D(C(u)).valid /\ C(T(C(u))) = C(T(u)) /\ Len(T(C(u))) <= Len(T(u))
           P == {u \in Seq(Chars) : Clear(u) => Good(u)}
<1>1. \A u \in Seq(Chars) : T(u) \in Seq(Chars)
    <2>1. DoubleRules(Chars)
        BY DoubleValue, MarksTyped
    <2> QED BY <2>1, PrefixedTyped DEF DoubleRules
<1>2. <<>> \in P
    BY EmptyText, DoubleForms, CollapsedForms
<1>3. ASSUME NEW c \in Chars \ {Quote, Back}, NEW r \in Seq(Chars), D(r).valid, r \in P
      PROVE  Cons(c, r) \in P
    <2> DEFINE u == Cons(c, r)
    <2> SUFFICES ASSUME Clear(u) PROVE Good(u)
        BY ConsTyped
    <2>1. c # Control /\ Clear(r) /\ Good(r)
        BY <1>3, ClearCons
    <2>2. C(u) = Kept(c, C(r)) /\ C(r) \in Seq(Chars) /\ T(u) = Cons(c, T(r)) /\ T(r) \in Seq(Chars)
        BY <1>1, <1>3, CollapsedForms, DoubleForms
    <2>3. C(T(u)) = Kept(c, C(T(r))) /\ Len(T(u)) = Len(T(r)) + 1 /\ Len(T(r)) \in Nat /\ C(T(r)) \in Seq(Chars)
        BY <2>2, CollapsedForms, ConsTyped
    <2> HIDE DEF u, D, T, C
    <2>4. CASE C(u) = Cons(c, C(r))
        <3>1. D(C(u)).valid /\ T(C(u)) = Cons(c, T(C(r))) /\ T(C(r)) \in Seq(Chars)
            BY <1>1, <2>1, <2>2, <2>4, DoubleForms DEF D, T
        <3>2. C(T(C(u))) = Kept(c, C(T(C(r)))) /\ Len(T(C(u))) = Len(T(C(r))) + 1 /\ Len(T(C(r))) \in Nat
            BY <3>1, CollapsedForms, ConsTyped DEF C
        <3> QED BY <2>1, <2>3, <3>1, <3>2
    <2>5. CASE C(u) # Cons(c, C(r))
        <3>1. c = Blank /\ StartsBlank(C(r)) /\ C(u) = C(r)
            BY <2>1, <2>2, <2>5, KeptForms
        <3>2. PICK d \in Chars, y \in Seq(Chars) : C(r) = Cons(d, y)
            BY <2>2, <3>1, ConsExists DEF StartsBlank
        <3>3. d = Blank
            BY <3>1, <3>2, ConsFirst DEF StartsBlank
        <3>4. Blank \notin {Quote, Back}
            BY MarksDiffer
        <3>5. T(C(r)) = Cons(Blank, T(y)) /\ T(y) \in Seq(Chars)
            BY <1>1, <2>1, <3>2, <3>3, <3>4, MarksTyped, DoubleForms DEF D, T
        <3>6. C(T(C(r))) = Kept(Blank, C(T(y))) /\ C(T(y)) \in Seq(Chars)
            BY <3>5, CollapsedForms, MarksTyped DEF C
        <3>7. StartsBlank(C(T(r)))
            BY <2>1, <3>6, KeptForms
        <3>8. C(T(u)) = C(T(r))
            BY <2>3, <3>1, <3>7, KeptForms
        <3>9. T(C(r)) \in Seq(Chars) /\ Len(T(C(r))) \in Nat
            BY <1>1, <2>2
        <3> QED BY <2>1, <2>3, <3>1, <3>8, <3>9
    <2> QED BY <2>4, <2>5
<1>4. ASSUME NEW d \in Escapes, NEW r \in Seq(Chars), D(r).valid, r \in P
      PROVE  Cons(Back, Cons(d, r)) \in P
    <2> DEFINE u == Cons(Back, Cons(d, r))
               e == Unescaped(d)
    <2>1. d \in Chars /\ Back \in Chars /\ d \notin {Control, Blank} /\ Back \notin {Control, Blank} /\ e \in Chars
        BY MarksTyped, MarksDiffer DEF Escapes, Unescaped
    <2>2. Cons(d, r) \in Seq(Chars) /\ u \in Seq(Chars)
        BY <2>1, ConsTyped
    <2> SUFFICES ASSUME Clear(u) PROVE Good(u)
        BY <2>2
    <2>3. Good(r)
        BY <1>4, <2>1, <2>2, ClearCons
    <2>4. C(r) \in Seq(Chars) /\ C(Cons(d, r)) = Cons(d, C(r)) /\ C(u) = Cons(Back, Cons(d, C(r)))
        BY <2>1, <2>2, CollapsedForms, KeptForms, ConsTyped
    <2>5. T(u) = Cons(e, T(r)) /\ T(r) \in Seq(Chars)
        BY <1>1, <1>4, DoubleForms
    <2>6. D(C(u)).valid /\ T(C(u)) = Cons(e, T(C(r))) /\ T(C(r)) \in Seq(Chars)
        BY <1>1, <2>3, <2>4, DoubleForms
    <2>7. /\ C(T(u)) = Kept(e, C(T(r))) /\ C(T(C(u))) = Kept(e, C(T(C(r))))
          /\ Len(T(u)) = Len(T(r)) + 1 /\ Len(T(C(u))) = Len(T(C(r))) + 1
          /\ Len(T(r)) \in Nat /\ Len(T(C(r))) \in Nat
        BY <2>1, <2>5, <2>6, CollapsedForms, ConsTyped
    <2> HIDE DEF u, e, D, T, C
    <2> QED BY <2>3, <2>6, <2>7
<1> HIDE DEF P
<1>5. /\ \A c \in Chars \ {Quote, Back}, r \in Seq(Chars) : LoadDouble(r).valid /\ r \in P => Cons(c, r) \in P
      /\ \A d \in Escapes, r \in Seq(Chars) : LoadDouble(r).valid /\ r \in P => Cons(Back, Cons(d, r)) \in P
    BY <1>3, <1>4
<1>6. \A u \in Seq(Chars) : LoadDouble(u).valid => u \in P
    BY <1>2, <1>5, DoubleInduction
<1> QED BY <1>6 DEF P

\* The same for single quotes.
LEMMA SingleForms ==
    /\ LoadSingle(<<>>).valid /\ LoadSingle(<<>>).text = <<>>
    /\ \A s \in Seq(Chars) : LoadSingle(s).text \in Seq(Chars)
    /\ \A c \in Chars \ {Apostrophe}, r \in Seq(Chars) :
          /\ LoadSingle(Cons(c, r)).valid <=> LoadSingle(r).valid
          /\ LoadSingle(r).valid => LoadSingle(Cons(c, r)).text = Cons(c, LoadSingle(r).text)
    /\ ~LoadSingle(Cons(Apostrophe, <<>>)).valid
    /\ \A d \in Chars \ {Apostrophe}, r \in Seq(Chars) : ~LoadSingle(Cons(Apostrophe, Cons(d, r))).valid
    /\ \A r \in Seq(Chars) :
          /\ LoadSingle(Cons(Apostrophe, Cons(Apostrophe, r))).valid <=> LoadSingle(r).valid
          /\ LoadSingle(r).valid
                => LoadSingle(Cons(Apostrophe, Cons(Apostrophe, r))).text = Cons(Apostrophe, LoadSingle(r).text)
<1>1. SingleRules(Chars)
    BY SingleValue
<1>2. ~NoValue.valid /\ \A s : Value(s).valid /\ Value(s).text = s
    BY DEF NoValue, Value
<1>3. \A c, v : (v.valid => Prefixed(c, v) = Value(Cons(c, v.text))) /\ (~v.valid => Prefixed(c, v) = NoValue)
    BY OneInFront DEF Prefixed
<1>4. \A c, v : (Prefixed(c, v).valid <=> v.valid) /\ (v.valid => Prefixed(c, v).text = Cons(c, v.text))
    BY <1>2, <1>3
<1>5. \A s \in Seq(Chars) : LoadSingle(s).text \in Seq(Chars)
    BY <1>1, PrefixedTyped DEF SingleRules
<1> QED BY <1>1, <1>2, <1>4, <1>5, MarksTyped DEF SingleRules

\* Induction along what loads: a character that means itself, or a quote
\* that is doubled.
LEMMA SingleInduction ==
    ASSUME NEW P, <<>> \in P,
           \A c \in Chars \ {Apostrophe}, r \in Seq(Chars) :
               LoadSingle(r).valid /\ r \in P => Cons(c, r) \in P,
           \A r \in Seq(Chars) :
               LoadSingle(r).valid /\ r \in P => Cons(Apostrophe, Cons(Apostrophe, r)) \in P
    PROVE  \A u \in Seq(Chars) : LoadSingle(u).valid => u \in P
<1> DEFINE T == {u \in Seq(Chars) : LoadSingle(u).valid => u \in P}
<1>1. ASSUME NEW u \in Seq(Chars), \A r \in Seq(Chars) : Len(r) < Len(u) => r \in T PROVE u \in T
    <2> SUFFICES ASSUME LoadSingle(u).valid, u # <<>> PROVE u \in P
        OBVIOUS
    <2>1. PICK c \in Chars, r \in Seq(Chars) : u = Cons(c, r)
        BY ConsExists
    <2>2. Len(r) \in Nat /\ Len(u) = Len(r) + 1
        BY <2>1, ConsTyped
    <2>4. CASE c # Apostrophe
        <3>1. r \in T
            BY <1>1, <2>2
        <3> QED BY <2>1, <2>4, <3>1, SingleForms
    <2>5. CASE c = Apostrophe
        <3>1. r # <<>>
            BY <2>1, <2>5, SingleForms
        <3>2. PICK d \in Chars, t \in Seq(Chars) : r = Cons(d, t)
            BY <3>1, ConsExists
        <3>3. Len(t) \in Nat /\ Len(r) = Len(t) + 1
            BY <3>2, ConsTyped
        <3>4. t \in T
            BY <1>1, <2>2, <3>3
        <3>5. d = Apostrophe /\ LoadSingle(t).valid
            BY <2>1, <2>5, <3>2, SingleForms
        <3> QED BY <2>1, <2>5, <3>2, <3>4, <3>5
    <2> QED BY <2>4, <2>5
<1>2. \A u \in Seq(Chars) : u \in T
    <2> HIDE DEF T
    <2>1. \A u \in Seq(Chars) : (\A r \in Seq(Chars) : Len(r) < Len(u) => r \in T) => u \in T
        BY <1>1
    <2> QED BY <2>1, LengthInduction
<1> QED BY <1>2

\* The replacement makes of it what a loader does.
LEMMA UndoubleLoads ==
    \A u \in Seq(Chars) : LoadSingle(u).valid
       => ReplacePair(u, Apostrophe, Apostrophe, <<Apostrophe>>) = LoadSingle(u).text
<1> DEFINE R(s) == ReplacePair(s, Apostrophe, Apostrophe, <<Apostrophe>>)
           P == {u \in Seq(Chars) : R(u) = LoadSingle(u).text}
<1>1. /\ R(<<>>) = <<>>
      /\ \A c \in Chars, r \in Seq(Chars) : c # Apostrophe => R(Cons(c, r)) = Cons(c, R(r))
      /\ \A r \in Seq(Chars) : R(Cons(Apostrophe, Cons(Apostrophe, r))) = Cons(Apostrophe, R(r))
    <2>1. PairForms(Apostrophe, Apostrophe, Apostrophe)
        BY PairByOne, MarksTyped
    <2> QED BY <2>1, MarksTyped DEF PairForms
<1> HIDE DEF R
<1>2. <<>> \in P
    BY <1>1, EmptyText, SingleForms
<1>3. /\ \A c \in Chars \ {Apostrophe}, r \in Seq(Chars) : LoadSingle(r).valid /\ r \in P => Cons(c, r) \in P
      /\ \A r \in Seq(Chars) : LoadSingle(r).valid /\ r \in P => Cons(Apostrophe, Cons(Apostrophe, r)) \in P
    <2>1. ASSUME NEW c \in Chars \ {Apostrophe}, NEW r \in Seq(Chars), LoadSingle(r).valid, r \in P
          PROVE  Cons(c, r) \in P
        <3>1. R(Cons(c, r)) = Cons(c, R(r)) /\ Cons(c, r) \in Seq(Chars)
            BY <1>1, ConsTyped
        <3> QED BY <2>1, <3>1, SingleForms
    <2>2. ASSUME NEW r \in Seq(Chars), LoadSingle(r).valid, r \in P
          PROVE  Cons(Apostrophe, Cons(Apostrophe, r)) \in P
        <3>1. Cons(Apostrophe, Cons(Apostrophe, r)) \in Seq(Chars)
            BY ConsTyped, MarksTyped
        <3> QED BY <1>1, <2>2, <3>1, SingleForms
    <2> QED BY <2>1, <2>2
<1> HIDE DEF P
<1>4. \A u \in Seq(Chars) : LoadSingle(u).valid => u \in P
    BY <1>2, <1>3, SingleInduction
<1> QED BY <1>4 DEF P, R

\* What may stand between single quotes may do so without its runs of blanks.
LEMMA CollapsedSingle ==
    \A u \in Seq(Chars) : LoadSingle(u).valid /\ Clear(u)
       => /\ LoadSingle(Collapsed(u)).valid
          /\ Collapsed(LoadSingle(Collapsed(u)).text) = Collapsed(LoadSingle(u).text)
          /\ Len(LoadSingle(Collapsed(u)).text) <= Len(LoadSingle(u).text)
<1> DEFINE D(u) == LoadSingle(u)
           T(u) == LoadSingle(u).text
           C(u) == Collapsed(u)
           Good(u) == D(C(u)).valid /\ C(T(C(u))) = C(T(u)) /\ Len(T(C(u))) <= Len(T(u))
           P == {u \in Seq(Chars) : Clear(u) => Good(u)}
<1>1. \A u \in Seq(Chars) : T(u) \in Seq(Chars)
    BY SingleForms
<1>2. <<>> \in P
    BY EmptyText, SingleForms, CollapsedForms
<1>3. ASSUME NEW c \in Chars \ {Apostrophe}, NEW r \in Seq(Chars), D(r).valid, r \in P
      PROVE  Cons(c, r) \in P
    <2> DEFINE u == Cons(c, r)
    <2> SUFFICES ASSUME Clear(u) PROVE Good(u)
        BY ConsTyped
    <2>1. c # Control /\ Clear(r) /\ Good(r)
        BY <1>3, ClearCons
    <2>2. C(u) = Kept(c, C(r)) /\ C(r) \in Seq(Chars) /\ T(u) = Cons(c, T(r)) /\ T(r) \in Seq(Chars)
        BY <1>1, <1>3, CollapsedForms, SingleForms
    <2>3. C(T(u)) = Kept(c, C(T(r))) /\ Len(T(u)) = Len(T(r)) + 1 /\ Len(T(r)) \in Nat /\ C(T(r)) \in Seq(Chars)
        BY <2>2, CollapsedForms, ConsTyped
    <2> HIDE DEF u, D, T, C
    <2>4. CASE C(u) = Cons(c, C(r))
        <3>1. D(C(u)).valid /\ T(C(u)) = Cons(c, T(C(r))) /\ T(C(r)) \in Seq(Chars)
            BY <1>1, <2>1, <2>2, <2>4, SingleForms DEF D, T
        <3>2. C(T(C(u))) = Kept(c, C(T(C(r)))) /\ Len(T(C(u))) = Len(T(C(r))) + 1 /\ Len(T(C(r))) \in Nat
            BY <3>1, CollapsedForms, ConsTyped DEF C
        <3> QED BY <2>1, <2>3, <3>1, <3>2
    <2>5. CASE C(u) # Cons(c, C(r))
        <3>1. c = Blank /\ StartsBlank(C(r)) /\ C(u) = C(r)
            BY <2>1, <2>2, <2>5, KeptForms
        <3>2. PICK d \in Chars, y \in Seq(Chars) : C(r) = Cons(d, y)
            BY <2>2, <3>1, ConsExists DEF StartsBlank
        <3>3. d = Blank
            BY <3>1, <3>2, ConsFirst DEF StartsBlank
        <3>4. Blank # Apostrophe
            BY MarksDiffer
        <3>5. T(C(r)) = Cons(Blank, T(y)) /\ T(y) \in Seq(Chars)
            BY <1>1, <2>1, <3>2, <3>3, <3>4, MarksTyped, SingleForms DEF D, T
        <3>6. C(T(C(r))) = Kept(Blank, C(T(y))) /\ C(T(y)) \in Seq(Chars)
            BY <3>5, CollapsedForms, MarksTyped DEF C
        <3>7. StartsBlank(C(T(r)))
            BY <2>1, <3>6, KeptForms
        <3>8. C(T(u)) = C(T(r))
            BY <2>3, <3>1, <3>7, KeptForms
        <3>9. T(C(r)) \in Seq(Chars) /\ Len(T(C(r))) \in Nat
            BY <1>1, <2>2
        <3> QED BY <2>1, <2>3, <3>1, <3>8, <3>9
    <2> QED BY <2>4, <2>5
<1>4. ASSUME NEW r \in Seq(Chars), D(r).valid, r \in P
      PROVE  Cons(Apostrophe, Cons(Apostrophe, r)) \in P
    <2> DEFINE e == Apostrophe
               u == Cons(e, Cons(e, r))
    <2>1. e \in Chars /\ e \notin {Control, Blank}
        BY MarksTyped, MarksDiffer
    <2>2. Cons(e, r) \in Seq(Chars) /\ u \in Seq(Chars)
        BY <2>1, ConsTyped
    <2> SUFFICES ASSUME Clear(u) PROVE Good(u)
        BY <2>2
    <2>3. Good(r)
        BY <1>4, <2>1, <2>2, ClearCons
    <2>4. C(r) \in Seq(Chars) /\ C(Cons(e, r)) = Cons(e, C(r)) /\ C(u) = Cons(e, Cons(e, C(r)))
        BY <2>1, <2>2, CollapsedForms, KeptForms, ConsTyped
    <2>5. T(u) = Cons(e, T(r)) /\ T(r) \in Seq(Chars)
        BY <1>1, <1>4, SingleForms
    <2>6. D(C(u)).valid /\ T(C(u)) = Cons(e, T(C(r))) /\ T(C(r)) \in Seq(Chars)
        BY <1>1, <2>3, <2>4, SingleForms
    <2>7. /\ C(T(u)) = Kept(e, C(T(r))) /\ C(T(C(u))) = Kept(e, C(T(C(r))))
          /\ Len(T(u)) = Len(T(r)) + 1 /\ Len(T(C(u))) = Len(T(C(r))) + 1
          /\ Len(T(r)) \in Nat /\ Len(T(C(r))) \in Nat
        BY <2>1, <2>5, <2>6, CollapsedForms, ConsTyped
    <2> HIDE DEF u, e, D, T, C
    <2> QED BY <2>3, <2>6, <2>7
<1> HIDE DEF P
<1>5. /\ \A c \in Chars \ {Apostrophe}, r \in Seq(Chars) : LoadSingle(r).valid /\ r \in P => Cons(c, r) \in P
      /\ \A r \in Seq(Chars) : LoadSingle(r).valid /\ r \in P => Cons(Apostrophe, Cons(Apostrophe, r)) \in P
    BY <1>3, <1>4
<1>6. \A u \in Seq(Chars) : LoadSingle(u).valid => u \in P
    BY <1>2, <1>5, SingleInduction
<1> QED BY <1>6 DEF P
-----------------------------------------------------------------------------
(***************************************************************************)
(* Parts of texts, and what is left of one by the trimming.                *)
(***************************************************************************)
\* No character that tr -d drops, no two blanks together.
Tidy(x) == Clear(x) /\ \A i \in 1..(Len(x) - 1) : ~(x[i] = Blank /\ x[i + 1] = Blank)

\* A text is tidy if its rest is and its first character changes nothing.
LEMMA TidyCons ==
    /\ Tidy(<<>>)
    /\ \A c \in Chars, r \in Seq(Chars) :
          Tidy(Cons(c, r)) <=> c # Control /\ Tidy(r) /\ ~(c = Blank /\ StartsBlank(r))
<1>1. Tidy(<<>>)
    BY ClearCons DEF Tidy
<1>2. ASSUME NEW c \in Chars, NEW r \in Seq(Chars)
      PROVE  Tidy(Cons(c, r)) <=> c # Control /\ Tidy(r) /\ ~(c = Blank /\ StartsBlank(r))
    <2> DEFINE s == Cons(c, r)
               n == Len(r)
    <2>1. /\ n \in Nat /\ Len(s) = n + 1 /\ s[1] = c /\ \A i \in 1..n : s[i + 1] = r[i]
        BY ConsFacts
    <2>2. StartsBlank(r) <=> n # 0 /\ r[1] = Blank
        BY DEF StartsBlank
    <2>3. Clear(s) <=> c # Control /\ Clear(r)
        BY ClearCons
    <2> HIDE DEF s
    <2>4. (\A i \in 1..(Len(s) - 1) : ~(s[i] = Blank /\ s[i + 1] = Blank))
             <=> /\ \A i \in 1..(Len(r) - 1) : ~(r[i] = Blank /\ r[i + 1] = Blank)
                 /\ ~(c = Blank /\ StartsBlank(r))
        <3> HIDE DEF n
        <3>1. ASSUME \A i \in 1..n : ~(s[i] = Blank /\ s[i + 1] = Blank)
              PROVE  /\ \A i \in 1..(n - 1) : ~(r[i] = Blank /\ r[i + 1] = Blank)
                     /\ ~(c = Blank /\ StartsBlank(r))
            <4>1. \A i \in 1..(n - 1) : i + 1 \in 1..n /\ i \in 1..n
                BY <2>1
            <4>2. \A i \in 1..(n - 1) : s[i + 1] = r[i] /\ s[(i + 1) + 1] = r[i + 1]
                BY <2>1, <4>1
            <4>3. n # 0 => 1 \in 1..n /\ s[1 + 1] = r[1]
                BY <2>1
            <4> QED BY <2>1, <2>2, <3>1, <4>1, <4>2, <4>3
        <3>2. ASSUME \A i \in 1..(n - 1) : ~(r[i] = Blank /\ r[i + 1] = Blank),
                     ~(c = Blank /\ StartsBlank(r)),
                     NEW i \in 1..n
              PROVE  ~(s[i] = Blank /\ s[i + 1] = Blank)
            <4>1. CASE i = 1
                <5>1. s[i + 1] = r[1] /\ n # 0 /\ s[i] = c
                    BY <2>1, <4>1
                <5> QED BY <2>2, <3>2, <5>1
            <4>2. CASE i # 1
                <5>1. i - 1 \in 1..(n - 1) /\ i - 1 \in 1..n /\ (i - 1) + 1 = i
                    BY <2>1, <4>2
                <5>2. s[i] = r[i - 1] /\ s[i + 1] = r[i]
                    BY <2>1, <5>1
                <5> QED BY <3>2, <5>1, <5>2
            <4> QED BY <4>1, <4>2
        <3>3. Len(s) - 1 = n
            BY <2>1
        <3> QED BY <3>1, <3>2, <3>3 DEF n
    <2> QED BY <2>3, <2>4 DEF Tidy, s
<1> QED BY <1>1, <1>2

\* Squeezing makes a text tidy, and leaves a tidy one alone.
LEMMA CollapsedTidy ==
    \A s \in Seq(Chars) : Tidy(Collapsed(s)) /\ (Tidy(s) => Collapsed(s) = s)
<1> DEFINE P == {s \in Seq(Chars) : Tidy(Collapsed(s)) /\ (Tidy(s) => Collapsed(s) = s)}
<1>1. <<>> \in P
    BY EmptyText, CollapsedForms, TidyCons
<1>2. ASSUME NEW c \in Chars, NEW r \in Seq(Chars), r \in P PROVE Cons(c, r) \in P
    <2>1. Collapsed(Cons(c, r)) = Kept(c, Collapsed(r)) /\ Collapsed(r) \in Seq(Chars) /\ Cons(c, r) \in Seq(Chars)
        BY CollapsedForms, ConsTyped
    <2>2. \/ Collapsed(Cons(c, r)) = Collapsed(r) /\ (c = Control \/ (c = Blank /\ StartsBlank(Collapsed(r))))
          \/ /\ Collapsed(Cons(c, r)) = Cons(c, Collapsed(r))
             /\ c # Control /\ ~(c = Blank /\ StartsBlank(Collapsed(r)))
        BY <2>1, KeptForms, MarksDiffer
    <2> QED BY <1>2, <2>1, <2>2, TidyCons
<1> HIDE DEF P
<1>3. \A c \in Chars, r \in Seq(Chars) : r \in P => Cons(c, r) \in P
    BY <1>2
<1>4. \A s \in Seq(Chars) : s \in P
    BY <1>1, <1>3, ConsInduction
<1> QED BY <1>4 DEF P

\* A part is no worse than the whole.
PartOf(x, s) ==
    /\ x \in Seq(Chars) /\ Len(x) <= Len(s)
    /\ Clear(s) => Clear(x)
    /\ Tidy(s) => Tidy(x)

\* What SubSeq cuts out is a part.
LEMMA Parts ==
    ASSUME NEW s \in Seq(Chars), NEW m \in Nat, NEW n \in Nat, 1 <= m, n <= Len(s)
    PROVE  /\ PartOf(SubSeq(s, m, n), s)
           /\ Len(SubSeq(s, m, n)) = IF m <= n THEN n - m + 1 ELSE 0
           /\ \A i \in 1..Len(SubSeq(s, m, n)) : SubSeq(s, m, n)[i] = s[m + i - 1]
<1> DEFINE x == SubSeq(s, m, n)
           k == Len(x)
<1>1. /\ x \in Seq(Chars) /\ k = (IF m <= n THEN n - m + 1 ELSE 0)
      /\ \A i \in 1..k : x[i] = s[m + i - 1]
      /\ k \in Nat /\ Len(s) \in Nat
    OBVIOUS
<1>2. k <= Len(s) /\ \A i \in 1..k : m + i - 1 \in 1..Len(s)
    <2> HIDE DEF x, k
    <2> QED BY <1>1
<1> HIDE DEF x
<1>3. Clear(s) => Clear(x)
    <2> SUFFICES ASSUME Clear(s), NEW v \in ToSet(x) PROVE v \in ToSet(s)
        BY DEF Clear
    <2>1. PICK i \in 1..k : v = x[i]
        BY <1>1 DEF ToSet
    <2>2. v = s[m + i - 1] /\ m + i - 1 \in 1..Len(s)
        BY <1>1, <1>2, <2>1
    <2> QED BY <2>2 DEF ToSet
<1>4. ASSUME Tidy(s), NEW i \in 1..(k - 1) PROVE ~(x[i] = Blank /\ x[i + 1] = Blank)
    <2> HIDE DEF k
    <2>1. i \in 1..k /\ i + 1 \in 1..k
        BY <1>1
    <2>2. x[i] = s[m + i - 1] /\ x[i + 1] = s[m + (i + 1) - 1] /\ m + (i + 1) - 1 = (m + i - 1) + 1
        BY <1>1, <2>1
    <2>3. m + i - 1 \in 1..(Len(s) - 1)
        <3>1. m + i - 1 \in 1..Len(s) /\ m + (i + 1) - 1 \in 1..Len(s)
            BY <1>2, <2>1
        <3> QED BY <1>1, <3>1
    <2> QED BY <1>4, <2>2, <2>3 DEF Tidy
<1> QED BY <1>1, <1>2, <1>3, <1>4 DEF PartOf, Tidy, x, k

\* A part of a part is a part.
LEMMA PartsOfParts ==
    ASSUME NEW s \in Seq(Chars), NEW x, NEW y, PartOf(x, s), PartOf(y, x)
    PROVE  PartOf(y, s)
<1>1. Len(s) \in Nat /\ Len(x) \in Nat /\ Len(y) \in Nat
    BY DEF PartOf
<1> QED BY <1>1 DEF PartOf

\* The greatest of a set of positions.
LEMMA GreatestNat ==
    ASSUME NEW n \in Nat, NEW T \in SUBSET (1..n), T # {}
    PROVE  \E i \in T : \A j \in T : j <= i
<1> DEFINE U == {n - i : i \in T}
<1>1. U \in SUBSET Nat /\ U # {}
    OBVIOUS
<1> HIDE DEF U
<1>2. PICK k \in U : \A l \in U : k <= l
    BY <1>1, LeastNat
<1>3. PICK i \in T : k = n - i
    BY <1>2 DEF U
<1>4. \A j \in T : n - j \in U
    BY DEF U
<1>5. \A j \in T : j <= i
    BY <1>2, <1>3, <1>4
<1> QED BY <1>5

\* Blanks around a text.
Ends(s) == s = <<>> \/ (s[1] # Blank /\ s[Len(s)] # Blank)

\* Trimming leaves a part with no blank around it, the whole if there is none,
\* and the first character if it is no blank.
LEMMA TrimmedPart ==
    ASSUME NEW s \in Seq(Chars)
    PROVE  /\ PartOf(Trimmed(s), s)
           /\ Ends(Trimmed(s))
           /\ Ends(s) => Trimmed(s) = s
           /\ s # <<>> /\ s[1] # Blank => Trimmed(s) # <<>> /\ Trimmed(s)[1] = s[1]
<1> DEFINE n == Len(s)
           inked == {i \in DOMAIN s : s[i] # Blank}
           a == CHOOSE i \in inked : \A j \in inked : i <= j
           b == CHOOSE i \in inked : \A j \in inked : j <= i
<1>1. /\ n \in Nat /\ DOMAIN s = 1..n /\ (s = <<>> <=> n = 0)
      /\ inked \in SUBSET (1..n) /\ inked \in SUBSET Nat
      /\ \A i \in 1..n : i \in inked <=> s[i] # Blank
    OBVIOUS
<1>2. Trimmed(s) = IF inked = {} THEN <<>> ELSE SubSeq(s, a, b)
    BY DEF Trimmed
<1> HIDE DEF n, inked
<1>3. CASE inked = {}
    <2>1. Trimmed(s) = <<>>
        BY <1>2, <1>3
    <2>2. PartOf(<<>>, s)
        BY <1>1, EmptyText, ClearCons, TidyCons DEF PartOf, n
    <2>3. s = <<>> \/ ~(s[1] # Blank)
        BY <1>1, <1>3
    <2> QED BY <2>1, <2>2, <2>3 DEF Ends
<1>4. CASE inked # {}
    <2>1. a \in inked /\ \A j \in inked : a <= j
        <3>1. \E i \in inked : \A j \in inked : i <= j
            BY <1>1, <1>4, LeastNat
        <3> QED BY <3>1
    <2>2. b \in inked /\ \A j \in inked : j <= b
        <3>1. \E i \in inked : \A j \in inked : j <= i
            BY <1>1, <1>4, GreatestNat
        <3> QED BY <3>1
    <2> HIDE DEF a, b
    <2> DEFINE x == SubSeq(s, a, b)
    <2>3. a \in 1..n /\ b \in 1..n /\ a <= b /\ s[a] # Blank /\ s[b] # Blank
        BY <1>1, <2>1, <2>2
    <2>4. /\ PartOf(x, s) /\ Len(x) = (IF a <= b THEN b - a + 1 ELSE 0)
          /\ \A i \in 1..Len(x) : x[i] = s[a + i - 1]
        <3>1. a \in Nat /\ b \in Nat /\ 1 <= a /\ b <= Len(s)
            BY <1>1, <2>3 DEF n
        <3> QED BY <3>1, Parts
    <2>5. Trimmed(s) = x
        BY <1>2, <1>4
    <2> HIDE DEF x
    <2>6. Len(x) = b - a + 1 /\ 1 \in 1..Len(x) /\ Len(x) \in 1..Len(x) /\ a + 1 - 1 = a /\ a + Len(x) - 1 = b
        BY <1>1, <2>3, <2>4
    <2>7. x[1] = s[a] /\ x[Len(x)] = s[b] /\ x # <<>>
        <3>1. x # <<>>
            BY <2>6
        <3> QED BY <2>4, <2>6, <3>1
    <2>8. Ends(x)
        BY <2>3, <2>7 DEF Ends
    <2>9. s[1] # Blank => a = 1
        BY <1>1, <2>1, <2>3
    <2>10. ASSUME Ends(s) PROVE x = s
        <3>1. a = 1 /\ b = n
            <4>1. n # 0 /\ n \in 1..n /\ s[1] # Blank /\ s[n] # Blank
                BY <1>1, <2>3, <2>10 DEF Ends, n
            <4>2. n <= b /\ b <= n
                BY <1>1, <2>2, <2>3, <4>1
            <4> QED BY <1>1, <2>3, <2>9, <4>1, <4>2
        <3>2. Len(x) = n /\ \A i \in 1..n : x[i] = s[i]
            BY <1>1, <2>4, <2>6, <3>1
        <3> QED BY <2>4, <3>2, SeqEqual DEF PartOf, n
    <2> QED BY <2>4, <2>5, <2>7, <2>8, <2>9, <2>10
<1> QED BY <1>3, <1>4

\* Squeezing twice is squeezing once.
LEMMA SqueezedPart ==
    \A s \in Seq(Chars) :
       /\ Squeezed(s) = Trimmed(Collapsed(s))
       /\ Squeezed(s) \in Seq(Chars) /\ Clear(Squeezed(s)) /\ Len(Squeezed(s)) <= Len(s)
       /\ Squeezed(Squeezed(s)) = Squeezed(s)
<1>1. \A s : Squeezed(s) = Trimmed(Collapsed(s))
    BY DEF Squeezed, Collapsed, CollapsedFrom
<1>2. ASSUME NEW s \in Seq(Chars)
      PROVE  /\ Squeezed(s) \in Seq(Chars) /\ Clear(Squeezed(s)) /\ Len(Squeezed(s)) <= Len(s)
             /\ Tidy(Squeezed(s)) /\ Ends(Squeezed(s))
    <2>1. Collapsed(s) \in Seq(Chars) /\ Clear(Collapsed(s)) /\ Tidy(Collapsed(s)) /\ Len(Collapsed(s)) <= Len(s)
        BY CollapsedForms, CollapsedClear, CollapsedTidy
    <2>2. PartOf(Trimmed(Collapsed(s)), Collapsed(s)) /\ Ends(Trimmed(Collapsed(s)))
        BY <2>1, TrimmedPart
    <2>3. Len(s) \in Nat /\ Len(Collapsed(s)) \in Nat
        BY <2>1
    <2> QED BY <1>1, <2>1, <2>2, <2>3 DEF PartOf
<1>3. ASSUME NEW s \in Seq(Chars), Tidy(s), Ends(s) PROVE Squeezed(s) = s
    <2>1. Collapsed(s) = s
        BY <1>3, CollapsedTidy
    <2>2. Trimmed(s) = s
        BY <1>3, TrimmedPart
    <2> QED BY <1>1, <2>1, <2>2
<1> QED BY <1>1, <1>2, <1>3

\* Without its comment a plain scalar still begins as it did.
LEMMA StrippedPart ==
    ASSUME NEW v \in Seq(Chars)
    PROVE  /\ PartOf(StripComment(v), v)
           /\ v # <<>> /\ v[1] # Blank => StripComment(v) # <<>> /\ StripComment(v)[1] = v[1]
<1> DEFINE n == Len(v)
           at == {i \in 1..n - 1 : v[i] = Blank /\ v[i+1] = "#"}
           a == CHOOSE i \in at : \A j \in at : i <= j
<1>1. n \in Nat /\ at \in SUBSET Nat /\ \A i \in at : i \in 1..n - 1 /\ v[i] = Blank
    OBVIOUS
<1>2. StripComment(v) = IF at = {} THEN v ELSE SubSeq(v, 1, a - 1)
    BY DEF StripComment
<1> HIDE DEF n, at
<1>3. CASE at = {}
    BY <1>1, <1>2, <1>3 DEF PartOf, n
<1>4. CASE at # {}
    <2>1. a \in at
        <3>1. \E i \in at : \A j \in at : i <= j
            BY <1>1, <1>4, LeastNat
        <3> QED BY <3>1
    <2> HIDE DEF a
    <2> DEFINE x == SubSeq(v, 1, a - 1)
    <2>2. a \in 1..n - 1 /\ v[a] = Blank
        BY <1>1, <2>1
    <2>3. a - 1 \in Nat /\ a - 1 <= Len(v) /\ 1 \in Nat /\ 1 <= 1
        BY <1>1, <2>2 DEF n
    <2>4. /\ PartOf(x, v) /\ Len(x) = (IF 1 <= a - 1 THEN (a - 1) - 1 + 1 ELSE 0)
          /\ \A i \in 1..Len(x) : x[i] = v[1 + i - 1]
        BY <2>3, Parts
    <2>5. StripComment(v) = x
        BY <1>2, <1>4
    <2> HIDE DEF x
    <2>6. v[1] # Blank => x # <<>> /\ x[1] = v[1]
        <3>1. v[1] # Blank => Len(x) # 0 /\ 1 \in 1..Len(x) /\ 1 + 1 - 1 = 1
            BY <1>1, <2>2, <2>3, <2>4
        <3> QED BY <2>4, <3>1
    <2> QED BY <2>4, <2>5, <2>6
<1> QED BY <1>3, <1>4
-----------------------------------------------------------------------------
(***************************************************************************)
(* Scalars in quotes.                                                      *)
(***************************************************************************)
Wrap(q, s) == <<q>> \o s \o <<q>>

\* The texts that follow one another, and their lengths.
LEMMA ConsAndMore ==
    \A c \in Chars, r \in Seq(Chars), t \in Seq(Chars) :
       /\ Cons(c, r) \o t = Cons(c, r \o t)
       /\ r \o t \in Seq(Chars) /\ Len(r \o t) = Len(r) + Len(t)
<1>1. ASSUME NEW c \in Chars, NEW r \in Seq(Chars), NEW t \in Seq(Chars)
      PROVE  Cons(c, r) \o t = Cons(c, r \o t)
    BY ConsConcat
<1>2. ASSUME NEW r \in Seq(Chars), NEW t \in Seq(Chars)
      PROVE  r \o t \in Seq(Chars) /\ Len(r \o t) = Len(r) + Len(t)
    BY ConcatProperties
<1> QED BY <1>1, <1>2

\* A text in quotes, character by character.
LEMMA WrapForm ==
    ASSUME NEW q \in Chars, NEW s \in Seq(Chars)
    PROVE  /\ Wrap(q, s) = Cons(q, s \o Cons(q, <<>>)) /\ Wrap(q, s) \in Seq(Chars)
           /\ s \o Cons(q, <<>>) \in Seq(Chars)
           /\ Len(Wrap(q, s)) = Len(s) + 2 /\ Len(s) \in Nat
           /\ Wrap(q, s)[1] = q /\ Wrap(q, s)[Len(s) + 2] = q
           /\ \A i \in 1..Len(s) : Wrap(q, s)[i + 1] = s[i]
<1> DEFINE o == <<q>>
           n == Len(s)
           x == s \o o
<1>1. /\ o \in Seq(Chars) /\ Len(o) = 1 /\ o[1] = q /\ o = Cons(q, <<>>) /\ n \in Nat
    BY DEF Cons
<1> HIDE DEF o
<1>2. (o \o s) \o o = o \o x
    BY <1>1, ConcatAssociative
<1>3. o \o x = Cons(q, x)
    BY DEF o, Cons
<1>4. /\ x \in Seq(Chars) /\ Len(x) = n + Len(o)
      /\ \A i \in 1..(n + Len(o)) : x[i] = IF i <= n THEN s[i] ELSE o[i - n]
    BY <1>1, ConcatProperties
<1> HIDE DEF n, x
<1>5. /\ Len(x) = n + 1 /\ x[n + 1] = q /\ \A i \in 1..n : x[i] = s[i]
    <2>1. n + 1 \in 1..(n + Len(o)) /\ ~(n + 1 <= n) /\ (n + 1) - n = 1
        BY <1>1
    <2>2. \A i \in 1..n : i \in 1..(n + Len(o)) /\ i <= n
        BY <1>1
    <2> QED BY <1>1, <1>4, <2>1, <2>2
<1> DEFINE t == Cons(q, x)
<1>6. /\ t \in Seq(Chars) /\ Len(t) = Len(x) + 1 /\ t[1] = q /\ \A i \in 1..Len(x) : t[i + 1] = x[i]
    <2>1. x \in Seq(Chars)
        BY <1>4
    <2> QED BY <2>1, ConsFacts
<1> HIDE DEF t
<1>7. Len(t) = n + 2 /\ t[n + 2] = q /\ \A i \in 1..n : t[i + 1] = s[i]
    <2>1. n + 1 \in 1..Len(x) /\ (n + 1) + 1 = n + 2
        BY <1>1, <1>5
    <2>2. \A i \in 1..n : i \in 1..Len(x)
        BY <1>1, <1>5
    <2> QED BY <1>1, <1>5, <1>6, <2>1, <2>2
<1>8. Wrap(q, s) = t
    BY <1>2, <1>3 DEF Wrap, o, t
<1>9. x = s \o Cons(q, <<>>)
    BY <1>1 DEF x
<1> QED BY <1>1, <1>4, <1>6, <1>7, <1>8, <1>9 DEF t, n

\* A text in quotes is wrapped in them, and what is inside is the text.
LEMMA WrapFacts ==
    ASSUME NEW q \in Chars, NEW s \in Seq(Chars)
    PROVE  /\ Wrap(q, s) # <<>> /\ Wrapped(Wrap(q, s), q) /\ Inside(Wrap(q, s)) = s
           /\ Clear(Wrap(q, s)) <=> q # Control /\ Clear(s)
           /\ q # Blank => Ends(Wrap(q, s))
<1> DEFINE t == Wrap(q, s)
           n == Len(s)
<1>1. /\ t \in Seq(Chars) /\ Len(t) = n + 2 /\ n \in Nat /\ t[1] = q /\ t[n + 2] = q
      /\ \A i \in 1..n : t[i + 1] = s[i]
    BY WrapForm
<1> HIDE DEF t, n
<1>2. Wrapped(t, q) /\ t # <<>> /\ (q # Blank => Ends(t))
    <2>1. t # <<>>
        BY <1>1
    <2> QED BY <1>1, <2>1 DEF Wrapped, Ends
<1>3. Inside(t) = s
    <2> DEFINE x == SubSeq(t, 2, Len(t) - 1)
    <2>1. 2 \in Nat /\ Len(t) - 1 = n + 1 /\ n + 1 \in Nat /\ 1 <= 2 /\ n + 1 <= Len(t)
        BY <1>1
    <2>2. /\ x \in Seq(Chars) /\ Len(x) = (IF 2 <= n + 1 THEN (n + 1) - 2 + 1 ELSE 0)
          /\ \A i \in 1..Len(x) : x[i] = t[2 + i - 1]
        BY <1>1, <2>1, Parts DEF PartOf
    <2> HIDE DEF x
    <2>3. Len(x) = n
        BY <1>1, <2>2
    <2>4. \A i \in 1..n : 2 + i - 1 = i + 1
        BY <1>1
    <2>5. \A i \in 1..n : x[i] = s[i]
        BY <1>1, <2>2, <2>3, <2>4
    <2>6. x = s
        BY <2>2, <2>3, <2>5, SeqEqual DEF n
    <2> QED BY <2>6 DEF Inside, x
<1>4. Clear(t) <=> q # Control /\ Clear(s)
    <2>1. Cons(q, <<>>) \in Seq(Chars)
        BY EmptyText, ConsTyped
    <2>2. Clear(s \o Cons(q, <<>>)) <=> Clear(s) /\ Clear(Cons(q, <<>>))
        <3>1. ToSet(s \o Cons(q, <<>>)) = ToSet(s) \cup ToSet(Cons(q, <<>>))
            BY <2>1, ConcatHas
        <3> QED BY <3>1 DEF Clear
    <2>3. t = Cons(q, s \o Cons(q, <<>>)) /\ s \o Cons(q, <<>>) \in Seq(Chars)
        BY WrapForm DEF t
    <2> QED BY <2>2, <2>3, EmptyText, ClearCons
<1> QED BY <1>2, <1>3, <1>4 DEF t

\* What is wrapped is the inside in quotes.
LEMMA WrapExists ==
    ASSUME NEW q \in Chars, NEW t \in Seq(Chars), Wrapped(t, q)
    PROVE  Inside(t) \in Seq(Chars) /\ t = Wrap(q, Inside(t))
<1> DEFINE n == Len(t)
           x == SubSeq(t, 2, n - 1)
<1>1. n \in Nat /\ n >= 2 /\ t[1] = q /\ t[n] = q
    BY DEF Wrapped
<1>2. /\ x \in Seq(Chars) /\ Len(x) = (IF 2 <= n - 1 THEN (n - 1) - 2 + 1 ELSE 0)
      /\ \A i \in 1..Len(x) : x[i] = t[2 + i - 1]
    <2>1. 2 \in Nat /\ n - 1 \in Nat /\ 1 <= 2 /\ n - 1 <= Len(t)
        BY <1>1
    <2> QED BY <2>1, Parts DEF PartOf
<1> HIDE DEF x
<1>3. Len(x) = n - 2 /\ \A i \in 1..Len(x) : x[i] = t[i + 1]
    <2> HIDE DEF n
    <2>1. Len(x) = n - 2 /\ \A i \in 1..Len(x) : 2 + i - 1 = i + 1
        BY <1>1, <1>2
    <2> QED BY <1>2, <2>1
<1> DEFINE w == Wrap(q, x)
<1>4. /\ w \in Seq(Chars) /\ Len(w) = Len(x) + 2 /\ w[1] = q /\ w[Len(x) + 2] = q
      /\ \A i \in 1..Len(x) : w[i + 1] = x[i]
    BY <1>2, WrapForm
<1> HIDE DEF w, n
<1>5. Len(w) = n /\ w[n] = q
    BY <1>1, <1>3, <1>4
<1>6. ASSUME NEW i \in 1..n PROVE w[i] = t[i]
    <2>1. CASE i = 1 \/ i = n
        BY <1>1, <1>4, <1>5, <2>1
    <2>2. CASE ~(i = 1 \/ i = n)
        <3>1. i - 1 \in 1..Len(x) /\ (i - 1) + 1 = i
            BY <1>1, <1>3, <2>2
        <3> QED BY <1>3, <1>4, <3>1
    <2> QED BY <2>1, <2>2
<1>7. w = t
    BY <1>4, <1>5, <1>6, SeqEqual DEF n
<1> QED BY <1>2, <1>7 DEF w, x, n, Inside

\* Runs of blanks are squeezed inside the quotes.
LEMMA CollapsedWrap ==
    ASSUME NEW q \in Chars, q \notin {Blank, Control}
    PROVE  \A s \in Seq(Chars) : Collapsed(Wrap(q, s)) = Wrap(q, Collapsed(s))
<1> DEFINE o == Cons(q, <<>>)
           P == {s \in Seq(Chars) : Collapsed(s \o o) = Collapsed(s) \o o}
<1>1. o \in Seq(Chars) /\ Collapsed(o) = o /\ ~StartsBlank(o)
    <2>1. Collapsed(o) = Kept(q, <<>>)
        BY EmptyText, CollapsedForms
    <2> QED BY <2>1, EmptyText, KeptForms, ConsTyped, ConsFirst DEF StartsBlank
<1> HIDE DEF o
<1>2. <<>> \in P
    <2>1. <<>> \o o = o
        BY <1>1
    <2> QED BY <1>1, <2>1, EmptyText, CollapsedForms
<1>3. ASSUME NEW c \in Chars, NEW r \in Seq(Chars), r \in P PROVE Cons(c, r) \in P
    <2> DEFINE x == Collapsed(r)
    <2>1. Cons(c, r) \in Seq(Chars) /\ Cons(c, r) \o o = Cons(c, r \o o) /\ r \o o \in Seq(Chars)
        BY <1>1, ConsTyped, ConsAndMore
    <2>2. Collapsed(Cons(c, r)) = Kept(c, x) /\ Collapsed(Cons(c, r \o o)) = Kept(c, x \o o) /\ x \in Seq(Chars)
        BY <1>3, <2>1, CollapsedForms
    <2> HIDE DEF x
    <2>3. Cons(c, x) \o o = Cons(c, x \o o) /\ x \o o \in Seq(Chars)
        BY <1>1, <2>2, ConsAndMore
    <2>4. StartsBlank(x \o o) <=> StartsBlank(x)
        <3>1. CASE x = <<>>
            <4>1. x \o o = o
                BY <1>1, <3>1
            <4> QED BY <1>1, <3>1, <4>1 DEF StartsBlank
        <3>2. CASE x # <<>>
            <4>1. PICK d \in Chars, y \in Seq(Chars) : x = Cons(d, y)
                BY <2>2, <3>2, ConsExists
            <4>2. x \o o = Cons(d, y \o o) /\ y \o o \in Seq(Chars)
                BY <1>1, <4>1, ConsAndMore
            <4> QED BY <4>1, <4>2, ConsFirst DEF StartsBlank
        <3> QED BY <3>1, <3>2
    <2>5. Kept(c, x \o o) = Kept(c, x) \o o
        <3>1. CASE c \notin {Control, Blank}
            <4>1. Kept(c, x \o o) = Cons(c, x \o o) /\ Kept(c, x) = Cons(c, x)
                BY <2>2, <2>3, <3>1, KeptForms
            <4> QED BY <2>3, <4>1
        <3>2. CASE c = Control
            <4>1. Kept(c, x \o o) = x \o o /\ Kept(c, x) = x
                BY <2>2, <2>3, <3>2, KeptForms
            <4> QED BY <4>1
        <3>3. CASE c = Blank
            <4>1. /\ Kept(c, x \o o) = IF StartsBlank(x \o o) THEN x \o o ELSE Cons(c, x \o o)
                  /\ Kept(c, x) = IF StartsBlank(x) THEN x ELSE Cons(c, x)
                BY <2>2, <2>3, <3>3, KeptForms
            <4> QED BY <2>3, <2>4, <4>1
        <3> QED BY <3>1, <3>2, <3>3
    <2> QED BY <2>1, <2>2, <2>5
<1> HIDE DEF P
<1>4. \A c \in Chars, r \in Seq(Chars) : r \in P => Cons(c, r) \in P
    BY <1>3
<1>5. \A s \in Seq(Chars) : s \in P
    BY <1>2, <1>4, ConsInduction
<1>6. ASSUME NEW s \in Seq(Chars) PROVE Collapsed(Wrap(q, s)) = Wrap(q, Collapsed(s))
    <2>1. Collapsed(s) \in Seq(Chars) /\ Collapsed(s \o o) = Collapsed(s) \o o
        BY <1>5, CollapsedForms DEF P
    <2>2. Wrap(q, s) = Cons(q, s \o o) /\ s \o o \in Seq(Chars)
        BY WrapForm DEF o
    <2>3. Wrap(q, Collapsed(s)) = Cons(q, Collapsed(s) \o o)
        BY <2>1, WrapForm DEF o
    <2>4. Collapsed(Wrap(q, s)) = Kept(q, Collapsed(s \o o)) /\ Collapsed(s \o o) \in Seq(Chars)
        BY <2>2, CollapsedForms
    <2>5. Kept(q, Collapsed(s \o o)) = Cons(q, Collapsed(s \o o))
        BY <2>4, KeptForms
    <2> QED BY <2>1, <2>3, <2>4, <2>5
<1> QED BY <1>6

\* The quotes keep the blanks inside from being trimmed.
LEMMA SqueezedWrap ==
    ASSUME NEW q \in Chars, q \notin {Blank, Control}, NEW s \in Seq(Chars)
    PROVE  Squeezed(Wrap(q, s)) = Wrap(q, Collapsed(s))
<1>1. Collapsed(s) \in Seq(Chars) /\ Collapsed(Wrap(q, s)) = Wrap(q, Collapsed(s))
    BY CollapsedForms, CollapsedWrap
<1>2. Wrap(q, s) \in Seq(Chars)
    BY WrapForm
<1>3. Wrap(q, Collapsed(s)) \in Seq(Chars) /\ Ends(Wrap(q, Collapsed(s)))
    BY <1>1, WrapForm, WrapFacts
<1>4. Trimmed(Wrap(q, Collapsed(s))) = Wrap(q, Collapsed(s))
    BY <1>3, TrimmedPart
<1> QED BY <1>1, <1>2, <1>4, SqueezedPart
-----------------------------------------------------------------------------
(***************************************************************************)
(* The steps of normalizeDescription.                                      *)
(***************************************************************************)
\* What the replacements leave has no mark in it, whatever it was.
LEMMA UnescapeClear ==
    \A u \in Seq(Chars) : Unescape(u) \in Seq(Chars) /\ Clear(Unescape(u))
<1> DEFINE C(s) == ReplaceChar(s, Control, <<Back>>)
           P == {s \in Seq(Chars) : Clear(C(s))}
<1>1. /\ C(<<>>) = <<>> /\ \A s \in Seq(Chars) : C(s) \in Seq(Chars)
      /\ \A c \in Chars, r \in Seq(Chars) : C(Cons(c, r)) = Cons(IF c = Control THEN Back ELSE c, C(r))
    <2>1. CharByOne(Control, Back)
        BY CharForms, MarksTyped
    <2> QED BY <2>1 DEF CharByOne
<1> HIDE DEF C
<1>2. <<>> \in P
    BY <1>1, EmptyText, ClearCons
<1>3. ASSUME NEW c \in Chars, NEW r \in Seq(Chars), r \in P PROVE Cons(c, r) \in P
    <2> DEFINE e == IF c = Control THEN Back ELSE c
    <2>1. e \in Chars /\ e # Control
        BY MarksTyped, MarksDiffer
    <2>2. C(Cons(c, r)) = Cons(e, C(r)) /\ C(r) \in Seq(Chars) /\ Cons(c, r) \in Seq(Chars)
        BY <1>1, ConsTyped
    <2> HIDE DEF e
    <2> QED BY <1>3, <2>1, <2>2, ClearCons
<1> HIDE DEF P
<1>4. \A c \in Chars, r \in Seq(Chars) : r \in P => Cons(c, r) \in P
    BY <1>3
<1>5. \A s \in Seq(Chars) : s \in P
    BY <1>2, <1>4, ConsInduction
<1>6. /\ PairForms(Back, Back, Control)
      /\ PairForms(Back, Quote, Quote)
      /\ PairForms(Back, "n", Blank)
    <2>1. PairForms(Back, Back, Control)
        BY PairByOne, MarksTyped
    <2>2. PairForms(Back, Quote, Quote)
        BY PairByOne, MarksTyped
    <2>3. PairForms(Back, "n", Blank)
        BY PairByOne, MarksTyped
    <2> QED BY <2>1, <2>2, <2>3
<1> DEFINE x(u) == ReplacePair(ReplacePair(ReplacePair(u, Back, Back, <<Control>>), Back, Quote, <<Quote>>),
                               Back, "n", <<Blank>>)
<1>7. ASSUME NEW u \in Seq(Chars) PROVE x(u) \in Seq(Chars)
    <2>1. ReplacePair(u, Back, Back, <<Control>>) \in Seq(Chars)
        BY <1>6 DEF PairForms
    <2>2. ReplacePair(ReplacePair(u, Back, Back, <<Control>>), Back, Quote, <<Quote>>) \in Seq(Chars)
        BY <1>6, <2>1 DEF PairForms
    <2> QED BY <1>6, <2>2 DEF PairForms
<1>8. \A u : Unescape(u) = C(x(u))
    BY DEF Unescape, C
<1> HIDE DEF x
<1> QED BY <1>1, <1>5, <1>7, <1>8 DEF P

\* Undoubling drops a quote of two and brings nothing in.
LEMMA UndoubleClear ==
    \A u \in Seq(Chars) :
       LET x == ReplacePair(u, Apostrophe, Apostrophe, <<Apostrophe>>)
       IN x \in Seq(Chars) /\ (Clear(u) => Clear(x))
<1> DEFINE R(s) == ReplacePair(s, Apostrophe, Apostrophe, <<Apostrophe>>)
           P == {s \in Seq(Chars) : Clear(s) => Clear(R(s))}
<1>1. /\ R(<<>>) = <<>> /\ \A s \in Seq(Chars) : R(s) \in Seq(Chars)
      /\ \A c \in Chars, r \in Seq(Chars) : c # Apostrophe => R(Cons(c, r)) = Cons(c, R(r))
      /\ R(Cons(Apostrophe, <<>>)) = Cons(Apostrophe, <<>>)
      /\ \A d \in Chars, r \in Seq(Chars) :
            R(Cons(Apostrophe, Cons(d, r))) = IF d = Apostrophe THEN Cons(Apostrophe, R(r))
                                              ELSE Cons(Apostrophe, R(Cons(d, r)))
    <2>1. PairForms(Apostrophe, Apostrophe, Apostrophe)
        BY PairByOne, MarksTyped
    <2> QED BY <2>1 DEF PairForms
<1> HIDE DEF R
<1>2. ASSUME NEW s \in Seq(Chars), \A r \in Seq(Chars) : Len(r) < Len(s) => r \in P PROVE s \in P
    <2> SUFFICES ASSUME Clear(s) PROVE Clear(R(s))
        OBVIOUS
    <2>1. CASE s = <<>>
        BY <1>1, <2>1, ClearCons
    <2>2. CASE s # <<>>
        <3>1. PICK c \in Chars, r \in Seq(Chars) : s = Cons(c, r)
            BY <2>2, ConsExists
        <3>2. Len(r) \in Nat /\ Len(s) = Len(r) + 1 /\ c # Control /\ Clear(r)
            BY <3>1, ConsTyped, ClearCons
        <3>3. Clear(R(r)) /\ R(r) \in Seq(Chars)
            BY <1>1, <1>2, <3>2
        <3>4. Clear(Cons(c, R(r)))
            BY <3>2, <3>3, ClearCons
        <3>5. CASE c # Apostrophe
            BY <1>1, <3>1, <3>4, <3>5
        <3>6. CASE c = Apostrophe /\ r = <<>>
            <4>1. R(s) = s
                BY <1>1, <3>1, <3>6
            <4> QED BY <4>1
        <3>7. CASE c = Apostrophe /\ r # <<>>
            <4>1. PICK d \in Chars, t \in Seq(Chars) : r = Cons(d, t)
                BY <3>7, ConsExists
            <4>2. Len(t) \in Nat /\ Len(r) = Len(t) + 1 /\ Clear(t)
                BY <3>2, <4>1, ConsTyped, ClearCons
            <4>3. Clear(R(t)) /\ R(t) \in Seq(Chars)
                BY <1>1, <1>2, <3>2, <4>2
            <4>4. Clear(Cons(c, R(t)))
                BY <3>2, <4>3, ClearCons
            <4> QED BY <1>1, <3>1, <3>4, <3>7, <4>1, <4>4
        <3> QED BY <3>5, <3>6, <3>7
    <2> QED BY <2>1, <2>2
<1> HIDE DEF P
<1>3. \A s \in Seq(Chars) : (\A r \in Seq(Chars) : Len(r) < Len(s) => r \in P) => s \in P
    BY <1>2
<1>4. \A s \in Seq(Chars) : s \in P
    BY <1>3, LengthInduction
<1> QED BY <1>1, <1>4 DEF P, R

\* The quotes go, with the escapes of their kind; a text without them stays.
LEMMA UnquotedValue ==
    /\ \A s \in Seq(Chars) : Clear(s) => Unquoted(s) \in Seq(Chars) /\ Clear(Unquoted(s))
    /\ \A u \in Seq(Chars) :
          /\ Unquoted(Wrap(Quote, u)) = Unescape(u)
          /\ Unquoted(Wrap(Apostrophe, u)) = ReplacePair(u, Apostrophe, Apostrophe, <<Apostrophe>>)
    /\ \A s : s[1] \notin {Quote, Apostrophe} => Unquoted(s) = s
<1>1. \A s : Unquoted(s) = IF Wrapped(s, Quote) THEN Unescape(Inside(s))
                           ELSE IF Wrapped(s, Apostrophe)
                                THEN ReplacePair(Inside(s), Apostrophe, Apostrophe, <<Apostrophe>>)
                                ELSE s
    BY DEF Unquoted, Unescape
<1>2. ASSUME NEW s \in Seq(Chars), Clear(s) PROVE Unquoted(s) \in Seq(Chars) /\ Clear(Unquoted(s))
    <2>1. CASE Wrapped(s, Quote)
        <3>1. Inside(s) \in Seq(Chars)
            BY <2>1, MarksTyped, WrapExists
        <3> QED BY <1>1, <2>1, <3>1, UnescapeClear
    <2>2. CASE ~Wrapped(s, Quote) /\ Wrapped(s, Apostrophe)
        <3>1. Inside(s) \in Seq(Chars) /\ s = Wrap(Apostrophe, Inside(s))
            BY <2>2, MarksTyped, WrapExists
        <3> DEFINE u == Inside(s)
        <3>2. Clear(Wrap(Apostrophe, u)) <=> Apostrophe # Control /\ Clear(u)
            <4> HIDE DEF u
            <4>1. u \in Seq(Chars)
                BY <3>1 DEF u
            <4> QED BY <4>1, MarksTyped, WrapFacts
        <3>3. Clear(u)
            BY <1>2, <3>1, <3>2
        <3> HIDE DEF u
        <3>4. u \in Seq(Chars) /\ Unquoted(s) = ReplacePair(u, Apostrophe, Apostrophe, <<Apostrophe>>)
            BY <1>1, <2>2, <3>1 DEF u
        <3> QED BY <3>3, <3>4, UndoubleClear
    <2>3. CASE ~Wrapped(s, Quote) /\ ~Wrapped(s, Apostrophe)
        BY <1>1, <1>2, <2>3
    <2> QED BY <2>1, <2>2, <2>3
<1>3. ASSUME NEW u \in Seq(Chars) PROVE Unquoted(Wrap(Quote, u)) = Unescape(u)
    BY <1>1, MarksTyped, WrapFacts
<1>4. ASSUME NEW u \in Seq(Chars)
      PROVE  Unquoted(Wrap(Apostrophe, u)) = ReplacePair(u, Apostrophe, Apostrophe, <<Apostrophe>>)
    <2>1. Wrapped(Wrap(Apostrophe, u), Apostrophe) /\ Inside(Wrap(Apostrophe, u)) = u
        BY MarksTyped, WrapFacts
    <2>2. Wrap(Apostrophe, u)[1] = Apostrophe
        BY MarksTyped, WrapForm
    <2>3. ~Wrapped(Wrap(Apostrophe, u), Quote)
        BY <2>2, MarksDiffer DEF Wrapped
    <2> QED BY <1>1, <2>1, <2>3
<1>5. \A s : s[1] \notin {Quote, Apostrophe} => Unquoted(s) = s
    BY <1>1 DEF Wrapped
<1> QED BY <1>2, <1>3, <1>4, <1>5

\* What is cut fits, and is not cut to nothing.
LEMMA ShortenedFits ==
    ASSUME NEW d \in Seq(Chars), d # <<>>, Clear(d)
    PROVE  /\ Shortened(d) \in Seq(Chars) /\ Clear(Shortened(d))
           /\ Shortened(d) # <<>> /\ Len(Shortened(d)) <= MaxDescription
           /\ Len(d) <= MaxDescription => Shortened(d) = d
<1>1. CASE Len(d) <= MaxDescription
    BY <1>1 DEF Shortened
<1>2. CASE ~(Len(d) <= MaxDescription)
    <2> DEFINE m == MaxDescription - 4
               head == SubSeq(d, 1, m)
               at == {i \in 1..Len(head) : head[i] = Blank}
               last == IF at # {} THEN Max(at) ELSE 0
               x == IF last = 0 THEN head ELSE SubSeq(head, 1, last - 1)
    <2>1. Shortened(d) = x \o Dots
        BY <1>2 DEF Shortened, SelectLastInSeq
    <2>2. m \in Nat /\ m <= Len(d) /\ MaxDescription = m + 4
        BY <1>2, FormatAssumption
    <2>3. PartOf(head, d) /\ Len(head) = (IF 1 <= m THEN m - 1 + 1 ELSE 0)
        BY <2>2, Parts
    <2>4. Len(head) = m
        <3> HIDE DEF head, m
        <3> QED BY <2>2, <2>3
    <2> HIDE DEF head, m
    <2>5. PartOf(x, head)
        <3>1. CASE last = 0
            BY <2>3, <3>1 DEF PartOf
        <3>2. CASE last # 0
            <4>1. at # {} /\ at \in SUBSET (1..m) /\ last = Max(at)
                BY <2>4, <3>2
            <4> HIDE DEF at
            <4>2. \E i \in at : \A j \in at : j <= i
                BY <2>2, <4>1, GreatestNat
            <4>3. \E i \in at : \A j \in at : i >= j
                <5>1. \A i, j \in at : j <= i => i >= j
                    BY <4>1
                <5> QED BY <4>2, <5>1
            <4>4. last \in at
                BY <4>1, <4>3 DEF Max
            <4>5. last \in 1..m
                BY <4>1, <4>4
            <4> HIDE DEF last
            <4>6. last - 1 \in Nat /\ last - 1 <= Len(head) /\ head \in Seq(Chars)
                BY <2>2, <2>3, <2>4, <4>5 DEF PartOf
            <4>7. PartOf(SubSeq(head, 1, last - 1), head)
                BY <4>6, Parts
            <4> QED BY <3>2, <4>7
        <3> QED BY <3>1, <3>2
    <2> HIDE DEF x
    <2>6. PartOf(x, d)
        BY <2>3, <2>5, PartsOfParts
    <2>7. /\ Dots \in Seq(Chars) /\ Len(Dots) = 3
        BY MarksTyped DEF Dots
    <2>8. Clear(Dots)
        BY MarksDiffer DEF Dots, Clear, ToSet
    <2>9. /\ x \o Dots \in Seq(Chars) /\ Len(x \o Dots) = Len(x) + Len(Dots)
          /\ ToSet(x \o Dots) = ToSet(x) \cup ToSet(Dots)
        <3>1. x \in Seq(Chars)
            BY <2>6 DEF PartOf
        <3>2. x \o Dots \in Seq(Chars) /\ Len(x \o Dots) = Len(x) + Len(Dots)
            BY <2>7, <3>1, ConcatProperties
        <3> QED BY <2>7, <3>1, <3>2, ConcatHas
    <2>10. Clear(x \o Dots)
        BY <2>6, <2>8, <2>9 DEF PartOf, Clear
    <2>11. Len(x \o Dots) = Len(x) + 3 /\ Len(x) <= m /\ Len(x) \in Nat
        BY <2>4, <2>5, <2>7, <2>9 DEF PartOf
    <2>12. x \o Dots # <<>> /\ Len(x \o Dots) <= MaxDescription
        BY <2>2, <2>9, <2>11
    <2> QED BY <1>2, <2>1, <2>9, <2>10, <2>12
<1> QED BY <1>1, <1>2
-----------------------------------------------------------------------------
(***************************************************************************)
(* The description that is written, and what a loader reads.               *)
(***************************************************************************)
\* A text in quotes on a line is loaded as such.
LEMMA LoadWrapped ==
    ASSUME NEW q \in {Quote, Apostrophe}, NEW u \in Seq(Chars), Clear(u)
    PROVE  LoadLine(Wrap(q, u)) = IF q = Quote THEN LoadDouble(u) ELSE LoadSingle(u)
<1> DEFINE t == Wrap(q, u)
<1>1. q \in Chars /\ q \notin {Blank, Control, "#", "|"}
    BY MarksTyped, MarksDiffer
<1>2. /\ t \in Seq(Chars) /\ t[1] = q /\ t # <<>> /\ Wrapped(t, q) /\ Inside(t) = u /\ Ends(t) /\ Clear(t)
    <2>1. t \in Seq(Chars) /\ t[1] = q
        BY <1>1, WrapForm
    <2>2. t # <<>> /\ Wrapped(t, q) /\ Inside(t) = u /\ (q # Blank => Ends(t)) /\ (Clear(t) <=> q # Control /\ Clear(u))
        BY <1>1, WrapFacts
    <2> QED BY <1>1, <2>1, <2>2
<1> HIDE DEF t
<1>3. Trimmed(t) = t
    BY <1>2, TrimmedPart
<1>4. IsQuoted(t)
    BY <1>2 DEF IsQuoted
<1> QED BY <1>1, <1>2, <1>3, <1>4 DEF LoadLine, Clear, t

\* A character replaced by two that tr -d keeps.
LEMMA ByTwoClear ==
    ASSUME NEW a \in Chars, NEW e \in Chars, NEW f \in Chars, e # Control, f # Control
    PROVE  \A s \in Seq(Chars) : LET x == ReplaceChar(s, a, <<e, f>>)
                                 IN x \in Seq(Chars) /\ (Clear(s) => Clear(x))
<1> DEFINE R(s) == ReplaceChar(s, a, <<e, f>>)
           P == {s \in Seq(Chars) : Clear(s) => Clear(R(s))}
<1>1. /\ R(<<>>) = <<>> /\ \A s \in Seq(Chars) : R(s) \in Seq(Chars)
      /\ \A c \in Chars, r \in Seq(Chars) :
            R(Cons(c, r)) = IF c = a THEN Cons(e, Cons(f, R(r))) ELSE Cons(c, R(r))
    <2>1. CharByTwo(a, e, f)
        BY CharForms
    <2> QED BY <2>1 DEF CharByTwo
<1> HIDE DEF R
<1>2. <<>> \in P
    BY <1>1, EmptyText, ClearCons
<1>3. ASSUME NEW c \in Chars, NEW r \in Seq(Chars), r \in P PROVE Cons(c, r) \in P
    <2> SUFFICES ASSUME Clear(Cons(c, r)) PROVE Clear(R(Cons(c, r)))
        BY ConsTyped
    <2>1. c # Control /\ Clear(R(r)) /\ R(r) \in Seq(Chars)
        BY <1>1, <1>3, ClearCons
    <2>2. Cons(f, R(r)) \in Seq(Chars) /\ Clear(Cons(f, R(r)))
        BY <2>1, ConsTyped, ClearCons
    <2>3. Clear(Cons(e, Cons(f, R(r)))) /\ Clear(Cons(c, R(r)))
        BY <2>1, <2>2, ClearCons
    <2> QED BY <1>1, <2>3
<1> HIDE DEF P
<1>4. \A c \in Chars, r \in Seq(Chars) : r \in P => Cons(c, r) \in P
    BY <1>3
<1>5. \A s \in Seq(Chars) : s \in P
    BY <1>2, <1>4, ConsInduction
<1> QED BY <1>1, <1>5 DEF P, R

\* Escaping brings in nothing that tr -d drops.
LEMMA EscapedClear ==
    \A s \in Seq(Chars) : Clear(s) => Clear(Escaped(s))
<1>1. Back # Control /\ Quote # Control
    BY MarksDiffer
<1> DEFINE B(s) == ReplaceChar(s, Back, <<Back, Back>>)
           Q(s) == ReplaceChar(s, Quote, <<Back, Quote>>)
<1>2. \A s \in Seq(Chars) : B(s) \in Seq(Chars) /\ (Clear(s) => Clear(B(s)))
    BY <1>1, MarksTyped, ByTwoClear
<1>3. \A s \in Seq(Chars) : Q(s) \in Seq(Chars) /\ (Clear(s) => Clear(Q(s)))
    BY <1>1, MarksTyped, ByTwoClear
<1>4. \A s : Escaped(s) = Q(B(s))
    BY DEF Escaped
<1> HIDE DEF B, Q
<1> QED BY <1>2, <1>3, <1>4

\* What is written between the quotes.
Written(v) == Shortened(OrDefault(Unquoted(Squeezed(v))))

\* Whatever the description was, the line that is written for it loads, as
\* the text that was to be written: not empty, and no longer than the cap.
LEMMA WrittenLoads ==
    ASSUME NEW v \in Seq(Chars)
    PROVE  /\ Written(v) \in Seq(Chars) /\ Written(v) # <<>> /\ Len(Written(v)) <= MaxDescription
           /\ NormalizeDescription(v) \in Seq(Chars)
           /\ LoadLine(Wrap(Quote, NormalizeDescription(v))).valid
           /\ LoadLine(Wrap(Quote, NormalizeDescription(v))).text = Written(v)
           /\ LET d == Unquoted(Squeezed(v))
              IN d # <<>> /\ Len(d) <= MaxDescription => Written(v) = d
<1> DEFINE d == Unquoted(Squeezed(v))
           w == Written(v)
           e == NormalizeDescription(v)
<1>1. d \in Seq(Chars) /\ Clear(d)
    BY SqueezedPart, UnquotedValue
<1>2. DefaultText \in Seq(Chars) /\ DefaultText # <<>> /\ Clear(DefaultText)
    <2>1. Seq(STRING) \subseteq Seq(Chars)
        BY DEF Chars
    <2> QED BY <2>1, FormatAssumption DEF Clear
<1>3. OrDefault(d) \in Seq(Chars) /\ OrDefault(d) # <<>> /\ Clear(OrDefault(d)) /\ (d # <<>> => OrDefault(d) = d)
    BY <1>1, <1>2 DEF OrDefault
<1>4. /\ w \in Seq(Chars) /\ Clear(w) /\ w # <<>> /\ Len(w) <= MaxDescription
      /\ Len(OrDefault(d)) <= MaxDescription => w = OrDefault(d)
    BY <1>3, ShortenedFits DEF Written
<1>5. e = Escaped(w)
    BY DEF NormalizeDescription, Written
<1> HIDE DEF d, w, e
<1>6. e \in Seq(Chars) /\ LoadDouble(e).valid /\ LoadDouble(e).text = w
    BY <1>4, <1>5, EscapedLoads
<1>7. Clear(e)
    BY <1>4, <1>5, EscapedClear
<1>8. LoadLine(Wrap(Quote, e)) = LoadDouble(e)
    BY <1>6, <1>7, LoadWrapped
<1> QED BY <1>3, <1>4, <1>6, <1>8 DEF d, w, e

\* A description that a loader can read, in quotes or not, is written so that
\* it reads the same.
PieceOf(v) == IF IsQuoted(v) THEN v ELSE StripComment(v)

\* A value that loads, is not empty and fits keeps its meaning: plain, since
\* squeezing it is all that happens to it; in quotes, since what is squeezed
\* inside them still loads and the replacements load it.
LEMMA LineKept ==
    ASSUME NEW line \in Seq(Chars), LoadLine(line).valid,
           Squeezed(LoadLine(line).text) # <<>>, Len(LoadLine(line).text) <= MaxDescription
    PROVE  /\ ~IsBlock(Trimmed(line))
           /\ Squeezed(Written(PieceOf(Trimmed(line)))) = Squeezed(LoadLine(line).text)
<1> DEFINE t == Trimmed(line)
           text == LoadLine(line).text
<1>1. t \in Seq(Chars) /\ Ends(t) /\ Trimmed(t) = t
    <2>1. t \in Seq(Chars) /\ Ends(t)
        BY TrimmedPart DEF PartOf
    <2> HIDE DEF t
    <2> QED BY <2>1, TrimmedPart
<1>2. t # <<>> /\ t[1] \notin {"#", "|"} /\ Clear(t)
    BY DEF LoadLine, NoValue, Clear
<1>3. ~IsBlock(t)
    BY <1>2 DEF IsBlock
<1>4. LoadLine(line) = IF IsQuoted(t) THEN IF ~Wrapped(t, t[1]) THEN NoValue
                             ELSE IF t[1] = Quote THEN LoadDouble(Inside(t)) ELSE LoadSingle(Inside(t))
                       ELSE Value(StripComment(t))
    BY <1>2 DEF LoadLine, Clear
<1>5. Squeezed(text) # <<>> /\ Len(text) <= MaxDescription /\ LoadLine(line).valid
    OBVIOUS
<1>6. Blank \notin {Quote, Apostrophe} /\ Control \notin {Quote, Apostrophe} /\ Quote # Apostrophe
    BY MarksDiffer
<1> HIDE DEF t, text
<1>7. ASSUME NEW d \in Seq(Chars), d = Unquoted(Squeezed(PieceOf(t))), text \in Seq(Chars),
             Collapsed(d) = Collapsed(text) \/ d = Squeezed(text), Len(d) <= Len(text)
      PROVE  Squeezed(Written(PieceOf(t))) = Squeezed(text)
    <2>1. PieceOf(t) \in Seq(Chars)
        <3>1. StripComment(t) \in Seq(Chars)
            BY <1>1, StrippedPart DEF PartOf
        <3> QED BY <1>1, <3>1 DEF PieceOf
    <2>2. Squeezed(d) = Squeezed(text)
        BY <1>7, SqueezedPart
    <2>3. d # <<>>
        <3>1. Squeezed(<<>>) = <<>>
            <4>1. Len(Squeezed(<<>>)) <= 0 /\ Squeezed(<<>>) \in Seq(Chars)
                <5> DEFINE e == <<>>
                <5>1. e \in Seq(Chars) /\ Len(e) = 0
                    BY EmptyText
                <5> HIDE DEF e
                <5>2. Len(Squeezed(e)) <= Len(e) /\ Squeezed(e) \in Seq(Chars)
                    BY <5>1, SqueezedPart
                <5> QED BY <5>1, <5>2 DEF e
            <4> QED BY <4>1
        <3> QED BY <1>5, <2>2, <3>1
    <2>4. Len(d) <= MaxDescription
        <3>1. Len(d) \in Nat /\ Len(text) \in Nat /\ MaxDescription \in Nat
            BY <1>7, FormatAssumption
        <3> QED BY <1>5, <1>7, <3>1
    <2>5. Written(PieceOf(t)) = d
        <3> DEFINE p == PieceOf(t)
        <3> HIDE DEF p
        <3>1. p \in Seq(Chars) /\ d = Unquoted(Squeezed(p))
            BY <1>7, <2>1 DEF p
        <3>2. Written(p) = d
            BY <2>3, <2>4, <3>1, WrittenLoads
        <3> QED BY <3>2 DEF p
    <2> QED BY <2>2, <2>5
<1>8. CASE IsQuoted(t)
    <2> DEFINE q == t[1]
               u == Inside(t)
    <2>1. q \in {Quote, Apostrophe} /\ q \in Chars /\ Wrapped(t, q)
        <3>1. t[1] \in {Quote, Apostrophe}
            BY <1>8 DEF IsQuoted
        <3>2. Wrapped(t, t[1])
            BY <1>4, <1>5, <1>8 DEF NoValue
        <3> QED BY <3>1, <3>2, MarksTyped
    <2> HIDE DEF q
    <2>2. u \in Seq(Chars) /\ t = Wrap(q, u)
        BY <1>1, <2>1, WrapExists
    <2> HIDE DEF u
    <2>3. Clear(u)
        <3>1. Clear(Wrap(q, u)) <=> q # Control /\ Clear(u)
            BY <2>1, <2>2, WrapFacts
        <3> QED BY <1>2, <2>2, <3>1
    <2>4. PieceOf(t) = t /\ Squeezed(t) = Wrap(q, Collapsed(u))
        <3>1. Squeezed(Wrap(q, u)) = Wrap(q, Collapsed(u))
            <4>1. q \notin {Blank, Control}
                BY <1>6, <2>1
            <4> QED BY <2>1, <2>2, <4>1, SqueezedWrap
        <3> QED BY <1>8, <2>2, <3>1 DEF PieceOf
    <2>5. Collapsed(u) \in Seq(Chars) /\ Clear(Collapsed(u))
        BY <2>2, CollapsedForms, CollapsedClear
    <2>6. CASE q = Quote
        <3>1. LoadLine(line) = LoadDouble(u)
            BY <1>4, <1>8, <2>1, <2>6 DEF u, q
        <3>2. /\ LoadDouble(Collapsed(u)).valid
              /\ Collapsed(LoadDouble(Collapsed(u)).text) = Collapsed(text)
              /\ Len(LoadDouble(Collapsed(u)).text) <= Len(text)
            BY <1>5, <2>2, <2>3, <3>1, CollapsedDouble DEF text
        <3>3. Unquoted(Squeezed(PieceOf(t))) = LoadDouble(Collapsed(u)).text
            BY <2>4, <2>5, <2>6, <3>2, UnquotedValue, UnescapeLoads
        <3>4. text \in Seq(Chars) /\ LoadDouble(Collapsed(u)).text \in Seq(Chars)
            <4>1. DoubleRules(Chars)
                BY DoubleValue, MarksTyped
            <4> QED BY <2>2, <2>5, <3>1, <4>1, PrefixedTyped DEF DoubleRules, text
        <3> QED BY <1>3, <1>7, <3>2, <3>3, <3>4 DEF t, text
    <2>7. CASE q = Apostrophe
        <3>1. LoadLine(line) = LoadSingle(u)
            BY <1>4, <1>6, <1>8, <2>1, <2>7 DEF u, q
        <3>2. /\ LoadSingle(Collapsed(u)).valid
              /\ Collapsed(LoadSingle(Collapsed(u)).text) = Collapsed(text)
              /\ Len(LoadSingle(Collapsed(u)).text) <= Len(text)
            BY <1>5, <2>2, <2>3, <3>1, CollapsedSingle DEF text
        <3>3. Unquoted(Squeezed(PieceOf(t))) = LoadSingle(Collapsed(u)).text
            BY <2>4, <2>5, <2>7, <3>2, UnquotedValue, UndoubleLoads
        <3>4. text \in Seq(Chars) /\ LoadSingle(Collapsed(u)).text \in Seq(Chars)
            BY <2>2, <2>5, <3>1, SingleForms DEF text
        <3> QED BY <1>3, <1>7, <3>2, <3>3, <3>4 DEF t, text
    <2> QED BY <2>1, <2>6, <2>7
<1>9. CASE ~IsQuoted(t)
    <2> DEFINE w == StripComment(t)
    <2>1. text = w /\ PieceOf(t) = w
        BY <1>4, <1>9 DEF text, PieceOf, Value
    <2>2. t[1] \notin {Quote, Apostrophe} /\ t[1] # Blank
        BY <1>1, <1>2, <1>9 DEF IsQuoted, Ends
    <2>3. w \in Seq(Chars) /\ w # <<>> /\ w[1] = t[1]
        BY <1>1, <1>2, <2>2, StrippedPart DEF PartOf
    <2> HIDE DEF w
    <2>4. Squeezed(w)[1] = w[1]
        <3>1. PICK c \in Chars, r \in Seq(Chars) : w = Cons(c, r)
            BY <2>3, ConsExists
        <3>2. c = t[1] /\ c # Blank
            BY <2>2, <2>3, <3>1, ConsFirst
        <3>3. c # Control
            <4>1. PICK f \in Chars, g \in Seq(Chars) : t = Cons(f, g)
                BY <1>1, <1>2, ConsExists
            <4>2. f = c
                BY <3>2, <4>1, ConsFirst
            <4> QED BY <1>2, <4>1, <4>2, ClearCons
        <3>4. Collapsed(w) = Cons(c, Collapsed(r)) /\ Collapsed(r) \in Seq(Chars)
            <4>1. c \notin {Control, Blank}
                BY <3>2, <3>3
            <4> QED BY <3>1, <4>1, CollapsedForms, KeptForms
        <3>5. Collapsed(w) \in Seq(Chars) /\ Collapsed(w) # <<>> /\ Collapsed(w)[1] = c
            BY <3>4, ConsTyped, ConsFirst
        <3>6. Trimmed(Collapsed(w))[1] = c
            BY <3>2, <3>5, TrimmedPart
        <3> QED BY <2>3, <3>2, <3>6, SqueezedPart
    <2>5. Unquoted(Squeezed(w)) = Squeezed(w)
        BY <2>2, <2>3, <2>4, UnquotedValue
    <2>6. Squeezed(w) \in Seq(Chars) /\ Len(Squeezed(w)) <= Len(w)
        BY <2>3, SqueezedPart
    <2> QED BY <1>3, <1>7, <2>1, <2>3, <2>5, <2>6 DEF t, text
<1> QED BY <1>8, <1>9
-----------------------------------------------------------------------------
(***************************************************************************)
(* The copy as a whole: its lines, and the description among them.         *)
(***************************************************************************)
FileLines == [kind : STRING, text : Seq(STRING)]

\* The least element of a set of natural numbers, as the library picks it.
LEMMA MinIn ==
    ASSUME NEW T \in SUBSET Nat, T # {}
    PROVE  Min(T) \in T
<1>1. \E n \in T : \A m \in T : n <= m
    BY LeastNat
<1> QED BY <1>1 DEF Min

\* The first description of some lines, and the end of a closed frontmatter.
FirstDescription(lines) == SelectInSeq(lines, LAMBDA l : l.kind = "description")

\* It is one of the lines, or 0.
LEMMA FirstDescriptionIn ==
    ASSUME NEW lines \in Seq(FileLines)
    PROVE  FirstDescription(lines) \in 0..Len(lines)
<1> DEFINE at == {i \in 1..Len(lines) : lines[i].kind = "description"}
<1>1. FirstDescription(lines) = IF at # {} THEN Min(at) ELSE 0
    BY DEF FirstDescription, SelectInSeq
<1>2. at \in SUBSET Nat /\ at \in SUBSET (1..Len(lines)) /\ Len(lines) \in Nat
    OBVIOUS
<1> HIDE DEF at
<1>3. at # {} => Min(at) \in at
    BY <1>2, MinIn
<1>4. at # {} => Min(at) \in 1..Len(lines)
    BY <1>2, <1>3
<1> HIDE DEF FirstDescription
<1> QED BY <1>1, <1>2, <1>4

\* The body starts after the first fence that can close the frontmatter.
LEMMA BodyStartIn ==
    ASSUME NEW file \in Seq(FileLines), BodyStart(file) # 0
    PROVE  BodyStart(file) \in 3..(Len(file) + 1)
<1> DEFINE at == {i \in 2..Len(file) : file[i].kind = "fence"}
<1>1. BodyStart(file) = IF file = <<>> \/ file[1].kind # "fence" THEN 0
                        ELSE LET c == IF at # {} THEN Min(at) ELSE 0 IN IF c = 0 THEN 0 ELSE c + 1
    BY DEF BodyStart, SelectInSubSeq
<1>2. at \in SUBSET Nat /\ at \in SUBSET (2..Len(file)) /\ Len(file) \in Nat
    OBVIOUS
<1> HIDE DEF at
<1>3. at # {} /\ BodyStart(file) = Min(at) + 1
    BY <1>1
<1>4. Min(at) \in 2..Len(file)
    BY <1>2, <1>3, MinIn
<1> QED BY <1>2, <1>3, <1>4

\* The lines a description goes on on.
MoreLines(lines) ==
    LET rest == SubSeq(lines, FirstDescription(lines) + 1, Len(lines))
        ends == SelectInSeq(rest, LAMBDA l : l.kind # "indented")
    IN IF ends = 0 THEN rest ELSE SubSeq(rest, 1, ends - 1)

\* They are lines, and none if the next one is not indented.
LEMMA MoreLinesTyped ==
    ASSUME NEW lines \in Seq(FileLines), FirstDescription(lines) # 0
    PROVE  /\ MoreLines(lines) \in Seq(FileLines)
           /\ (FirstDescription(lines) < Len(lines) => lines[FirstDescription(lines) + 1].kind # "indented")
              => MoreLines(lines) = <<>>
<1> DEFINE f == FirstDescription(lines)
           n == Len(lines)
           rest == SubSeq(lines, f + 1, n)
           at == {i \in 1..Len(rest) : rest[i].kind # "indented"}
           ends == IF at # {} THEN Min(at) ELSE 0
<1>1. MoreLines(lines) = IF ends = 0 THEN rest ELSE SubSeq(rest, 1, ends - 1)
    BY DEF MoreLines, SelectInSeq
<1>2. f \in 1..n /\ n \in Nat /\ \A i \in (f + 1)..n : lines[i] \in FileLines
    <2>1. f \in 0..n
        BY FirstDescriptionIn
    <2> HIDE DEF f
    <2> QED BY <2>1 DEF f
<1>3. lines[f + 1].kind # "indented" \/ ~(f < n) <=> (f < n => lines[f + 1].kind # "indented")
    OBVIOUS
<1> HIDE DEF f, n
<1>4. /\ rest \in Seq(FileLines) /\ Len(rest) = (IF f + 1 <= n THEN n - (f + 1) + 1 ELSE 0)
      /\ \A i \in 1..(n - (f + 1) + 1) : rest[i] = lines[f + 1 + i - 1]
    <2>1. f + 1 \in Int /\ n \in Int
        BY <1>2
    <2> QED BY <1>2, <2>1, SubSeqProperties
<1> HIDE DEF rest
<1>5. at \in SUBSET Nat /\ at \in SUBSET (1..Len(rest))
    BY <1>4
<1>6. \A i : i \in at <=> i \in 1..Len(rest) /\ rest[i].kind # "indented"
    OBVIOUS
<1> HIDE DEF at
<1>7. ends # 0 => ends \in at /\ ends \in 1..Len(rest)
    BY <1>5, MinIn
<1>8. at # {} => ends # 0
    <2>1. at # {} => Min(at) \in at
        BY <1>5, MinIn
    <2> QED BY <1>5, <2>1
<1>9. MoreLines(lines) \in Seq(FileLines)
    <2>1. CASE ends = 0
        BY <1>1, <1>4, <2>1
    <2>2. CASE ends # 0
        <3>1. ends - 1 \in Int /\ 1 \in Int /\ \A i \in 1..(ends - 1) : rest[i] \in FileLines
            BY <1>4, <1>7, <2>2
        <3> HIDE DEF ends
        <3>2. SubSeq(rest, 1, ends - 1) \in Seq(FileLines)
            BY <3>1, SubSeqProperties
        <3> QED BY <1>1, <2>2, <3>2
    <2> QED BY <2>1, <2>2
<1>10. ASSUME f < n => lines[f + 1].kind # "indented" PROVE MoreLines(lines) = <<>>
    <2>1. CASE f = n
        <3>1. rest = <<>>
            BY <1>2, <1>4, <2>1
        <3>2. ends = 0
            BY <1>7, <3>1
        <3> QED BY <1>1, <3>1, <3>2
    <2>2. CASE f # n
        <3>1. f < n /\ 1 \in 1..Len(rest) /\ 1 \in 1..(n - (f + 1) + 1) /\ f + 1 + 1 - 1 = f + 1
            BY <1>2, <1>4, <2>2
        <3>2. rest[1] = lines[f + 1]
            BY <1>4, <3>1
        <3>3. 1 \in at
            BY <1>6, <1>10, <3>1, <3>2
        <3>4. Min(at) \in at /\ \A i \in at : Min(at) <= i
            <4>1. \E i \in at : \A m \in at : i <= m
                BY <1>5, <3>3, LeastNat
            <4> QED BY <4>1 DEF Min
        <3>5. ends = 1
            <4>1. Min(at) \in 1..Len(rest) /\ Min(at) <= 1 /\ Len(rest) \in Nat
                <5>1. Len(rest) \in Nat
                    BY <1>4
                <5>2. Min(at) \in 1..Len(rest)
                    BY <1>5, <3>4
                <5>3. Min(at) <= 1
                    BY <3>3, <3>4
                <5> QED BY <5>1, <5>2, <5>3
            <4> QED BY <3>3, <4>1
        <3> HIDE DEF ends
        <3>6. SubSeq(rest, 1, ends - 1) = <<>>
            BY <3>5, <1>4
        <3> QED BY <1>1, <3>5, <3>6
    <2> QED BY <2>1, <2>2
<1> QED BY <1>9, <1>10 DEF f, n
-----------------------------------------------------------------------------
\* A value on a line, without its comment if it is a plain scalar.
ValueOf(lines) == Trimmed(lines[FirstDescription(lines)].text)
PieceFor(v, s) == IF ~IsBlock(v) /\ ~IsQuoted(v) THEN StripComment(s) ELSE s
FirstPiece(v) == IF IsBlock(v) THEN <<>> ELSE PieceFor(v, v)
NextPiece(v, x, line) ==
    LET piece == PieceFor(v, Trimmed(line.text))
    IN IF piece = <<>> THEN x ELSE x \o <<Blank>> \o piece

\* The values of ExtractDescription's recursive function.
JoinedLines(v, more) ==
    CHOOSE f : f = [i \in 0..Len(more) |-> IF i = 0 THEN FirstPiece(v) ELSE NextPiece(v, f[i-1], more[i])]

\* extractDescription, in these parts.
LEMMA ExtractIsJoined ==
    \A lines :
       ExtractDescription(lines) =
          IF FirstDescription(lines) = 0 THEN <<>>
          ELSE JoinedLines(ValueOf(lines), MoreLines(lines))[Len(MoreLines(lines))]
BY DEF ExtractDescription, FirstDescription, ValueOf, MoreLines, JoinedLines, FirstPiece, NextPiece, PieceFor

\* The text of a line.
LEMMA LineTyped ==
    ASSUME NEW l \in FileLines
    PROVE  l.text \in Seq(Chars) /\ Trimmed(l.text) \in Seq(Chars)
<1>1. Seq(STRING) \subseteq Seq(Chars)
    BY DEF Chars
<1>2. l.text \in Seq(Chars)
    BY <1>1 DEF FileLines
<1>3. Trimmed(l.text) \in Seq(Chars)
    BY <1>2, TrimmedPart DEF PartOf
<1> QED BY <1>2, <1>3

\* Each piece is a text.
LEMMA PiecesTyped ==
    ASSUME NEW v \in Seq(Chars)
    PROVE  /\ FirstPiece(v) \in Seq(Chars)
           /\ \A x \in Seq(Chars), l \in FileLines : NextPiece(v, x, l) \in Seq(Chars)
<1>1. \A s \in Seq(Chars) : PieceFor(v, s) \in Seq(Chars)
    <2>1. \A s \in Seq(Chars) : StripComment(s) \in Seq(Chars)
        BY StrippedPart DEF PartOf
    <2> QED BY <2>1 DEF PieceFor
<1>2. ASSUME NEW x \in Seq(Chars), NEW l \in FileLines PROVE NextPiece(v, x, l) \in Seq(Chars)
    <2> DEFINE p == PieceFor(v, Trimmed(l.text))
               b == <<Blank>>
    <2>1. p \in Seq(Chars) /\ b \in Seq(Chars)
        BY <1>1, LineTyped, MarksTyped
    <2>2. NextPiece(v, x, l) = IF p = <<>> THEN x ELSE x \o b \o p
        BY DEF NextPiece
    <2> HIDE DEF p, b
    <2>3. x \o b \in Seq(Chars)
        BY <2>1
    <2>4. x \o b \o p \in Seq(Chars)
        BY <2>1, <2>3
    <2> QED BY <2>2, <2>4
<1> QED BY <1>1, <1>2, EmptyText DEF FirstPiece

\* A description is a text, whatever the lines are.
LEMMA JoinedTyped ==
    ASSUME NEW v \in Seq(Chars), NEW more \in Seq(FileLines)
    PROVE  /\ JoinedLines(v, more)[Len(more)] \in Seq(Chars)
           /\ Len(more) = 0 => JoinedLines(v, more)[Len(more)] = FirstPiece(v)
<1> DEFINE X == Seq(Chars)
           n == Len(more)
           b == FirstPiece(v)
           N(x, l) == NextPiece(v, x, l)
           G == [a \in X \X (1..n) |-> N(a[1], more[a[2]])]
           C == CHOOSE f : f = [i \in 0..n |-> IF i = 0 THEN b ELSE N(f[i - 1], more[i])]
<1>1. n \in Nat /\ (\A i \in 1..n : more[i] \in FileLines) /\ b \in X
    BY PiecesTyped
<1>2. \A x \in X, l \in FileLines : N(x, l) \in X
    BY PiecesTyped
<1>3. JoinedLines(v, more)[Len(more)] = C[n]
    BY DEF JoinedLines
<1> HIDE DEF X, n, b, N
<1>4. G \in [X \X (1..n) -> X]
    BY <1>1, <1>2
<1>5. \A x \in X, i \in 1..n : G[<<x, i>>] = N(x, more[i])
    OBVIOUS
<1> HIDE DEF G
<1>6. PICK f \in [0..n -> X] : Recurs(f, n, b, G)
    BY <1>1, <1>4, RecursionSolved
<1>7. ASSUME NEW i \in 0..n PROVE f[i] = IF i = 0 THEN b ELSE N(f[i - 1], more[i])
    <2>1. i # 0 => i \in 1..n /\ i - 1 \in 0..n
        BY <1>1
    <2> QED BY <1>5, <1>6, <2>1 DEF Recurs
<1>8. f = [i \in 0..n |-> IF i = 0 THEN b ELSE N(f[i - 1], more[i])]
    BY <1>7
<1>9. C = [i \in 0..n |-> IF i = 0 THEN b ELSE N(C[i - 1], more[i])]
    BY <1>8
<1> DEFINE P == {i \in 0..n : C[i] \in X}
<1> HIDE DEF C
<1>10. 0 \in P /\ C[0] = b
    BY <1>1, <1>9
<1>11. ASSUME NEW i \in 0..(n - 1), i \in P PROVE i + 1 \in P
    <2>1. i + 1 \in 1..n /\ i + 1 \in 0..n /\ (i + 1) - 1 = i /\ i + 1 # 0
        BY <1>1
    <2>2. C[i + 1] = N(C[i], more[i + 1]) /\ more[i + 1] \in FileLines /\ C[i] \in X
        BY <1>1, <1>9, <1>11, <2>1
    <2> QED BY <1>2, <2>1, <2>2
<1> HIDE DEF P
<1>12. \A i \in 0..n : i \in P
    <2>1. \A i \in 0..(n - 1) : i \in P => i + 1 \in P
        BY <1>11
    <2> QED BY <1>1, <1>10, <2>1, InductionUpTo
<1>13. n \in P
    BY <1>1, <1>12
<1> QED BY <1>3, <1>10, <1>13 DEF P, X, n, b

\* What is extracted is a text, whatever the lines are.
LEMMA ExtractTyped ==
    ASSUME NEW lines \in Seq(FileLines)
    PROVE  ExtractDescription(lines) \in Seq(Chars)
<1>1. CASE FirstDescription(lines) = 0
    BY <1>1, ExtractIsJoined, EmptyText
<1>2. CASE FirstDescription(lines) # 0
    <2>1. FirstDescription(lines) \in 1..Len(lines)
        BY <1>2, FirstDescriptionIn
    <2>2. lines[FirstDescription(lines)] \in FileLines
        BY <2>1
    <2>3. ValueOf(lines) \in Seq(Chars)
        BY <2>2, LineTyped DEF ValueOf
    <2>4. MoreLines(lines) \in Seq(FileLines)
        BY <1>2, MoreLinesTyped
    <2> QED BY <1>2, <2>3, <2>4, ExtractIsJoined, JoinedTyped
<1> QED BY <1>1, <1>2

\* A description on one line is what is on the line.
LEMMA ExtractOne ==
    ASSUME NEW lines \in Seq(FileLines), FirstDescription(lines) # 0,
           FirstDescription(lines) < Len(lines) => lines[FirstDescription(lines) + 1].kind # "indented",
           ~IsBlock(ValueOf(lines))
    PROVE  /\ ExtractDescription(lines) = PieceOf(ValueOf(lines))
           /\ lines[FirstDescription(lines)].text \in Seq(Chars)
<1>1. FirstDescription(lines) \in 1..Len(lines)
    BY FirstDescriptionIn
<1>2. lines[FirstDescription(lines)] \in FileLines
    BY <1>1
<1>3. ValueOf(lines) \in Seq(Chars) /\ lines[FirstDescription(lines)].text \in Seq(Chars)
    BY <1>2, LineTyped DEF ValueOf
<1>4. MoreLines(lines) = <<>> /\ MoreLines(lines) \in Seq(FileLines)
    BY MoreLinesTyped
<1>5. Len(MoreLines(lines)) = 0
    BY <1>4
<1>6. JoinedLines(ValueOf(lines), MoreLines(lines))[Len(MoreLines(lines))] = FirstPiece(ValueOf(lines))
    BY <1>3, <1>4, <1>5, JoinedTyped
<1>7. FirstPiece(ValueOf(lines)) = PieceOf(ValueOf(lines))
    BY DEF FirstPiece, PieceFor, PieceOf
<1> QED BY <1>3, <1>6, <1>7, ExtractIsJoined
-----------------------------------------------------------------------------
\* Four lines and what follows them.
LEMMA FourLines ==
    ASSUME NEW S, NEW a \in S, NEW b \in S, NEW c \in S, NEW d \in S, NEW r \in Seq(S),
           NEW x, x = <<a, b, c, d>> \o r
    PROVE  /\ Len(x) >= 4 /\ x[1] = a /\ x[2] = b /\ x[3] = c /\ x[4] = d
           /\ SubSeq(x, 5, Len(x)) = r
<1> DEFINE h == <<a, b, c, d>>
           n == Len(r)
<1>1. h \in Seq(S) /\ Len(h) = 4 /\ h[1] = a /\ h[2] = b /\ h[3] = c /\ h[4] = d /\ n \in Nat
    OBVIOUS
<1>2. x = h \o r
    OBVIOUS
<1> HIDE DEF h
<1>3. /\ x \in Seq(S) /\ Len(x) = 4 + n
      /\ \A i \in 1..(4 + n) : x[i] = IF i <= 4 THEN h[i] ELSE r[i - 4]
    BY <1>1, <1>2, ConcatProperties
<1>4. x[1] = h[1] /\ x[2] = h[2] /\ x[3] = h[3] /\ x[4] = h[4] /\ Len(x) >= 4
    <2>1. \A i \in 1..4 : i \in 1..(4 + n)
        BY <1>1
    <2>2. \A i \in 1..4 : x[i] = h[i]
        BY <1>3, <2>1
    <2> QED BY <1>1, <1>3, <2>2
<1> DEFINE y == SubSeq(x, 5, Len(x))
<1>5. y = r
    <2>1. \A i \in 5..(4 + n) : i \in 1..Len(x)
        BY <1>1, <1>3
    <2>2. /\ y \in Seq(S) /\ Len(y) = (IF 5 <= 4 + n THEN 4 + n - 5 + 1 ELSE 0)
          /\ \A i \in 1..(4 + n - 5 + 1) : y[i] = x[5 + i - 1]
        <3>1. 5 \in Int /\ Len(x) \in Int /\ \A i \in 5..Len(x) : x[i] \in S
            BY <1>1, <1>3, <2>1
        <3>2. /\ y \in Seq(S) /\ Len(y) = (IF 5 <= Len(x) THEN Len(x) - 5 + 1 ELSE 0)
              /\ \A i \in 1..(Len(x) - 5 + 1) : y[i] = x[5 + i - 1]
            BY <3>1, SubSeqProperties
        <3> QED BY <1>3, <3>2
    <2> HIDE DEF y
    <2>3. Len(y) = n
        BY <1>1, <2>2
    <2>4. ASSUME NEW i \in 1..n PROVE y[i] = r[i]
        <3>1. i \in 1..(4 + n - 5 + 1) /\ 5 + i - 1 \in 1..(4 + n) /\ ~(5 + i - 1 <= 4) /\ (5 + i - 1) - 4 = i
            BY <1>1
        <3> QED BY <1>3, <2>2, <3>1
    <2> QED BY <2>2, <2>3, <2>4, SeqEqual
<1> QED BY <1>1, <1>4, <1>5

\* The lines between the fences, and the description that is written for them.
Between(file) == SubSeq(file, 2, BodyStart(file) - 2)
Described(file) == [kind |-> "description",
                    text |-> Wrap(Quote, NormalizeDescription(ExtractDescription(Between(file))))]

\* The frontmatter and the body are lines of the file.
LEMMA BetweenTyped ==
    ASSUME NEW file \in Seq(FileLines), BodyStart(file) # 0
    PROVE  Between(file) \in Seq(FileLines) /\ SubSeq(file, BodyStart(file), Len(file)) \in Seq(FileLines)
<1> DEFINE b == BodyStart(file)
           n == Len(file)
<1>1. n \in Nat /\ b \in 3..(n + 1)
    BY BodyStartIn
<1> HIDE DEF b, n
<1>2. (\A i \in 2..(b - 2) : i \in 1..n) /\ (\A i \in b..n : i \in 1..n)
    BY <1>1
<1>3. \A i \in 1..n : file[i] \in FileLines
    BY DEF n
<1>4. b - 2 \in Int /\ b \in Int /\ n \in Int /\ 2 \in Int
    BY <1>1
<1>5. SubSeq(file, 2, b - 2) \in Seq(FileLines)
    BY <1>2, <1>3, <1>4, SubSeqProperties
<1>6. SubSeq(file, b, n) \in Seq(FileLines)
    BY <1>2, <1>3, <1>4, SubSeqProperties
<1> QED BY <1>5, <1>6 DEF Between, b, n

\* The copy's first four lines, and the body.
LEMMA MuseLines ==
    ASSUME NEW file \in Seq(FileLines), BodyStart(file) # 0
    PROVE  LET x == MuseSkillMD(file)
           IN /\ Len(x) >= 4 /\ x[1] = FenceLine /\ x[2] = NameLine
              /\ x[3] = Described(file) /\ x[4] = FenceLine
              /\ SubSeq(x, 5, Len(x)) = SubSeq(file, BodyStart(file), Len(file))
<1> DEFINE d == Described(file)
           r == SubSeq(file, BodyStart(file), Len(file))
           x == MuseSkillMD(file)
           S == FileLines \cup {FenceLine, NameLine, d}
<1>1. x = <<FenceLine, NameLine, d, FenceLine>> \o r
    BY DEF MuseSkillMD, Described, Between, Wrap
<1>2. r \in Seq(FileLines)
    BY BetweenTyped
<1> HIDE DEF d, r, x
<1>3. r \in Seq(S) /\ d \in S /\ FenceLine \in S /\ NameLine \in S
    BY <1>2
<1> HIDE DEF S
<1>4. /\ Len(x) >= 4 /\ x[1] = FenceLine /\ x[2] = NameLine /\ x[3] = d /\ x[4] = FenceLine
      /\ SubSeq(x, 5, Len(x)) = r
    BY <1>1, <1>3, FourLines
<1> QED BY <1>4 DEF d, r, x

\* Whatever is published, Muse loads what is written.
LEMMA MuseLoads ==
    ASSUME NEW file \in Seq(FileLines)
    PROVE  LoadsInMuse(file, MuseSkillMD(file))
<1>1. CASE BodyStart(file) = 0
    BY <1>1 DEF LoadsInMuse, MuseSkillMD
<1>2. CASE BodyStart(file) # 0
    <2> DEFINE e == ExtractDescription(Between(file))
               u == NormalizeDescription(e)
               x == MuseSkillMD(file)
               v == LoadLine(x[3].text)
    <2>1. e \in Seq(Chars)
        <3>1. Between(file) \in Seq(FileLines)
            BY <1>2, BetweenTyped
        <3> QED BY <3>1, ExtractTyped
    <2>2. /\ Len(x) >= 4 /\ x[1] = FenceLine /\ x[2] = NameLine
          /\ x[3] = Described(file) /\ x[4] = FenceLine
          /\ SubSeq(x, 5, Len(x)) = SubSeq(file, BodyStart(file), Len(file))
        BY <1>2, MuseLines
    <2>3. x[3].kind = "description" /\ x[3].text = Wrap(Quote, u)
        BY <2>2 DEF Described
    <2> HIDE DEF e, x
    <2>4. /\ Written(e) # <<>> /\ Len(Written(e)) <= MaxDescription /\ u \in Seq(Chars)
          /\ LoadLine(Wrap(Quote, u)).valid /\ LoadLine(Wrap(Quote, u)).text = Written(e)
        BY <2>1, WrittenLoads
    <2> HIDE DEF u
    <2>5. Wrapped(x[3].text, Quote)
        BY <2>3, <2>4, WrapFacts, MarksTyped
    <2>6. v.valid /\ v.text # <<>> /\ Len(v.text) <= MaxDescription
        BY <2>3, <2>4
    <2> HIDE DEF v
    <2>7. <<x[1], x[2], x[4]>> = <<FenceLine, NameLine, FenceLine>>
        BY <2>2
    <2> QED BY <1>2, <2>2, <2>3, <2>5, <2>6, <2>7 DEF LoadsInMuse, x, v
<1> QED BY <1>1, <1>2

\* What a loader could read on the line that was published reads the same.
LEMMA MuseKeeps ==
    ASSUME NEW file \in Seq(FileLines)
    PROVE  DescriptionKept(file, MuseSkillMD(file))
<1> DEFINE front == Between(file)
           at == FirstDescription(front)
           line == front[at].text
           was == LoadLine(line)
           x == MuseSkillMD(file)
           is == Squeezed(LoadLine(x[3].text).text)
<1>1. DescriptionKept(file, x) <=>
        (BodyStart(file) # 0 =>
           ((at # 0 /\ (at < Len(front) => front[at+1].kind # "indented"))
            => (was.valid /\ Squeezed(was.text) # <<>> /\ Len(was.text) <= MaxDescription
                => is = Squeezed(was.text))))
    BY DEF DescriptionKept, Between, FirstDescription
<1> SUFFICES ASSUME BodyStart(file) # 0, at # 0, at < Len(front) => front[at+1].kind # "indented",
                    was.valid, Squeezed(was.text) # <<>>, Len(was.text) <= MaxDescription
             PROVE  is = Squeezed(was.text)
    BY <1>1
<1>2. front \in Seq(FileLines)
    BY BetweenTyped
<1>3. x[3].text = Wrap(Quote, NormalizeDescription(ExtractDescription(front)))
    <2>1. x[3] = Described(file)
        BY MuseLines
    <2> QED BY <2>1 DEF Described
<1> HIDE DEF front, x
<1>4. line \in Seq(Chars)
    <2>1. at \in 1..Len(front)
        BY <1>2, FirstDescriptionIn
    <2> HIDE DEF at
    <2>2. front[at] \in FileLines
        BY <1>2, <2>1
    <2> QED BY <2>2, LineTyped
<1>5. ValueOf(front) = Trimmed(line)
    BY DEF ValueOf
<1> HIDE DEF line
<1>6. /\ ~IsBlock(Trimmed(line))
      /\ Squeezed(Written(PieceOf(Trimmed(line)))) = Squeezed(was.text)
    BY <1>4, LineKept
<1>7. ExtractDescription(front) = PieceOf(Trimmed(line))
    BY <1>2, <1>5, <1>6, ExtractOne
<1>8. LoadLine(x[3].text).text = Written(ExtractDescription(front))
    <2>1. ExtractDescription(front) \in Seq(Chars)
        BY <1>2, ExtractTyped
    <2> QED BY <1>3, <2>1, WrittenLoads
<1> QED BY <1>6, <1>7, <1>8
-----------------------------------------------------------------------------
(***************************************************************************)
(* Where no regular tool has its copy, the only copy is the one wanted.    *)
(***************************************************************************)
CopyInv == /\ src \in Seq(FileLines)
           /\ ~Shared(row) /\ copy.kind = "copy" => copy = Want

\* A turn writes the copy that is wanted; the regular tool has its own path.
LEMMA CopyStays == CopyInv /\ [GatedNext]_gatedVars => CopyInv'
<1> SUFFICES ASSUME CopyInv, [GatedNext]_gatedVars PROVE CopyInv'
    OBVIOUS
<1> USE DEF CopyInv
<1>1. UNCHANGED <<row, src>>
    BY DEF GatedNext, Step, Begin, Regular, NoMarker, ReadMarker, Inactive, Resolve, NothingToDo, Look,
           Recheck, RecheckFails, Install, Delete, TurnFails, SavesMarker, SavesFile, RootGoes, RootComes,
           Intervention, world, gatedVars
<1>2. Shared(row)' = Shared(row) /\ Want' = Want
    BY <1>1 DEF Shared, SkillFile, Want
<1>3. copy' \in {copy, Want, Absent, Link, Theirs} \/ Shared(row)
    BY DEF GatedNext, Step, Begin, Regular, NoMarker, ReadMarker, Inactive, Resolve, NothingToDo, Look,
           Recheck, RecheckFails, Install, Delete, TurnFails, SavesMarker, SavesFile, RootGoes, RootComes,
           gatedVars, Shared
<1>4. "copy" \notin {Absent.kind, Link.kind, Theirs.kind}
    BY DEF Absent, Link, Theirs
<1> QED BY <1>1, <1>2, <1>3, <1>4

\* The copy of a gated tool for Muse, when no regular tool has a copy at the
\* same path, is one Muse loads: a name and a quoted description between the
\* fences, the body as it was published; and a description on one line that
\* could be read before and fits reads the same.
THEOREM CopiesLoad == GatedSpec => []CopyLoads
<1>1. GatedInit => CopyInv
    BY HostsAssumption DEF GatedInit, CopyInv, FileLines, Absent, Link, Theirs
<1>2. CopyInv => CopyLoads
    <2> SUFFICES ASSUME CopyInv, row.format = "muse", ~Shared(row), copy.kind = "copy"
                 PROVE  LoadsInMuse(src, copy.text) /\ DescriptionKept(src, copy.text)
        BY DEF CopyLoads
    <2>1. copy.text = MuseSkillMD(src)
        BY DEF CopyInv, Want, Copy, FormatSkill
    <2>2. src \in Seq(FileLines)
        BY DEF CopyInv
    <2> QED BY <2>1, <2>2, MuseLoads, MuseKeeps
<1> QED BY <1>1, <1>2, CopyStays, PTL DEF GatedSpec
=============================================================================
