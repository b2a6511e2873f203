-------------------------- MODULE AtomicFile_proofs --------------------------
(***************************************************************************)
(* For any number of writers, contents, pieces, temp names and inodes: as  *)
(* long as no two writers share a temp name, the target is never torn and  *)
(* the routine implements the one-step register of WholeFile.              *)
(***************************************************************************)
EXTENDS AtomicFile, TLAPS

USE ChunksAssumption, NamesAssumption, ValueAssumption, WritersAssumption

LEMMA TempNamesAreTemps == TempNames \subseteq Temps
  BY DEF TempNames

LEMMA InitIInv == Init => IInv
  <1> SUFFICES ASSUME Init PROVE IInv
    OBVIOUS
  <1>1. TypeOK
    BY DEF Init, TypeOK, Names, Pieces, Hole
  <1>2. PhasesAgree /\ TempsApart /\ TempsFilled
    BY DEF Init, PhasesAgree, TempsApart, TempsFilled, Holding, Names
  <1>3. NoTornTarget /\ NeverInstalledWithoutMode
    BY DEF Init, NoTornTarget, NeverInstalledWithoutMode, Names
  <1> QED BY <1>1, <1>2, <1>3 DEF IInv

\* The target's inode is held by nobody.
LEMMA TargetNotHeld ==
    ASSUME IInv, NEW w \in Writers, Holding(w)
    PROVE  fd[w] # dir[Target]
  BY DEF IInv, TempsApart, Names

LEMMA StepCall ==
    ASSUME IInv, NEW w \in Writers, NEW v \in Values, Call(w, v), variant' = variant
    PROVE  IInv'
  <1> USE DEF IInv, Call
  <1>1. TypeOK'
    BY DEF TypeOK
  <1>2. PhasesAgree'
    BY DEF PhasesAgree, TypeOK, Holding
  <1>3. TempsApart' /\ TempsFilled'
    BY DEF TempsApart, TempsFilled, TypeOK, Holding
  <1>4. NoTornTarget' /\ NeverInstalledWithoutMode'
    BY DEF NoTornTarget, NeverInstalledWithoutMode, Whole
  <1> QED BY <1>1, <1>2, <1>3, <1>4

LEMMA StepOpenNew ==
    ASSUME IInv, NEW w \in Writers, NEW n \in Temps, OpenNew(w, n), variant' = variant
    PROVE  IInv'
  <1> DEFINE i == CHOOSE j \in Inodes : Free(j)
  <1>0. i \in Inodes /\ Free(i) /\ i # NoInode
    BY DEF OpenNew
  <1> HIDE DEF i
  <1>a. /\ pc[w] = "open" /\ dir[n] = NoInode
        /\ dir' = [dir EXCEPT ![n] = i]
        /\ exec' \in [Inodes -> BOOLEAN]
        /\ \A j \in Inodes : j # i => exec'[j] = exec[j]
        /\ pc' = [pc EXCEPT ![w] = "write"]
        /\ tmp' = [tmp EXCEPT ![w] = n]
        /\ fd' = [fd EXCEPT ![w] = i]
        /\ content' = [content EXCEPT ![i] = Hole]
        /\ UNCHANGED <<val, next>>
    BY <1>0 DEF OpenNew, Opened, i, IInv, TypeOK
  <1>b. n \in Names /\ n # Target /\ dir'[Target] = dir[Target] /\ dir[Target] # i
    BY <1>a, <1>0 DEF Names, Free, IInv, TypeOK
  <1>1. TypeOK'
    BY <1>0, <1>a, <1>b DEF IInv, TypeOK, Hole, Names
  <1>2. PhasesAgree'
    BY <1>a, <1>0 DEF IInv, PhasesAgree, TypeOK, Holding
  <1>3. TempsApart'
    BY <1>a, <1>0, <1>b DEF IInv, TempsApart, TypeOK, Holding, Free, Names
  <1>4. TempsFilled'
    BY <1>a, <1>0, <1>b DEF IInv, TempsFilled, TempsApart, PhasesAgree, TypeOK, Holding, Free
  <1>5. NoTornTarget' /\ NeverInstalledWithoutMode'
    BY <1>a, <1>b, <1>0 DEF IInv, NoTornTarget, NeverInstalledWithoutMode, Whole, TypeOK, Names
  <1> QED BY <1>1, <1>2, <1>3, <1>4, <1>5 DEF IInv

LEMMA StepOpenExisting ==
    ASSUME IInv, NoSharedTemp, NEW w \in Writers, NEW n \in Temps, OpenExisting(w, n), variant' = variant
    PROVE  IInv'
  <1>a. /\ pc[w] = "open" /\ dir[n] # NoInode /\ dir[n] \in Inodes
        /\ pc' = [pc EXCEPT ![w] = "write"]
        /\ tmp' = [tmp EXCEPT ![w] = n]
        /\ fd' = [fd EXCEPT ![w] = dir[n]]
        /\ content' = [content EXCEPT ![dir[n]] = Hole]
        /\ UNCHANGED <<dir, exec, val, next>>
    BY DEF OpenExisting, Opened, IInv, TypeOK, Names
  <1>b. \A x \in Writers : pc[x] # "idle" => x = w
    BY <1>a DEF OpenExisting, NoSharedTemp, IInv, TypeOK, PhasesAgree
  <1>c. n \in Names /\ n # Target /\ dir[Target] # dir[n]
    BY <1>a DEF Names, IInv, TempsApart
  <1>1. TypeOK'
    BY <1>a, <1>c DEF IInv, TypeOK, Hole
  <1>2. PhasesAgree'
    BY <1>a, <1>b DEF IInv, PhasesAgree, TypeOK, Holding
  <1>3. TempsApart'
    BY <1>a, <1>b, <1>c DEF IInv, TempsApart, TypeOK, Holding
  <1>4. TempsFilled'
    BY <1>a, <1>b DEF IInv, TempsFilled, PhasesAgree, TypeOK, Holding
  <1>5. NoTornTarget' /\ NeverInstalledWithoutMode'
    BY <1>a, <1>c DEF IInv, NoTornTarget, NeverInstalledWithoutMode, Whole, TypeOK
  <1> QED BY <1>1, <1>2, <1>3, <1>4, <1>5 DEF IInv

LEMMA StepWriteChunk ==
    ASSUME IInv, NEW w \in Writers, WriteChunk(w), variant' = variant
    PROVE  IInv'
  <1> USE DEF WriteChunk
  <1>a. /\ fd[w] \in Inodes /\ fd[w] # dir[Target] /\ next[w] \in Pieces
        /\ val[w] \in Values \cup {NoValue} /\ Holding(w)
        /\ \A x \in Writers : Holding(x) /\ x # w => fd[x] # fd[w]
    BY TargetNotHeld DEF IInv, TypeOK, TempsApart, PhasesAgree, Holding, Pieces, Names
  <1>b. /\ \A i \in Inodes : i # fd[w] => content'[i] = content[i]
        /\ content'[fd[w]] = [content[fd[w]] EXCEPT ![next[w]] = val[w]]
        /\ content[fd[w]] \in [Pieces -> Values \cup {NoValue}]
        /\ content' \in [Inodes -> [Pieces -> Values \cup {NoValue}]]
    BY <1>a DEF IInv, TypeOK
  <1>1. TypeOK'
    BY <1>a, <1>b DEF IInv, TypeOK, Pieces
  <1>2. PhasesAgree'
    BY <1>a DEF IInv, PhasesAgree, TypeOK, Holding, Pieces
  <1>3. TempsApart'
    BY <1>a DEF IInv, TempsApart, TypeOK, Holding
  <1>4. TempsFilled'
    <2> SUFFICES ASSUME NEW x \in Writers PROVE
          /\ Holding(x)' => \A k \in 1..(next'[x] - 1) : content'[fd'[x]][k] = val'[x]
          /\ pc'[x] = "rename" /\ variant # "plain" => exec'[fd'[x]]
      BY DEF TempsFilled
    <2>1. CASE x = w
      <3>1. \A k \in 1..(next[w] - 1) : k \in Pieces /\ k # next[w]
                                        /\ content[fd[w]][k] = val[w]
        BY <1>a DEF IInv, TempsFilled, Pieces
      <3>2. next'[w] - 1 = next[w] /\ next[w] \in Nat
        BY <1>a DEF IInv, TypeOK, Pieces
      <3>3. \A k \in 1..next[w] : content'[fd[w]][k] = val[w]
        <4> DEFINE old == content[fd[w]]
                   new == content'[fd[w]]
        <4>1. new = [old EXCEPT ![next[w]] = val[w]] /\ old \in [Pieces -> Values \cup {NoValue}]
              /\ next[w] \in Pieces
          BY <1>a, <1>b
        <4>2. \A k \in 1..(next[w] - 1) : k \in Pieces /\ k # next[w] /\ old[k] = val[w]
          BY <3>1
        <4>3. \A k \in 1..next[w] : k = next[w] \/ k \in 1..(next[w] - 1)
          BY <1>a DEF Pieces
        <4> HIDE DEF old, new
        <4>4. \A k \in 1..next[w] : new[k] = val[w]
          BY <4>1, <4>2, <4>3
        <4> QED BY <4>4 DEF new
      <3> QED BY <2>1, <3>2, <3>3 DEF IInv, TypeOK
    <2>2. CASE x # w
      BY <2>2, <1>a, <1>b DEF IInv, TempsFilled, TypeOK, Holding, TempsApart
    <2> QED BY <2>1, <2>2
  <1>5. NoTornTarget' /\ NeverInstalledWithoutMode'
    BY <1>a, <1>b DEF IInv, NoTornTarget, NeverInstalledWithoutMode, Whole, TypeOK, Names
  <1> QED BY <1>1, <1>2, <1>3, <1>4, <1>5 DEF IInv

\* The routine returning, whatever it unlinked besides the target.
LEMMA StepReturn ==
    ASSUME IInv, NEW w \in Writers, Return(w), UNCHANGED <<variant, content, exec>>,
           dir' = dir \/ (Holding(w) /\ Unlink(tmp[w]))
    PROVE  IInv'
  <1> USE DEF Return
  <1>a. Holding(w) => tmp[w] \in Names /\ tmp[w] # Target
    BY DEF IInv, TempsApart, Names
  <1>b. dir' \in [Names -> Inodes \cup {NoInode}] /\ dir'[Target] = dir[Target]
    BY <1>a DEF Unlink, IInv, TypeOK, Names
  <1>1. TypeOK'
    BY <1>b DEF IInv, TypeOK, Names
  <1>2. PhasesAgree'
    BY DEF IInv, PhasesAgree, TypeOK, Holding
  <1>3. TempsApart'
    <2>1. CASE dir' = dir
      BY <2>1 DEF IInv, TempsApart, TypeOK, Holding
    <2>2. CASE Holding(w) /\ Unlink(tmp[w])
      BY <2>2, <1>a DEF IInv, TempsApart, TypeOK, Holding, Unlink
    <2> QED BY <2>1, <2>2
  <1>4. TempsFilled'
    BY DEF IInv, TempsFilled, TypeOK, Holding
  <1>5. NoTornTarget' /\ NeverInstalledWithoutMode'
    BY <1>b DEF IInv, NoTornTarget, NeverInstalledWithoutMode, Whole
  <1> QED BY <1>1, <1>2, <1>3, <1>4, <1>5 DEF IInv

LEMMA StepChmod ==
    ASSUME IInv, NEW w \in Writers, Chmod(w), variant' = variant
    PROVE  IInv'
  <1>a. /\ fd[w] \in Inodes /\ Holding(w)
        /\ exec' = [exec EXCEPT ![fd[w]] = TRUE]
        /\ pc' = [pc EXCEPT ![w] = "rename"]
        /\ UNCHANGED <<dir, content, val, tmp, fd, next>>
    <2>1. Holding(w) /\ pc[w] = "chmod"
      BY DEF Chmod, Holding
    <2>2. fd[w] \in Inodes /\ dir[tmp[w]] = fd[w]
      <3>1. fd[w] # NoInode /\ dir[tmp[w]] = fd[w]
        BY <2>1 DEF IInv, TempsApart
      <3>2. fd[w] \in Inodes \cup {NoInode}
        BY DEF IInv, TypeOK
      <3> QED BY <3>1, <3>2
    <2> QED BY <2>1, <2>2 DEF Chmod
  <1>1. TypeOK' /\ PhasesAgree' /\ TempsApart' /\ TempsFilled'
    BY <1>a DEF Chmod, IInv, TypeOK, PhasesAgree, TempsApart, TempsFilled, Holding
  <1>2. NoTornTarget' /\ NeverInstalledWithoutMode'
    BY <1>a DEF IInv, TypeOK, Names, NoTornTarget, NeverInstalledWithoutMode, Whole
  <1> QED BY <1>1, <1>2 DEF IInv

\* The inode that takes the target's name is complete.
LEMMA RenamesWholeContent ==
    ASSUME IInv, NEW w \in Writers, RenameTmp(w)
    PROVE  /\ val[w] \in Values
           /\ dir'[Target] = fd[w] /\ fd[w] \in Inodes
           /\ \A k \in Pieces : content'[fd[w]][k] = val[w]
           /\ dir'[tmp[w]] = NoInode
           /\ \A n \in Temps : n # tmp[w] => dir'[n] = dir[n]
  <1>1. /\ Holding(w) /\ tmp[w] \in Temps /\ fd[w] = dir[tmp[w]] /\ fd[w] \in Inodes
        /\ next[w] = Chunks + 1
    BY DEF RenameTmp, IInv, TypeOK, TempsApart, PhasesAgree, Holding
  <1>2. val[w] \in Values
    BY DEF RenameTmp, IInv, TypeOK, PhasesAgree
  <1>3. dir' = [dir EXCEPT ![Target] = fd[w], ![tmp[w]] = NoInode] /\ content' = content
    BY <1>1 DEF RenameTmp
  <1>4. Whole(fd[w], val[w])
    BY <1>1 DEF Whole, IInv, TempsFilled, Pieces
  <1>5. \A k \in Pieces : content'[fd[w]][k] = val[w]
    BY <1>3, <1>4 DEF Whole
  <1> QED BY <1>1, <1>2, <1>3, <1>5 DEF IInv, TypeOK, Names

LEMMA StepRenameTmp ==
    ASSUME IInv, NEW w \in Writers, RenameTmp(w), variant' = variant
    PROVE  IInv'
  <1>a. /\ Holding(w) /\ tmp[w] \in Temps
        /\ UNCHANGED <<content, exec>> /\ Return(w)
        /\ dir' \in [Names -> Inodes \cup {NoInode}]
    BY DEF RenameTmp, IInv, TempsApart, Holding, TypeOK, Names
  <1>1. TypeOK'
    BY <1>a DEF Return, IInv, TypeOK, Names
  <1>2. PhasesAgree'
    BY <1>a DEF Return, IInv, PhasesAgree, TypeOK, Holding
  <1>3. TempsApart'
    <2>1. \A m, n \in Names : dir'[m] = dir'[n] /\ dir'[m] # NoInode => m = n
      BY RenamesWholeContent, <1>a DEF IInv, TempsApart, Names
    <2>2. ASSUME NEW x \in Writers, Holding(x)'
          PROVE  x # w /\ Holding(x) /\ tmp'[x] = tmp[x] /\ fd'[x] = fd[x] /\ tmp[x] # tmp[w]
      BY <2>2, <1>a DEF Return, Holding, IInv, TypeOK, TempsApart
    <2> QED BY <2>1, <2>2, <1>a, RenamesWholeContent DEF IInv, TempsApart
  <1>4. TempsFilled'
    BY <1>a DEF Return, IInv, TempsFilled, TypeOK, Holding
  <1>5. NoTornTarget'
    BY RenamesWholeContent DEF NoTornTarget, Whole
  <1>6. NeverInstalledWithoutMode'
    <2>1. variant # "plain" => exec[fd[w]]
      BY DEF RenameTmp, IInv, TempsFilled
    <2>2. dir'[Target] = fd[w]
      BY RenamesWholeContent
    <2>3. exec' = exec
      BY <1>a
    <2> QED BY <2>1, <2>2, <2>3, Zenon DEF NeverInstalledWithoutMode
  <1> QED BY <1>1, <1>2, <1>3, <1>4, <1>5, <1>6 DEF IInv

LEMMA StepIInv ==
    ASSUME IInv, NoSharedTemp, [Next]_vars
    PROVE  IInv'
  <1>0. variant' = variant
    BY DEF Next, vars
  <1>1. ASSUME NEW w \in Writers, NEW v \in Values, Call(w, v) PROVE IInv'
    BY <1>0, <1>1, StepCall
  <1>2. ASSUME NEW w \in Writers, NEW n \in TempNames, OpenNew(w, n) PROVE IInv'
    BY <1>0, <1>2, StepOpenNew, TempNamesAreTemps
  <1>3. ASSUME NEW w \in Writers, NEW n \in TempNames, OpenExisting(w, n) PROVE IInv'
    BY <1>0, <1>3, StepOpenExisting, TempNamesAreTemps
  <1>4. ASSUME NEW w \in Writers, OpenFails(w) \/ WriteFails(w) \/ StepFails(w) \/ Crash(w)
        PROVE  IInv'
    BY <1>0, <1>4, StepReturn DEF OpenFails, WriteFails, StepFails, Crash, Holding
  <1>5. ASSUME NEW w \in Writers, WriteChunk(w) PROVE IInv'
    BY <1>0, <1>5, StepWriteChunk
  <1>6. ASSUME NEW w \in Writers, Chmod(w) PROVE IInv'
    BY <1>0, <1>6, StepChmod
  <1>7. ASSUME NEW w \in Writers, RenameTmp(w) PROVE IInv'
    BY <1>0, <1>7, StepRenameTmp
  <1>8. CASE UNCHANGED vars
    BY <1>8 DEF vars, IInv, TypeOK, PhasesAgree, TempsApart, TempsFilled, Holding,
                NoTornTarget, NeverInstalledWithoutMode, Whole
  <1> QED BY <1>1, <1>2, <1>3, <1>4, <1>5, <1>6, <1>7, <1>8 DEF Next

\* The inductive invariant: temps are apart from each other and from the
\* target, and hold what their writer wrote so far.
THEOREM Inductive == NoSharedTemp /\ Spec => []IInv
  <1> SUFFICES ASSUME NoSharedTemp PROVE Spec => []IInv
    OBVIOUS
  <1>1. Init => IInv
    BY InitIInv
  <1>2. IInv /\ [Next]_vars => IInv'
    BY StepIInv
  <1> QED BY <1>1, <1>2, PTL DEF Spec

\* Every variable keeps its type, descriptors and leftovers included.
THEOREM TypeCorrect == NoSharedTemp /\ Spec => []TypeOK
  <1>1. IInv => TypeOK
    BY DEF IInv
  <1> QED BY <1>1, Inductive, PTL

\* No reader of an installed file ever sees a torn one.
THEOREM Untorn == NoSharedTemp /\ Spec => []NoTornTarget
  <1>1. IInv => NoTornTarget
    BY DEF IInv
  <1> QED BY <1>1, Inductive, PTL

\* A helper or gated copy never appears under its name without its mode.
THEOREM ModeBeforeName == NoSharedTemp /\ Spec => []NeverInstalledWithoutMode
  <1>1. IInv => NeverInstalledWithoutMode
    BY DEF IInv
  <1> QED BY <1>1, Inductive, PTL
-----------------------------------------------------------------------------
\* A whole inode is whole for one content only, so Visible finds it.
LEMMA VisibleIsWhole ==
    ASSUME NEW v \in Values, dir[Target] # NoInode, Whole(dir[Target], v)
    PROVE  Visible = v
  <1>1. \A u \in Values : Whole(dir[Target], u) => u = v
    BY 1 \in Pieces DEF Whole, Pieces
  <1> QED BY <1>1 DEF Visible

\* While the target keeps its inode, nobody changes what is in it.
LEMMA TargetUntouched ==
    ASSUME IInv, NoSharedTemp, [Next]_vars, dir'[Target] = dir[Target]
    PROVE  dir[Target] # NoInode => content'[dir[Target]] = content[dir[Target]]
  <1> SUFFICES ASSUME dir[Target] # NoInode
               PROVE  content'[dir[Target]] = content[dir[Target]]
    OBVIOUS
  <1>0. dir[Target] \in Inodes
    BY DEF IInv, TypeOK, Names
  <1>1. ASSUME NEW w \in Writers, NEW n \in TempNames, OpenNew(w, n) PROVE content'[dir[Target]] = content[dir[Target]]
    <2>1. dir[Target] # CHOOSE j \in Inodes : Free(j)
      BY <1>1 DEF OpenNew, Free, Names
    <2> QED BY <1>0, <1>1, <2>1 DEF OpenNew, Opened, IInv, TypeOK
  <1>2. ASSUME NEW w \in Writers, NEW n \in TempNames, OpenExisting(w, n) PROVE content'[dir[Target]] = content[dir[Target]]
    <2>1. dir[Target] # dir[n]
      BY <1>2, TempNamesAreTemps DEF OpenExisting, IInv, TempsApart, Names
    <2> QED BY <1>0, <1>2, <2>1 DEF OpenExisting, Opened, IInv, TypeOK
  <1>3. ASSUME NEW w \in Writers, WriteChunk(w) PROVE content'[dir[Target]] = content[dir[Target]]
    <2>1. fd[w] # dir[Target]
      BY <1>3, TargetNotHeld DEF WriteChunk, Holding
    <2> QED BY <1>0, <1>3, <2>1 DEF WriteChunk, IInv, TypeOK
  <1>4. CASE content' = content
    BY <1>4
  <1> QED BY <1>1, <1>2, <1>3, <1>4 DEF Next, Call, OpenFails, WriteFails, Chmod,
             StepFails, RenameTmp, Crash, vars

LEMMA VisibleUntouched ==
    ASSUME IInv, NoSharedTemp, [Next]_vars, dir'[Target] = dir[Target]
    PROVE  Visible' = Visible
  BY TargetUntouched DEF Visible, Whole

\* Only a rename changes what a reader sees.
THEOREM OnlyRename == NoSharedTemp /\ Spec => OnlyRenameChangesTarget
  <1> SUFFICES ASSUME NoSharedTemp PROVE Spec => OnlyRenameChangesTarget
    OBVIOUS
  <1>1. IInv /\ [Next]_vars => (dir'[Target] = dir[Target] => Visible' = Visible)
    BY VisibleUntouched
  <1> QED BY <1>1, Inductive, PTL DEF Spec, OnlyRenameChangesTarget

\* Each step of the routine is a step of the register or none at all.
LEMMA StepSimulates ==
    ASSUME IInv, NoSharedTemp, [Next]_vars
    PROVE  [Abstract!WNext]_(Abstract!wvars)
  <1> USE DEF Abstract!WNext, Abstract!wvars, Abstract!Begin, Abstract!Commit, Abstract!GiveUp
  <1>1. ASSUME NEW w \in Writers, NEW v \in Values, Call(w, v) PROVE Abstract!Begin(w, v)
    <2>1. dir' = dir
      BY <1>1 DEF Call
    <2>2. Visible' = Visible
      BY <1>1, <2>1, VisibleUntouched
    <2>3. val[w] = NoValue
      BY <1>1 DEF Call, IInv, PhasesAgree
    <2> QED BY <1>1, <2>2, <2>3 DEF Call
  <1>2. ASSUME NEW w \in Writers, Return(w), pc[w] # "idle", dir'[Target] = dir[Target]
        PROVE  Abstract!GiveUp(w)
    <2>1. Visible' = Visible
      BY <1>2, VisibleUntouched
    <2>2. val[w] # NoValue
      BY <1>2 DEF IInv, PhasesAgree
    <2> QED BY <1>2, <2>1, <2>2 DEF Return
  <1>3. ASSUME NEW w \in Writers, OpenFails(w) \/ WriteFails(w) \/ StepFails(w) \/ Crash(w)
        PROVE  Abstract!GiveUp(w)
    <2>1. Return(w) /\ pc[w] # "idle"
      BY <1>3 DEF OpenFails, WriteFails, StepFails, Crash
    <2>2. dir'[Target] = dir[Target]
      BY <1>3 DEF OpenFails, WriteFails, StepFails, Crash, Unlink, IInv, TempsApart, TypeOK, Holding, Names
    <2> QED BY <1>2, <2>1, <2>2
  <1>4. ASSUME NEW w \in Writers, RenameTmp(w) PROVE Abstract!Commit(w)
    <2>1. Visible' = val[w]
      <3>1. dir'[Target] = fd[w] /\ fd[w] \in Inodes /\ val[w] \in Values
            /\ \A k \in Pieces : content'[fd[w]][k] = val[w]
        BY <1>4, RenamesWholeContent
      <3>2. \A u \in Values : Whole(dir[Target], u)' <=> u = val[w]
        BY <3>1, 1 \in Pieces DEF Whole, Pieces
      <3> QED BY <3>1, <3>2 DEF Visible
    <2>2. val[w] # NoValue
      BY <1>4 DEF RenameTmp, IInv, PhasesAgree
    <2> QED BY <1>4, <2>1, <2>2 DEF RenameTmp, Return
  <1>5. ASSUME val' = val, dir' = dir PROVE UNCHANGED Abstract!wvars
    BY <1>5, VisibleUntouched
  <1>6. ASSUME NEW w \in Writers, NEW n \in TempNames, OpenNew(w, n) PROVE UNCHANGED Abstract!wvars
    <2>1. dir'[Target] = dir[Target] /\ val' = val
      BY <1>6, TempNamesAreTemps DEF OpenNew, Opened, IInv, TypeOK, Names
    <2> QED BY <2>1, VisibleUntouched
  <1>7. ASSUME NEW w \in Writers, NEW n \in TempNames, OpenExisting(w, n)
        PROVE  UNCHANGED Abstract!wvars
    BY <1>5, <1>7 DEF OpenExisting, Opened
  <1>8. ASSUME NEW w \in Writers, WriteChunk(w) \/ Chmod(w)
        PROVE  UNCHANGED Abstract!wvars
    BY <1>5, <1>8 DEF WriteChunk, Chmod
  <1>9. CASE UNCHANGED vars
    BY <1>5, <1>9 DEF vars
  <1> QED BY <1>1, <1>3, <1>4, <1>6, <1>7, <1>8, <1>9 DEF Next

\* The detailed routine implements the one-step register.
THEOREM Refinement == NoSharedTemp /\ Spec => RefinesWholeFile
  <1> SUFFICES ASSUME NoSharedTemp PROVE Spec => RefinesWholeFile
    OBVIOUS
  <1>1. Init => Abstract!WInit
    BY DEF Init, Abstract!WInit, Visible, Names
  <1>2. IInv /\ [Next]_vars => [Abstract!WNext]_(Abstract!wvars)
    BY StepSimulates
  <1> QED BY <1>1, <1>2, Inductive, PTL DEF Spec, RefinesWholeFile, Abstract!WSpec
=============================================================================
