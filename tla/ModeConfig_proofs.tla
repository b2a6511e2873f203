-------------------------- MODULE ModeConfig_proofs --------------------------
(***************************************************************************)
(* For any number of callers and any files: only overlapping calls lose    *)
(* updates, and a SetMode that is over is read back as it was given.       *)
(***************************************************************************)
EXTENDS ModeConfig, TLAPS

USE FilesAssumption, KeyAssumption

LEMMA FilesHave ==
    /\ Empty \in Objects /\ None \in Views
    /\ \A f \in Files : f.kind \in Kinds /\ f.obj \in Objects
    /\ \A o \in Objects : [kind |-> "object", obj |-> o] \in Files
    /\ \A o \in Objects : \A v \in SkillValues \cup UpdateValues : \A k \in Keys :
          [o EXCEPT ![k] = v] \in Objects
  BY DEF Empty, Objects, None, Views, Files, Kinds

LEMMA InitIInv == Init => IInv
  BY FilesHave DEF Init, IInv, TypeOK, ViewsCurrent, ViewsAnswer, InCall, None

\* What a call that starts carries.
LEMMA ReadIInv ==
    ASSUME IInv, NEW c \in Callers, NEW k \in {"skill_inject", "update"}, NEW a \in Args,
           NEW v \in SkillValues \cup UpdateValues, Read(c, k, a, v),
           k = "skill_inject" => v = Normalized(a)
    PROVE  IInv'
  <1> DEFINE o == [Unmarshalled(file) EXCEPT ![k] = v]
             x == [key |-> k, obj |-> o, arg |-> a]
  <1>1. /\ file \in Files /\ file.obj \in Objects /\ Unmarshalled(file) \in Objects
        /\ view \in [Callers -> Views] /\ missed \in [Callers -> SUBSET Keys]
    BY FilesHave DEF IInv, TypeOK, Unmarshalled
  <1>2. k \in Keys /\ o \in Objects /\ o[k] = v
        /\ \A j \in Keys \ {k} : o[j] = Unmarshalled(file)[j]
    BY <1>1, FilesHave DEF Keys, Objects
  <1>3. x \in Views /\ x.key = k /\ x.obj = o /\ x.arg = a
    BY <1>2 DEF Views
  <1>4. /\ view' = [view EXCEPT ![c] = x] /\ UNCHANGED file
        /\ missed' = [missed EXCEPT ![c] = IF file.kind = "trailing" THEN Keys ELSE {}]
    BY DEF Read
  <1>5. TypeOK'
    BY <1>1, <1>3, <1>4 DEF TypeOK
  <1>6. ViewsCurrent'
    <2> SUFFICES ASSUME NEW d \in Callers, InCall(d)',
                        NEW j \in Keys, j # view'[d].key, j \notin missed'[d]
                 PROVE  view'[d].obj[j] = Decoded(file')[j]
      BY DEF ViewsCurrent
    <2>1. CASE d = c
      BY <1>1, <1>2, <1>3, <1>4, <2>1 DEF Unmarshalled, Decoded
    <2>2. CASE d # c
      BY <1>1, <1>4, <2>2 DEF IInv, ViewsCurrent, InCall
    <2> QED BY <2>1, <2>2
  <1>7. ViewsAnswer'
    BY <1>1, <1>2, <1>3, <1>4 DEF IInv, ViewsAnswer
  <1> QED BY <1>5, <1>6, <1>7 DEF IInv

LEMMA CommitIInv ==
    ASSUME IInv, NEW c \in Callers, Commit(c)
    PROVE  IInv'
  <1>1. /\ view \in [Callers -> Views] /\ missed \in [Callers -> SUBSET Keys]
        /\ view[c].key \in Keys /\ view[c].obj \in Objects /\ file \in Files
    BY DEF IInv, TypeOK, Commit, InCall, Views, None, Keys
  <1>2. /\ file' = [kind |-> "object", obj |-> view[c].obj] /\ Decoded(file') = view[c].obj
        /\ view' = [view EXCEPT ![c] = None]
    BY DEF Commit, Decoded
  <1>3. TypeOK'
    BY <1>1, <1>2, FilesHave DEF IInv, TypeOK, Commit
  <1>4. ViewsCurrent'
    <2> SUFFICES ASSUME NEW d \in Callers, InCall(d)',
                        NEW j \in Keys, j # view'[d].key, j \notin missed'[d]
                 PROVE  view'[d].obj[j] = Decoded(file')[j]
      BY DEF ViewsCurrent
    <2>1. d # c /\ view'[d] = view[d] /\ InCall(d)
      BY <1>1, <1>2 DEF InCall, None
    <2>2. j \notin missed[d] /\ j # view[c].key /\ j \notin missed[c]
      BY <2>1 DEF Commit
    <2>3. view[d].obj[j] = Decoded(file)[j] /\ view[c].obj[j] = Decoded(file)[j]
      BY <2>1, <2>2 DEF IInv, ViewsCurrent, Commit
    <2> QED BY <1>2, <2>1, <2>3
  <1>5. ViewsAnswer'
    BY <1>1, <1>2 DEF IInv, ViewsAnswer, None
  <1> QED BY <1>3, <1>4, <1>5 DEF IInv

LEMMA StepIInv == IInv /\ [Next]_vars => IInv'
  <1> SUFFICES ASSUME IInv, [Next]_vars PROVE IInv'
    OBVIOUS
  <1>1. ASSUME NEW c \in Callers, NEW m \in Modes \cup {"", "often"}, SetMode(c, m) PROVE IInv'
    <2>1. Normalized(m) \in SkillValues /\ m \in Args
      BY DEF Normalized, SkillValues, Modes, Args
    <2> QED BY <1>1, <2>1, ReadIInv DEF SetMode
  <1>2. ASSUME NEW c \in Callers, NEW u \in UpdateValues, SetUpdateConfig(c, u) PROVE IInv'
    BY <1>2, ReadIInv DEF SetUpdateConfig, Args
  <1>3. ASSUME NEW c \in Callers, GiveUp(c) PROVE IInv'
    BY <1>3, FilesHave DEF GiveUp, IInv, TypeOK, ViewsCurrent, ViewsAnswer, InCall, None
  <1>4. ASSUME NEW f \in UserFiles, UserEdits(f) PROVE IInv'
    BY <1>4 DEF UserEdits, IInv, TypeOK, ViewsCurrent, ViewsAnswer, InCall
  <1>5. CASE UNCHANGED vars
    BY <1>5 DEF vars, IInv, TypeOK, ViewsCurrent, ViewsAnswer, InCall
  <1>6. CASE Next
    <2>1. CASE \E c \in Callers, m \in Modes \cup {"", "often"} : SetMode(c, m)
      BY <1>1, <2>1
    <2>2. CASE \E c \in Callers, u \in UpdateValues : SetUpdateConfig(c, u)
      BY <1>2, <2>2
    <2>3. CASE \E c \in Callers : Commit(c) \/ GiveUp(c)
      BY <1>3, <2>3, CommitIInv
    <2>4. CASE \E f \in UserFiles : UserEdits(f)
      BY <1>4, <2>4
    <2> QED BY <1>6, <2>1, <2>2, <2>3, <2>4 DEF Next
  <1> QED BY <1>5, <1>6

\* Every variable keeps its type: whatever was in the file, it stays a
\* configuration both readers know.
THEOREM TypeCorrect == Spec => []TypeOK
  <1>1. IInv => TypeOK
    BY DEF IInv
  <1> QED BY <1>1, InitIInv, StepIInv, PTL DEF Spec

\* SetMode and SetUpdateConfig (config.go:96-125, 191-212) change no key but
\* their own, except keys someone else wrote since they read the file.
THEOREM OverlapOnly == Spec => OnlyOverlapLoses
  <1>1. ASSUME IInv, NEW c \in Callers, Commit(c),
               NEW k \in Keys \ ({view[c].key} \cup missed[c])
        PROVE  Decoded(file')[k] = Decoded(file)[k]
    BY <1>1 DEF IInv, ViewsCurrent, Commit, Decoded
  <1>2. IInv /\ [Next]_vars
        => [\A c \in Callers : Commit(c) =>
              \A k \in Keys \ ({view[c].key} \cup missed[c]) :
                 Decoded(file')[k] = Decoded(file)[k]]_vars
    BY <1>1
  <1> QED BY <1>2, InitIInv, StepIInv, PTL DEF Spec, OnlyOverlapLoses

\* GetMode (config.go:58-90) reads back what SetMode was given.
THEOREM ModeIsRead == Spec => SetModeIsRead
  <1>1. ASSUME IInv, NEW c \in Callers, Commit(c), view[c].key = "skill_inject"
        PROVE  GetMode(file') = Normalized(view[c].arg)
    <2>1. Decoded(file')["skill_inject"] = Normalized(view[c].arg)
      BY <1>1 DEF IInv, ViewsAnswer, Commit, Decoded
    <2>2. Normalized(view[c].arg) \in Modes
      BY DEF Normalized, Modes
    <2>3. \A m \in Modes : ModeOf(m) = m
      BY DEF ModeOf, Modes
    <2> QED BY <2>1, <2>2, <2>3 DEF GetMode
  <1>2. IInv /\ [Next]_vars
        => [\A c \in Callers : Commit(c) /\ view[c].key = "skill_inject"
              => GetMode(file') = Normalized(view[c].arg)]_vars
    BY <1>1
  <1> QED BY <1>2, InitIInv, StepIInv, PTL DEF Spec, SetModeIsRead
=============================================================================
