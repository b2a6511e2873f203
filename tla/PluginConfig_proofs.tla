------------------------- MODULE PluginConfig_proofs -------------------------
(***************************************************************************)
(* For any number of processes, any files and any number of saves: edits   *)
(* keep the user's settings, the backup comes first, an Uninstall leaves   *)
(* the id untrusted, and a retired plugin's files go last.                 *)
(***************************************************************************)
EXTENDS PluginConfig, TLAPS

USE FilesAssumption, EditsAssumption

\* What the rewritings of a configuration do.
LEMMA Rewritings ==
    ASSUME NEW c \in Configs
    PROVE  /\ Merged(c) \in Configs /\ Merged(c).kind = "object" /\ Trusted(Merged(c))
           /\ Merged(c).user = c.user
           /\ Remarshalled(Unlisted(c)).user = c.user /\ Unlisted(c).user = c.user
           /\ ~Listed(Unlisted(c)) /\ ~Listed(Remarshalled(Unlisted(c)))
           /\ c.kind # "missing" => /\ Unlisted(c) \in Configs
                                    /\ Remarshalled(Unlisted(c)) \in Configs
  <1>1. CASE c = Missing
    BY <1>1 DEF Missing, Configs, Merged, Remarshalled, Unlisted, Listed, Trusted
  <1>2. CASE c # Missing
    <2>1. c \in [kind : {"object", "malformed"}, allow : BOOLEAN, entry : {"none", "off", "on"},
                 user : SUBSET Settings, number : {"none", "exact", "rounded"}]
      BY <1>2 DEF Configs
    <2>2. /\ Remarshalled(c).user = c.user /\ Unlisted(c).user = c.user
          /\ Remarshalled(c) \in Configs \ {Missing} /\ Unlisted(c) \in Configs \ {Missing}
      BY <2>1 DEF Configs, Remarshalled, Unlisted, Missing
    <2>3. Merged(c) \in Configs /\ Merged(c).kind = "object" /\ Trusted(Merged(c))
      BY <2>2 DEF Configs, Merged, Trusted
    <2>4. Merged(c).user = c.user
      BY <2>1, <2>2 DEF Merged, Configs
    <2>5. ~Listed(Unlisted(c))
      BY <2>1 DEF Unlisted, Listed
    <2> DEFINE u == Unlisted(c)
    <2>6. u \in [kind : {"object", "malformed"}, allow : BOOLEAN, entry : {"none", "off", "on"},
                 user : SUBSET Settings, number : {"none", "exact", "rounded"}]
      BY <2>1 DEF Unlisted
    <2>7. /\ Remarshalled(u) \in Configs /\ Remarshalled(u).user = u.user
          /\ Remarshalled(u).allow = u.allow /\ Remarshalled(u).entry = u.entry
      BY <2>6 DEF Remarshalled, Configs
    <2> QED BY <2>2, <2>3, <2>4, <2>5, <2>7 DEF Listed
  <1> QED BY <1>1, <1>2

LEMMA MissingIs == Missing \in Configs /\ Missing.kind = "missing" /\ ~Missing.allow
                   /\ Missing.entry = "none" /\ ~Listed(Missing)
  BY DEF Missing, Configs, Listed

LEMMA MissingIsBare == \A c \in Configs : c.kind = "missing" => c = Missing
  BY DEF Configs, Missing

LEMMA IdleIs == Idle \in Ops /\ Idle.pc = "idle"
  BY MissingIs DEF Idle, Ops

LEMMA InitIInv == Init => IInv
  BY MissingIs, IdleIs DEF Init, IInv, TypeOK, SeenCurrent, SeenSound, Saved, Idle
-----------------------------------------------------------------------------
\* The invariant for one process with record o, staleness s, in the state of
\* the two files c and b.
Current(o, s, c) == ~s =>
    /\ o.pc \in {"backup", "swap", "choose", "inverse", "rewrite"} => o.seen = c
    /\ o.pc = "verify" => c = Merged(o.seen)
    /\ o.pc # "rollback"
    /\ o.pc = "forget" => ~c.allow /\ c.entry # "on"
    /\ o.pc = "delete" => ~Listed(c)
Sound(o) ==
    /\ o.pc \in {"backup", "swap", "verify", "rollback", "inverse", "restore", "rewrite"}
          => o.seen.kind # "malformed"
    /\ o.pc = "restore" => ~o.seen.allow /\ o.seen.entry # "on"
    /\ o.pc \in {"inverse", "rewrite"} => Listed(o.seen)
SavedBy(o, s, c, b) == o.pc = "swap" /\ ~s /\ c.kind # "missing" => b = c \/ c = Merged(c)
Holds(o, s, c, b) == Current(o, s, c) /\ Sound(o) /\ SavedBy(o, s, c, b)

LEMMA IInvIs == IInv <=> TypeOK /\ \A p \in Procs : Holds(op[p], stale[p], cfg, bak)
  BY DEF IInv, SeenCurrent, SeenSound, Saved, Holds, Current, Sound, SavedBy

LEMMA IInvIsNext == IInv' <=> TypeOK' /\ \A p \in Procs : Holds(op[p], stale[p], cfg, bak)'
  BY DEF IInv, SeenCurrent, SeenSound, Saved, Holds, Current, Sound, SavedBy

\* Somebody else's step: p's record stays, and if a file changed p is stale.
LEMMA OthersHold ==
    ASSUME NEW o, NEW s, NEW c, NEW b, NEW t, NEW d, NEW e, Holds(o, s, c, b),
           o.pc = "idle" \/ t \/ (t = s /\ d = c /\ e = b)
    PROVE  Holds(o, t, d, e)
  BY DEF Holds, Current, Sound, SavedBy

\* A step of p that writes neither file.
LEMMA LookOn ==
    ASSUME IInv, NEW p \in Procs, NEW o \in Ops, op' = [op EXCEPT ![p] = o],
           NEW s \in BOOLEAN, stale' = [stale EXCEPT ![p] = s],
           UNCHANGED <<cfg, bak, edits>>, files' \in {"absent", "live", "stub"},
           Holds(o, s, cfg, bak)
    PROVE  IInv'
  <1>1. TypeOK'
    BY DEF IInv, TypeOK
  <1>2. ASSUME NEW q \in Procs PROVE Holds(op[q], stale[q], cfg, bak)'
    BY IInvIs, OthersHold DEF IInv, TypeOK
  <1> QED BY <1>1, <1>2, IInvIsNext

\* A step of p that writes one of them.
LEMMA WriteOn ==
    ASSUME IInv, NEW p \in Procs, NEW o \in Ops, op' = [op EXCEPT ![p] = o], Wrote(p),
           cfg' \in Configs, bak' \in Configs, UNCHANGED <<files, edits>>,
           Holds(o, stale[p], cfg', bak')
    PROVE  IInv'
  <1>1. stale' \in [Procs -> BOOLEAN] /\ stale'[p] = stale[p]
        /\ \A q \in Procs \ {p} : stale'[q] \/ op[q].pc = "idle"
    BY DEF Wrote, IInv, TypeOK, At
  <1>2. TypeOK'
    BY <1>1 DEF IInv, TypeOK
  <1>3. ASSUME NEW q \in Procs PROVE Holds(op[q], stale[q], cfg, bak)'
    <2>1. CASE q = p
      BY <1>1, <2>1 DEF IInv, TypeOK
    <2>2. CASE q # p
      BY <1>1, <2>2, IInvIs, OthersHold DEF IInv, TypeOK
    <2> QED BY <2>1, <2>2
  <1> QED BY <1>2, <1>3, IInvIsNext
-----------------------------------------------------------------------------
LEMMA Typed ==
    ASSUME IInv, NEW p \in Procs
    PROVE  /\ cfg \in Configs /\ bak \in Configs /\ files \in {"absent", "live", "stub"}
           /\ op[p] \in Ops /\ op[p].seen \in Configs /\ stale[p] \in BOOLEAN
           /\ op \in [Procs -> Ops] /\ stale \in [Procs -> BOOLEAN]
           /\ Holds(op[p], stale[p], cfg, bak)
  BY IInvIs DEF IInv, TypeOK, Ops

\* An operation ends.
LEMMA EndHolds ==
    ASSUME NEW s, NEW c, NEW b
    PROVE  Holds(Idle, s, c, b)
  BY IdleIs DEF Holds, Current, Sound, SavedBy

LEMMA StepEnd ==
    ASSUME IInv, NEW p \in Procs,
           GiveUp(p) \/ (Classify(p) /\ End(p)) \/ Neutralize(p) \/ DeleteFiles(p)
           \/ (MergeRead(p) /\ End(p)) \/ (Verify(p) /\ End(p)) \/ (Choose(p) /\ End(p))
           \/ (DropRead(p) /\ End(p))
    PROVE  IInv'
  <1>1. PICK s \in BOOLEAN : stale' = [stale EXCEPT ![p] = s]
    <2>1. stale = [stale EXCEPT ![p] = stale[p]] /\ stale[p] \in BOOLEAN
      BY Typed
    <2> QED BY <2>1 DEF GiveUp, Classify, Neutralize, DeleteFiles, MergeRead, Verify, Choose,
                        DropRead, Reads
  <1>2. /\ op' = [op EXCEPT ![p] = Idle] /\ UNCHANGED <<cfg, bak, edits>>
        /\ files' \in {"absent", "live", "stub"}
    BY Typed DEF GiveUp, Classify, Neutralize, DeleteFiles, MergeRead, Verify, Choose,
                 DropRead, End
  <1> QED BY <1>1, <1>2, LookOn, EndHolds, IdleIs

LEMMA StepBegin ==
    ASSUME IInv, NEW p \in Procs, NEW pc \in {"fetch", "remove", "look"}, Begin(p, pc)
    PROVE  IInv'
  <1> DEFINE o == [op[p] EXCEPT !.pc = pc]
  <1>1. o \in Ops /\ o.pc = pc /\ op' = [op EXCEPT ![p] = o]
    BY Typed DEF Begin, Goto, Ops
  <1>2. Holds(o, stale[p], cfg, bak)
    BY <1>1 DEF Holds, Current, Sound, SavedBy
  <1>3. stale' = [stale EXCEPT ![p] = stale[p]] /\ files' = files /\ UNCHANGED <<cfg, bak, edits>>
    BY Typed DEF Begin
  <1> QED BY <1>1, <1>2, <1>3, Typed, LookOn

\* The steps that read, or change the plugin's files, and go on.
LEMMA StepLook ==
    ASSUME IInv, NEW p \in Procs,
           InstallFiles(p) \/ Classify(p) \/ MergeRead(p) \/ Verify(p) \/ RemoveFiles(p)
           \/ UnlistRead(p) \/ Choose(p) \/ Look(p) \/ DropRead(p)
    PROVE  IInv'
  <1>0. Holds(op[p], stale[p], cfg, bak) /\ op[p] \in Ops /\ cfg \in Configs
    BY Typed
  <1>1. CASE InstallFiles(p) \/ RemoveFiles(p) \/ (Classify(p) /\ ~End(p))
    <2>1. PICK pc \in {"classify", "unlist", "read"} : Goto(p, pc)
      BY <1>1 DEF InstallFiles, RemoveFiles, Classify
    <2> DEFINE o == [op[p] EXCEPT !.pc = pc]
    <2>2. o \in Ops /\ o.pc = pc /\ op' = [op EXCEPT ![p] = o]
      BY <2>1, Typed DEF Goto, Ops
    <2>3. Holds(o, stale[p], cfg, bak)
      BY <2>2 DEF Holds, Current, Sound, SavedBy
    <2>4. /\ stale' = [stale EXCEPT ![p] = stale[p]] /\ UNCHANGED <<cfg, bak, edits>>
          /\ files' \in {"absent", "live", "stub"}
      BY <1>1, Typed DEF InstallFiles, RemoveFiles, Classify
    <2> QED BY <2>2, <2>3, <2>4, Typed, LookOn
  <1>2. CASE MergeRead(p) /\ ~End(p)
    <2>1. PICK pc \in {"backup", "swap"} :
             /\ pc = "swap" => cfg = Merged(cfg) \/ cfg.kind = "missing"
             /\ op' = [op EXCEPT ![p].pc = pc, ![p].seen = cfg]
             /\ cfg.kind # "malformed"
      BY <1>2 DEF MergeRead
    <2> DEFINE o == [op[p] EXCEPT !.pc = pc, !.seen = cfg]
    <2>2. o \in Ops /\ o.pc = pc /\ o.seen = cfg /\ op' = [op EXCEPT ![p] = o]
      BY <2>1, Typed DEF Ops
    <2>3. Holds(o, FALSE, cfg, bak)
      BY <2>1, <2>2 DEF Holds, Current, Sound, SavedBy
    <2>4. stale' = [stale EXCEPT ![p] = FALSE] /\ UNCHANGED <<cfg, bak, files, edits>>
      BY <1>2 DEF MergeRead, Reads
    <2> QED BY <2>2, <2>3, <2>4, Typed, LookOn
  <1>3. CASE Verify(p) /\ ~End(p)
    <2>1. At(p, "verify") /\ ~Verified(p) /\ Goto(p, "rollback")
          /\ UNCHANGED <<cfg, bak, files, stale, edits>>
      BY <1>3 DEF Verify
    <2> DEFINE o == [op[p] EXCEPT !.pc = "rollback"]
    <2>2. o \in Ops /\ o.pc = "rollback" /\ o.seen = op[p].seen /\ op' = [op EXCEPT ![p] = o]
      BY <2>1, Typed DEF Goto, Ops
    <2>3. stale[p]
      BY <1>0, <2>1, Typed, Rewritings DEF Holds, Current, At, Verified
    <2>4. Holds(o, stale[p], cfg, bak)
      BY <1>0, <2>1, <2>2, <2>3 DEF Holds, Current, Sound, SavedBy, At
    <2>5. /\ stale' = [stale EXCEPT ![p] = stale[p]] /\ UNCHANGED <<cfg, bak, edits>>
          /\ files' \in {"absent", "live", "stub"} /\ stale[p] \in BOOLEAN
      BY <2>1, Typed
    <2> QED BY <2>2, <2>4, <2>5, LookOn
  <1>4. CASE UnlistRead(p)
    <2> DEFINE pc == IF cfg.kind = "missing" THEN "forget" ELSE "choose"
               o == [op[p] EXCEPT !.pc = pc, !.seen = cfg]
    <2>1. o \in Ops /\ o.pc = pc /\ o.seen = cfg /\ op' = [op EXCEPT ![p] = o]
      BY <1>4, Typed DEF UnlistRead, Ops
    <2>2. Holds(o, FALSE, cfg, bak)
      BY <1>0, <2>1, MissingIs, MissingIsBare DEF Holds, Current, Sound, SavedBy
    <2>3. stale' = [stale EXCEPT ![p] = FALSE] /\ UNCHANGED <<cfg, bak, files, edits>>
      BY <1>4 DEF UnlistRead, Reads
    <2> QED BY <2>1, <2>2, <2>3, Typed, LookOn
  <1>5. CASE Choose(p) /\ ~End(p)
    <2>0. At(p, "choose") /\ UNCHANGED <<cfg, bak, files, edits>>
          /\ stale' = [stale EXCEPT ![p] = stale[p]]
      BY <1>5, Typed DEF Choose
    <2>1. CASE bak.kind = "object" /\ ~bak.allow /\ bak.entry # "on"
      <3> DEFINE o == [op[p] EXCEPT !.pc = "restore", !.seen = bak]
      <3>1. o \in Ops /\ o.pc = "restore" /\ o.seen = bak /\ op' = [op EXCEPT ![p] = o]
        BY <1>5, <2>1, Typed DEF Choose, Ops
      <3>2. Holds(o, stale[p], cfg, bak)
        BY <2>1, <3>1 DEF Holds, Current, Sound, SavedBy
      <3> QED BY <2>0, <3>1, <3>2, Typed, LookOn
    <2>2. CASE ~(bak.kind = "object" /\ ~bak.allow /\ bak.entry # "on")
      <3> DEFINE pc == IF Listed(op[p].seen) THEN "inverse" ELSE "forget"
                 o == [op[p] EXCEPT !.pc = pc]
      <3>1. op[p].seen.kind # "malformed" /\ Goto(p, pc)
        BY <1>5, <2>2 DEF Choose
      <3>2. o \in Ops /\ o.pc = pc /\ o.seen = op[p].seen /\ op' = [op EXCEPT ![p] = o]
        BY <3>1, Typed DEF Goto, Ops
      <3>3. Holds(o, stale[p], cfg, bak)
        BY <1>0, <2>0, <3>1, <3>2 DEF Holds, Current, Sound, SavedBy, At, Listed
      <3> QED BY <2>0, <3>2, <3>3, Typed, LookOn
    <2> QED BY <2>1, <2>2
  <1>6. CASE Look(p)
    <2> DEFINE pc == IF cfg.kind = "malformed" THEN "neutralize"
                     ELSE IF Listed(cfg) THEN "drop" ELSE "delete"
               o == [op[p] EXCEPT !.had = (files # "absent"), !.pc = pc]
    <2>1. o \in Ops /\ o.pc = pc /\ op' = [op EXCEPT ![p] = o]
      BY <1>6, Typed DEF Look, Ops
    <2>2. Holds(o, FALSE, cfg, bak)
      BY <2>1 DEF Holds, Current, Sound, SavedBy
    <2>3. stale' = [stale EXCEPT ![p] = FALSE] /\ UNCHANGED <<cfg, bak, files, edits>>
      BY <1>6 DEF Look, Reads
    <2> QED BY <2>1, <2>2, <2>3, Typed, LookOn
  <1>7. CASE DropRead(p) /\ ~End(p)
    <2> DEFINE pc == IF Listed(cfg) THEN "rewrite" ELSE "delete"
               o == [op[p] EXCEPT !.pc = pc, !.seen = cfg]
    <2>1. cfg.kind # "malformed" /\ o \in Ops /\ o.pc = pc /\ o.seen = cfg
          /\ op' = [op EXCEPT ![p] = o]
      BY <1>7, Typed DEF DropRead, Ops
    <2>2. Holds(o, FALSE, cfg, bak)
      BY <2>1 DEF Holds, Current, Sound, SavedBy
    <2>3. stale' = [stale EXCEPT ![p] = FALSE] /\ UNCHANGED <<cfg, bak, files, edits>>
      BY <1>7 DEF DropRead, Reads
    <2> QED BY <2>1, <2>2, <2>3, Typed, LookOn
  <1>8. CASE End(p) /\ ~(InstallFiles(p) \/ RemoveFiles(p) \/ UnlistRead(p) \/ Look(p))
    BY <1>8, StepEnd
  <1> QED BY <1>1, <1>2, <1>3, <1>4, <1>5, <1>6, <1>7, <1>8

\* The steps that write one of the files.
LEMMA StepWrite ==
    ASSUME IInv, NEW p \in Procs,
           Backup(p) \/ Swap(p) \/ RollBack(p) \/ Restore(p) \/ InverseMerge(p)
           \/ ForgetBackup(p) \/ Rewrite(p)
    PROVE  IInv'
  <1>0. Holds(op[p], stale[p], cfg, bak) /\ op[p].seen \in Configs
    BY Typed
  <1> DEFINE Going(pc) == [op[p] EXCEPT !.pc = pc]
  <1>a. \A pc \in {"swap", "verify", "forget", "delete"} :
           /\ Going(pc) \in Ops /\ Going(pc).pc = pc /\ Going(pc).seen = op[p].seen
           /\ Goto(p, pc) => op' = [op EXCEPT ![p] = Going(pc)]
    BY Typed DEF Goto, Ops
  <1>1. CASE Backup(p)
    <2>1. Holds(Going("swap"), stale[p], cfg', bak')
      BY <1>0, <1>1, <1>a DEF Backup, At, Holds, Current, Sound, SavedBy
    <2> QED BY <1>1, <1>a, <2>1, Typed, WriteOn DEF Backup
  <1>2. CASE Swap(p)
    <2>1. Holds(Going("verify"), stale[p], cfg', bak')
      BY <1>0, <1>2, <1>a DEF Swap, At, Holds, Current, Sound, SavedBy
    <2>2. cfg' \in Configs
      BY <1>0, <1>2, Rewritings DEF Swap
    <2> QED BY <1>2, <1>a, <2>1, <2>2, Typed, WriteOn DEF Swap
  <1>3. CASE RollBack(p)
    BY <1>0, <1>3, Typed, WriteOn, EndHolds, IdleIs DEF RollBack, End
  <1>4. CASE Restore(p)
    <2>1. Holds(Going("forget"), stale[p], cfg', bak')
      BY <1>0, <1>4, <1>a DEF Restore, At, Holds, Current, Sound, SavedBy
    <2> QED BY <1>0, <1>4, <1>a, <2>1, Typed, WriteOn DEF Restore
  <1>5. CASE InverseMerge(p) \/ Rewrite(p)
    <2>1. op[p].pc \in {"inverse", "rewrite"} /\ op[p].seen.kind # "malformed"
      BY <1>0, <1>5 DEF InverseMerge, Rewrite, At, Holds, Sound
    <2>2. PICK pc \in {"forget", "delete"} : Goto(p, pc) /\ Wrote(p) /\ UNCHANGED <<bak, files, edits>>
      BY <1>5 DEF InverseMerge, Rewrite
    <2>3. ~Listed(cfg')
      BY <1>0, <1>5, Rewritings DEF InverseMerge, Rewrite
    <2>4. cfg' \in Configs
      <3>1. op[p].seen.kind # "missing"
        BY <1>0, <2>1, MissingIs, MissingIsBare DEF Holds, Sound
      <3> QED BY <1>0, <1>5, <3>1, Rewritings DEF InverseMerge, Rewrite
    <2>5. Holds(Going(pc), stale[p], cfg', bak')
      BY <1>a, <2>2, <2>3 DEF Holds, Current, Sound, SavedBy, Listed
    <2> QED BY <1>a, <2>2, <2>4, <2>5, Typed, WriteOn
  <1>6. CASE ForgetBackup(p)
    BY <1>6, Typed, WriteOn, EndHolds, IdleIs, MissingIs DEF ForgetBackup, End
  <1> QED BY <1>1, <1>2, <1>3, <1>4, <1>5, <1>6

LEMMA StepUser ==
    ASSUME IInv, NEW c \in UserFiles, UserSaves(c)
    PROVE  IInv'
  <1>1. TypeOK'
    BY DEF UserSaves, IInv, TypeOK, At
  <1>2. ASSUME NEW p \in Procs PROVE Holds(op[p], stale[p], cfg, bak)'
    BY IInvIs, OthersHold DEF UserSaves, At
  <1> QED BY <1>1, <1>2, IInvIsNext

LEMMA StepIInv == IInv /\ [Next]_vars => IInv'
  <1> SUFFICES ASSUME IInv, [Next]_vars PROVE IInv'
    OBVIOUS
  <1>1. CASE UNCHANGED vars
    BY <1>1 DEF vars, IInv, TypeOK, SeenCurrent, SeenSound, Saved
  <1>2. ASSUME NEW p \in Procs,
               \/ InstallFiles(p) \/ Classify(p) \/ MergeRead(p) \/ Backup(p)
               \/ Swap(p) \/ Verify(p) \/ RollBack(p)
               \/ RemoveFiles(p) \/ UnlistRead(p) \/ Choose(p)
               \/ Restore(p) \/ InverseMerge(p) \/ ForgetBackup(p)
               \/ Look(p) \/ Neutralize(p) \/ DropRead(p) \/ Rewrite(p) \/ DeleteFiles(p)
               \/ GiveUp(p)
        PROVE  IInv'
    BY <1>2, StepLook, StepWrite, StepEnd
  <1> QED BY <1>1, <1>2, StepBegin, StepUser DEF Next
-----------------------------------------------------------------------------
\* Every variable keeps its type: no operation leaves a file of no known kind.
THEOREM TypeCorrect == Spec => []TypeOK
  <1>1. IInv => TypeOK
    BY DEF IInv
  <1> QED BY <1>1, InitIInv, StepIInv, PTL DEF Spec

\* An edit of the configuration keeps what the user set and leaves a file
\* alone that does not parse (mergePluginAllowList, removePluginAllowListEntry,
\* dropPluginFromConfig), as long as nobody saved it meanwhile.
THEOREM SettingsKept == Spec => KeepsSettings
  <1>1. ASSUME IInv, NEW p \in Procs, Swap(p) \/ RollBack(p) \/ InverseMerge(p) \/ Rewrite(p),
               ~stale[p]
        PROVE  cfg.kind # "malformed" /\ cfg'.user = cfg.user
    BY <1>1, Typed, Rewritings
       DEF Holds, Current, Sound, At, Swap, RollBack, InverseMerge, Rewrite
  <1>2. IInv /\ [Next]_vars
        => [\A p \in Procs : (Swap(p) \/ RollBack(p) \/ InverseMerge(p) \/ Rewrite(p)) /\ ~stale[p]
               => cfg.kind # "malformed" /\ cfg'.user = cfg.user]_vars
    BY <1>1
  <1> QED BY <1>2, InitIInv, StepIInv, PTL DEF Spec, KeepsSettings

\* mergePluginAllowList replaces nothing that is not in the backup.
THEOREM BackupComesFirst == Spec => BackupFirst
  <1>1. ASSUME IInv, NEW p \in Procs, Swap(p), ~stale[p], cfg.kind # "missing"
        PROVE  bak = cfg \/ cfg' = cfg
    BY <1>1, Typed DEF Holds, Current, SavedBy, At, Swap
  <1>2. IInv /\ [Next]_vars
        => [\A p \in Procs : Swap(p) /\ ~stale[p] /\ cfg.kind # "missing"
               => bak = cfg \/ cfg' = cfg]_vars
    BY <1>1
  <1> QED BY <1>2, InitIInv, StepIInv, PTL DEF Spec, BackupFirst

\* removePluginAllowListEntry leaves the id untrusted, by restoring or by
\* editing.
THEOREM Untrusted == Spec => UninstallUntrusts
  <1>1. ASSUME IInv, NEW p \in Procs, ForgetBackup(p), ~stale[p]
        PROVE  ~cfg.allow /\ cfg.entry # "on"
    BY <1>1, Typed DEF Holds, Current, At, ForgetBackup
  <1>2. IInv /\ [Next]_vars
        => [\A p \in Procs : ForgetBackup(p) /\ ~stale[p] => ~cfg.allow /\ cfg.entry # "on"]_vars
    BY <1>1
  <1> QED BY <1>2, InitIInv, StepIInv, PTL DEF Spec, UninstallUntrusts

\* applyRetiredPlugin deletes files only when the id is out of the config.
THEOREM FilesLast == Spec => RetiredFilesLast
  <1>1. ASSUME IInv, NEW p \in Procs, DeleteFiles(p), ~stale[p]
        PROVE  ~Listed(cfg)
    BY <1>1, Typed DEF Holds, Current, At, DeleteFiles
  <1>2. IInv /\ [Next]_vars
        => [\A p \in Procs : DeleteFiles(p) /\ files' # files /\ ~stale[p] => ~Listed(cfg)]_vars
    BY <1>1
  <1> QED BY <1>2, InitIInv, StepIInv, PTL DEF Spec, RetiredFilesLast
=============================================================================
