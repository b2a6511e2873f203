---------------------------- MODULE PluginConfig ----------------------------
(***************************************************************************)
(* openclaw.json, which the user and the tool own, with the one plugin id  *)
(* we list in it, the .pilot-bak beside it, and the plugin's files.  Three *)
(* operations edit them, one step per read or write:                       *)
(*                                                                         *)
(*   install    reconcilePluginFiles, mergePluginAllowList                 *)
(*   uninstall  the files, then removePluginAllowListEntry                 *)
(*   retire     applyRetiredPlugin                                         *)
(*                                                                         *)
(* Processes run them at once, the user saves the file in between, a step  *)
(* fails or the process dies.  A single write is AtomicFile's.             *)
(***************************************************************************)
EXTENDS Naturals

CONSTANTS Procs,       \* processes that run one operation at a time
          Settings,    \* what the user may have set
          FirstFiles,  \* the configuration at first
          UserFiles,   \* what the user, or the tool, may save
          MaxEdits     \* bound on their saves

\* allow, entry: what the allow-list and the entries say of our id.  number:
\* is there one that a float64 cannot hold, and has it gone through one?  A
\* malformed file, JSON5 say, can list us all the same.
Missing == [kind |-> "missing", allow |-> FALSE, entry |-> "none", user |-> {}, number |-> "none"]
Configs == {Missing} \cup
           [kind : {"object", "malformed"}, allow : BOOLEAN, entry : {"none", "off", "on"},
            user : SUBSET Settings, number : {"none", "exact", "rounded"}]

ASSUME FilesAssumption == FirstFiles \subseteq Configs /\ UserFiles \subseteq Configs
ASSUME EditsAssumption == MaxEdits \in Nat

Listed(c) == c.allow \/ c.entry # "none"
Trusted(c) == c.allow /\ c.entry = "on"

\* json.Unmarshal makes every number a float64; decodeConfig keeps it.
Remarshalled(c) == [c EXCEPT !.number = IF @ = "none" THEN @ ELSE "rounded"]
Unlisted(c) == [c EXCEPT !.allow = FALSE, !.entry = "none"]

\* Mutant: the merge of a file that is not there makes none.
MergedBare(c) == [Remarshalled(c) EXCEPT !.allow = TRUE, !.entry = "on"]

Merged(c) == [Remarshalled(c) EXCEPT !.kind = "object", !.allow = TRUE, !.entry = "on"]
-----------------------------------------------------------------------------
VARIABLES cfg,    \* openclaw.json
          bak,    \* openclaw.json.pilot-bak
          files,  \* the plugin's files
          op,     \* process -> where it is, what it read, what it found
          stale,  \* process -> did anybody else write cfg or bak since? (history)
          edits

vars == <<cfg, bak, files, op, stale, edits>>

Idle == [pc |-> "idle", seen |-> Missing, had |-> FALSE]
Ops == [pc : {"idle", "fetch", "classify", "read", "backup", "swap", "verify", "rollback",
              "remove", "unlist", "choose", "restore", "inverse", "forget",
              "look", "neutralize", "drop", "rewrite", "delete"},
        seen : Configs, had : BOOLEAN]

TypeOK == /\ cfg \in Configs /\ bak \in Configs
          /\ files \in {"absent", "live", "stub"}
          /\ op \in [Procs -> Ops]
          /\ stale \in [Procs -> BOOLEAN]
          /\ edits \in 0..MaxEdits

Init == /\ cfg \in FirstFiles /\ bak = Missing
        /\ files = "absent"
        /\ op = [p \in Procs |-> Idle]
        /\ stale = [p \in Procs |-> FALSE]
        /\ edits = 0
-----------------------------------------------------------------------------
At(p, pc) == op[p].pc = pc
Goto(p, pc) == op' = [op EXCEPT ![p].pc = pc]
End(p) == op' = [op EXCEPT ![p] = Idle]

\* p reads the configuration, or goes on without another look at it.
Reads(p) == stale' = [stale EXCEPT ![p] = FALSE]

\* p wrote the configuration or the backup.
Wrote(p) == stale' = [q \in Procs |-> IF q = p THEN stale[p] ELSE stale[q] \/ ~At(q, "idle")]

Begin(p, pc) == /\ At(p, "idle")
                /\ Goto(p, pc)
                /\ UNCHANGED <<cfg, bak, files, stale, edits>>

\* The process dies, or a read or write fails and the operation ends there.
GiveUp(p) == /\ ~At(p, "idle")
             /\ End(p) /\ Reads(p)
             /\ UNCHANGED <<cfg, bak, files, edits>>

UserSaves(c) == /\ edits < MaxEdits
                /\ cfg' = c
                /\ edits' = edits + 1
                /\ stale' = [p \in Procs |-> ~At(p, "idle")]
                /\ UNCHANGED <<bak, files, op>>
-----------------------------------------------------------------------------
(***************************************************************************)
(* Install.                                                                *)
(***************************************************************************)
\* The files, as far as they can be fetched and written; the rest goes on
\* without them.
InstallFiles(p) == /\ At(p, "fetch")
                   /\ files' \in {files, "live"}
                   /\ Goto(p, "classify")
                   /\ UNCHANGED <<cfg, bak, stale, edits>>

Classify(p) == /\ At(p, "classify")
               /\ IF cfg.kind = "object" /\ Trusted(cfg) THEN End(p) ELSE Goto(p, "read")
               /\ UNCHANGED <<cfg, bak, files, stale, edits>>

\* Mutants: a file that does not parse counts as empty; the backup is left
\* out when our id is there already.
MergeReadAny(p) ==
    /\ At(p, "read")
    /\ op' = [op EXCEPT ![p].pc = IF cfg.kind = "missing" THEN "swap" ELSE "backup",
                        ![p].seen = IF cfg.kind = "malformed" THEN [Missing EXCEPT !.kind = "object"] ELSE cfg]
    /\ Reads(p)
    /\ UNCHANGED <<cfg, bak, files, edits>>
MergeReadBare(p) ==
    /\ At(p, "read")
    /\ IF cfg.kind = "malformed" THEN End(p)
       ELSE op' = [op EXCEPT ![p].pc = IF Listed(cfg) \/ cfg.kind = "missing" THEN "swap" ELSE "backup",
                             ![p].seen = cfg]
    /\ Reads(p)
    /\ UNCHANGED <<cfg, bak, files, edits>>

\* The snapshot in memory.  What does not parse is not touched.  No backup
\* of a file that is not there, or that the merge does not change a byte of.
MergeRead(p) ==
    /\ At(p, "read")
    /\ IF cfg.kind = "malformed" THEN End(p)
       ELSE \E next \in {"backup", "swap"} :
              /\ next = "swap" => cfg = Merged(cfg) \/ cfg.kind = "missing"
              /\ next = "backup" => cfg.kind # "missing"
              /\ op' = [op EXCEPT ![p].pc = next, ![p].seen = cfg]
    /\ Reads(p)
    /\ UNCHANGED <<cfg, bak, files, edits>>

Backup(p) == /\ At(p, "backup")
             /\ bak' = op[p].seen
             /\ Goto(p, "swap")
             /\ Wrote(p)
             /\ UNCHANGED <<cfg, files, edits>>

Swap(p) == /\ At(p, "swap")
           /\ cfg' = Merged(op[p].seen)
           /\ Goto(p, "verify")
           /\ Wrote(p)
           /\ UNCHANGED <<bak, files, edits>>

\* The file is read back: it parses, lists us, and has the settings it had.
Verified(p) == cfg.kind = "object" /\ Trusted(cfg) /\ op[p].seen.user \subseteq cfg.user
Verify(p) == /\ At(p, "verify")
             /\ IF Verified(p) \/ op[p].seen.kind = "missing" THEN End(p) ELSE Goto(p, "rollback")
             /\ UNCHANGED <<cfg, bak, files, stale, edits>>

RollBack(p) == /\ At(p, "rollback")
               /\ cfg' = op[p].seen
               /\ End(p) /\ Wrote(p)
               /\ UNCHANGED <<bak, files, edits>>
-----------------------------------------------------------------------------
(***************************************************************************)
(* Uninstall.                                                              *)
(***************************************************************************)
RemoveFiles(p) == /\ At(p, "remove")
                  /\ files' \in {files, "absent"}
                  /\ Goto(p, "unlist")
                  /\ UNCHANGED <<cfg, bak, stale, edits>>

UnlistRead(p) == /\ At(p, "unlist")
                 /\ op' = [op EXCEPT ![p].pc = IF cfg.kind = "missing" THEN "forget" ELSE "choose",
                                     ![p].seen = cfg]
                 /\ Reads(p)
                 /\ UNCHANGED <<cfg, bak, files, edits>>

\* Mutant: any backup will do.
ChooseAny(p) ==
    /\ At(p, "choose")
    /\ IF bak.kind = "object" THEN op' = [op EXCEPT ![p].pc = "restore", ![p].seen = bak]
       ELSE IF op[p].seen.kind = "malformed" THEN End(p)
       ELSE Goto(p, IF Listed(op[p].seen) THEN "inverse" ELSE "forget")
    /\ UNCHANGED <<cfg, bak, files, stale, edits>>

\* The backup is restored, whatever the configuration looks like by now,
\* unless it has our id itself; else our id is taken out.
Choose(p) ==
    /\ At(p, "choose")
    /\ IF bak.kind = "object" /\ ~bak.allow /\ bak.entry # "on"
       THEN op' = [op EXCEPT ![p].pc = "restore", ![p].seen = bak]
       ELSE IF op[p].seen.kind = "malformed" THEN End(p)
       ELSE Goto(p, IF Listed(op[p].seen) THEN "inverse" ELSE "forget")
    /\ UNCHANGED <<cfg, bak, files, stale, edits>>

Restore(p) == /\ At(p, "restore")
              /\ cfg' = op[p].seen
              /\ Goto(p, "forget") /\ Wrote(p)
              /\ UNCHANGED <<bak, files, edits>>

InverseMerge(p) == /\ At(p, "inverse")
                   /\ cfg' = Remarshalled(Unlisted(op[p].seen))
                   /\ Goto(p, "forget") /\ Wrote(p)
                   /\ UNCHANGED <<bak, files, edits>>

ForgetBackup(p) == /\ At(p, "forget")
                   /\ bak' = Missing
                   /\ End(p) /\ Wrote(p)
                   /\ UNCHANGED <<cfg, files, edits>>
-----------------------------------------------------------------------------
(***************************************************************************)
(* Retire.                                                                 *)
(***************************************************************************)
\* Mutant: a file that does not parse does not list us.
LookUnlisted(p) ==
    /\ At(p, "look")
    /\ op' = [op EXCEPT ![p].had = (files # "absent"),
                        ![p].pc = IF cfg.kind = "object" /\ Listed(cfg) THEN "drop" ELSE "delete"]
    /\ Reads(p)
    /\ UNCHANGED <<cfg, bak, files, edits>>

\* Which files are there, and pluginInConfig.
Look(p) ==
    /\ At(p, "look")
    /\ op' = [op EXCEPT ![p].had = (files # "absent"),
                        ![p].pc = IF cfg.kind = "malformed" THEN "neutralize"
                                  ELSE IF Listed(cfg) THEN "drop" ELSE "delete"]
    /\ Reads(p)
    /\ UNCHANGED <<cfg, bak, files, edits>>

\* The id cannot be taken out, so the files become stubs if they have one.
Neutralize(p) == /\ At(p, "neutralize")
                 /\ files' \in {files} \cup IF op[p].had THEN {"stub"} ELSE {}
                 /\ End(p)
                 /\ UNCHANGED <<cfg, bak, stale, edits>>

\* dropPluginFromConfig reads the file again.
DropRead(p) == /\ At(p, "drop")
               /\ IF cfg.kind = "malformed" THEN End(p)
                  ELSE op' = [op EXCEPT ![p].pc = IF Listed(cfg) THEN "rewrite" ELSE "delete",
                                        ![p].seen = cfg]
               /\ Reads(p)
               /\ UNCHANGED <<cfg, bak, files, edits>>

Rewrite(p) == /\ At(p, "rewrite")
              /\ cfg' = Unlisted(op[p].seen)
              /\ Goto(p, "delete") /\ Wrote(p)
              /\ UNCHANGED <<bak, files, edits>>

DeleteFiles(p) == /\ At(p, "delete")
                  /\ files' \in {files} \cup IF op[p].had THEN {"absent"} ELSE {}
                  /\ End(p)
                  /\ UNCHANGED <<cfg, bak, stale, edits>>

Next == \/ \E c \in UserFiles : UserSaves(c)
        \/ \E p \in Procs :
             \/ \E pc \in {"fetch", "remove", "look"} : Begin(p, pc)
             \/ GiveUp(p)
             \/ InstallFiles(p) \/ Classify(p) \/ MergeRead(p) \/ Backup(p)
             \/ Swap(p) \/ Verify(p) \/ RollBack(p)
             \/ RemoveFiles(p) \/ UnlistRead(p) \/ Choose(p)
             \/ Restore(p) \/ InverseMerge(p) \/ ForgetBackup(p)
             \/ Look(p) \/ Neutralize(p) \/ DropRead(p) \/ Rewrite(p) \/ DeleteFiles(p)

Spec == Init /\ [][Next]_vars
-----------------------------------------------------------------------------
\* plugin_allowlist.go:81-83, uninstall.go:279-280, retired.go:490-497: an
\* edit keeps everything the user set, and leaves a file alone that does not
\* parse, unless somebody saved it while the operation was at work; restoring
\* the backup is no edit.
KeepsSettings ==
    [][\A p \in Procs : (Swap(p) \/ RollBack(p) \/ InverseMerge(p) \/ Rewrite(p)) /\ ~stale[p]
          => cfg.kind # "malformed" /\ cfg'.user = cfg.user]_vars

\* plugin_allowlist.go:88-91: what a merge replaces is in the backup, byte
\* for byte, before it is replaced.
BackupFirst ==
    [][\A p \in Procs : Swap(p) /\ ~stale[p] /\ cfg.kind # "missing"
          => bak = cfg \/ cfg' = cfg]_vars

\* An Uninstall that got to its end leaves the id untrusted, whichever way it
\* took: the backup it restores is from before the install.
UninstallUntrusts ==
    [][\A p \in Procs : ForgetBackup(p) /\ ~stale[p] => ~cfg.allow /\ cfg.entry # "on"]_vars

\* retired.go:345-347: a retired plugin's files go only once its id is out
\* of the configuration, also when that cannot be parsed.
RetiredFilesLast ==
    [][\A p \in Procs : DeleteFiles(p) /\ files' # files /\ ~stale[p] => ~Listed(cfg)]_vars

\* uninstall.go:283-285: "If the user has 5 plugins of their own and we added
\* pilot, after disable the file still contains those 5 plugins."
RestoreKeepsSettings ==
    [][\A p \in Procs : Restore(p) /\ ~stale[p] => cfg.user \subseteq cfg'.user]_vars

\* plugin_allowlist.go:85-87: a merge that "scrambled a value" is refused.
MergeKeepsNumbers ==
    [][\A p \in Procs : Swap(p) /\ ~stale[p] => cfg'.number = cfg.number]_vars
-----------------------------------------------------------------------------
\* What a process goes by is what the file holds, unless it is stale.
SeenCurrent == \A p \in Procs : ~stale[p] =>
    /\ op[p].pc \in {"backup", "swap", "choose", "inverse", "rewrite"} => op[p].seen = cfg
    /\ op[p].pc = "verify" => cfg = Merged(op[p].seen)
    /\ op[p].pc # "rollback"
    /\ op[p].pc = "forget" => ~cfg.allow /\ cfg.entry # "on"
    /\ op[p].pc = "delete" => ~Listed(cfg)

\* What it would write parses, a snapshot about to be restored is free of our
\* id, and one the id is about to be taken out of has it.
SeenSound == \A p \in Procs :
    /\ op[p].pc \in {"backup", "swap", "verify", "rollback", "inverse", "restore", "rewrite"}
          => op[p].seen.kind # "malformed"
    /\ op[p].pc = "restore" => ~op[p].seen.allow /\ op[p].seen.entry # "on"
    /\ op[p].pc \in {"inverse", "rewrite"} => Listed(op[p].seen)

\* A process past its snapshot saved what it is about to replace.
Saved == \A p \in Procs : op[p].pc = "swap" /\ ~stale[p] /\ cfg.kind # "missing"
                          => bak = cfg \/ cfg = Merged(cfg)

IInv == TypeOK /\ SeenCurrent /\ SeenSound /\ Saved
=============================================================================
