---------------------------- MODULE MCPilotFiles ----------------------------
(***************************************************************************)
(* The two kinds of files below ~/.pilot that people write by hand, each   *)
(* with the code that goes by them: config.json (ModeConfig) and a gated   *)
(* tool's marker (GatedTool).  The two share no state, so a behaviour is   *)
(* about one of them.                                                      *)
(***************************************************************************)
EXTENDS MCModeConfig, GatedHosts

VARIABLE about

PilotInit ==
    \/ /\ about = "config" /\ Init
       /\ row = Muse /\ src = Plain /\ marker = Good /\ there = TRUE /\ copy = Absent
       /\ turn = [p \in Procs |-> Idle] /\ quiet = "no" /\ edits = 0
    \/ /\ about = "marker" /\ GatedInit
       /\ file = File("missing", Empty) /\ view = [c \in Callers |-> None] /\ missed = [c \in Callers |-> {}]

PilotNext == \/ about = "config" /\ Next /\ UNCHANGED <<about, gatedVars>>
             \/ about = "marker" /\ GatedNext /\ UNCHANGED <<about, vars>>

PilotSpec == PilotInit /\ [][PilotNext]_<<about, vars, gatedVars>>
=============================================================================
