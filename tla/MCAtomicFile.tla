---------------------------- MODULE MCAtomicFile ----------------------------
(***************************************************************************)
(* Which processes write the target.  tickMu leaves one writer in a        *)
(* process; only the gated copies are made for two at once.                *)
(***************************************************************************)
EXTENDS AtomicFile

MCOneWriter == CHOOSE w \in Writers : TRUE
MCApart == [s \in Variants |-> IF s = "gated" THEN Writers ELSE {MCOneWriter}]
MCShared == [s \in Variants |-> IF s = "plain" THEN Writers ELSE {}]
=============================================================================
