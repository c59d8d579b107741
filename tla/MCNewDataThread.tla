-------------------------- MODULE MCNewDataThread --------------------------
(***************************************************************************)
(* Two `new` commands of one and two units; archive entries of zero to     *)
(* four units (too short, exact and too long); plain and brotli entries.   *)
(***************************************************************************)
EXTENDS NewDataThread, TLC

MCEnd == (0 :> 0) @@ (1 :> 1) @@ (2 :> 3)
=============================================================================
