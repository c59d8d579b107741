----------------------------- MODULE MCNandroid -----------------------------
(* Nandroid on small partitions. *)
EXTENDS Nandroid, TLC

MCPart ==
  [data |-> [files |-> TRUE, split |-> TRUE, filter |-> TRUE, userdata |-> TRUE, sub |-> FALSE,
             archives |-> (0 :> 1) @@ (1 :> 1) @@ (2 :> 1)],
   extra |-> [files |-> TRUE, split |-> FALSE, filter |-> FALSE, userdata |-> FALSE, sub |-> TRUE,
             archives |-> (0 :> 1)],
   boot |-> [files |-> FALSE, split |-> FALSE, filter |-> FALSE, userdata |-> FALSE, sub |-> FALSE,
             archives |-> (0 :> 1)]]

MCLists == {<<"data", "extra", "boot">>, <<"boot", "data", "extra">>}
MCRestoreLists == MCLists \cup {<<"data", "extra">>, <<"boot">>}
=============================================================================
