--------------------------- MODULE MCBlockImageAll ---------------------------
(***************************************************************************)
(* Every well-formed transfer list of up to MaxLen commands on two blocks. *)
(* The contents of the source blocks differ, so a hash is determined by    *)
(* the blocks it was taken from.                                           *)
(***************************************************************************)
EXTENDS BlockImage, TLC

CONSTANT MaxLen

MCBlocks == 1..2
MCIds == {"h1", "h2", "h12"}
MCSource == <<"s1", "s2">>
MCTarget == <<"t1", "t2">>
MCValues == {"s1", "s2", "t1", "t2", "g"}

AfterFailure == {"unresumable"}

BlocksOf(id) == CASE id = "h1" -> {1} [] id = "h2" -> {2} [] id = "h12" -> {1, 2}
HashOf(S) == CHOOSE id \in MCIds : BlocksOf(id) = S

Patches ==
  {[op |-> "diff", tgt |-> t, src |-> s, use |-> u,
    id |-> HashOf(s \cup UNION {BlocksOf(i) : i \in u})] :
      t \in SUBSET MCBlocks \ {{}}, s \in SUBSET MCBlocks, u \in {{"h1"}, {"h2"}, {"h12"}}}
  \cup
  {[op |-> "diff", tgt |-> t, src |-> s, use |-> {}, id |-> HashOf(s)] :
      t \in SUBSET MCBlocks \ {{}}, s \in SUBSET MCBlocks \ {{}}}
Stashes ==
  {[op |-> "stash", tgt |-> {}, src |-> BlocksOf(i), use |-> {}, id |-> i] : i \in MCIds}
Frees ==
  {[op |-> "free", tgt |-> {}, src |-> {}, use |-> {}, id |-> i] : i \in MCIds}
Fills ==
  {[op |-> o, tgt |-> t, src |-> {}, use |-> {}, id |-> NoId] :
      o \in {"new", "zero"}, t \in SUBSET MCBlocks \ {{}}}

Commands == Patches \cup Stashes \cup Frees \cup Fills

MCLists ==
  {l \in UNION {[1..n -> Commands] : n \in 1..MaxLen} :
     WellFormed(l) /\ NoReuse(l) /\ Unsplit(l)}

FillCmd(o, t) == [op |-> o, tgt |-> t, src |-> {}, use |-> {}, id |-> NoId]
MCFullLists == { <<FillCmd("new", {1}), FillCmd("new", {2})>>, <<FillCmd("zero", {2}), FillCmd("new", {1})>> }
=============================================================================
