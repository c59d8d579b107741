---------------------------- MODULE MCBlockImage ----------------------------
(***************************************************************************)
(* Three blocks and a handful of transfer lists, each a way commands can   *)
(* depend on one another.                                                  *)
(***************************************************************************)
EXTENDS BlockImage, TLC

MCBlocks == 1..3
MCIds == {"A", "B"}
MCSource == <<"s1", "s2", "s3">>
MCTarget == <<"t1", "t2", "t3">>
MCValues == {"s1", "s2", "s3", "t1", "t2", "t3", "g"}

Never == {}
Anytime == {"interrupted", "unresumable"}

Patch(op, tgt, src, use, id) == [op |-> op, tgt |-> tgt, src |-> src, use |-> use, id |-> id]
Stash(id, src) == [op |-> "stash", tgt |-> {}, src |-> src, use |-> {}, id |-> id]
Free(id)       == [op |-> "free", tgt |-> {}, src |-> {}, use |-> {}, id |-> id]
FillCmd(op, tgt) == [op |-> op, tgt |-> tgt, src |-> {}, use |-> {}, id |-> NoId]

\* Blocks 1 and 2 change places with the help of a stash.
Swap == << Stash("A", {1}), Patch("move", {1}, {2}, {}, "B"), Patch("move", {2}, {}, {"A"}, "A"),
           Free("A"), FillCmd("new", {3}) >>
\* A diff over its own source, between fills.
InPlace == << FillCmd("zero", {3}), Patch("diff", {1, 2}, {1, 2}, {}, "B"), FillCmd("erase", {}) >>
\* A chain of overlapping moves that also needs a stash.
Chain == << Stash("A", {1}), Patch("move", {1, 2}, {2, 3}, {}, "B"),
            Patch("diff", {3}, {3}, {"A"}, "B"), Free("A") >>
\* The overlapping source is stashed explicitly as well, under the same hash.
SameHash == << Stash("A", {1, 2}), Patch("diff", {1, 2}, {1, 2}, {}, "A"),
               Patch("diff", {3}, {}, {"A"}, "B"), Free("A") >>
\* All `new` data before the only command that records its index.
NewFirst == << FillCmd("new", {1}), FillCmd("new", {2}), Patch("diff", {3}, {3}, {}, "A") >>
\* A stash that nothing overwrites, and that is never freed.
Kept == << Stash("A", {3}), Patch("diff", {1}, {1}, {"A"}, "B"), FillCmd("zero", {2}),
           Patch("diff", {3}, {}, {"A"}, "A") >>

MCLists == {Swap, InPlace, Chain, SameHash, NewFirst, Kept}

ASSUME \A l \in MCLists : NoReuse(l) /\ NewTogether(l)

-----------------------------------------------------------------------------
(* Lists and packages that break one of the assumptions; see the README's  *)
(* observations.                                                           *)

\* Blocks 1 and 2 hold the same data: id A is stashed and freed for block 1, then used
\* again for the source of an overlapping diff of block 2.
DupSource == <<"s1", "s1", "s3">>
Reused == << Stash("A", {1}), Patch("diff", {1}, {}, {"A"}, "A"), Free("A"),
             Patch("diff", {2}, {2}, {}, "A"), FillCmd("zero", {3}) >>
\* A command records its index between two `new` commands.
NewSplit == << FillCmd("new", {1}), Stash("A", {3}), FillCmd("new", {2}),
               Patch("diff", {3}, {}, {"A"}, "A"), Free("A") >>

ReuseLists == {Reused}
SplitLists == {NewSplit}
\* A full package.
Full == << FillCmd("new", {1}), FillCmd("new", {2}), FillCmd("zero", {3}) >>

OtherLists == {Swap, Full}
OtherFull == {Full}

ASSUME ~NoReuse(Reused) /\ ~NewTogether(NewSplit)
=============================================================================
